------------------------------ MODULE Messages ------------------------------
(***************************************************************************)
(* Messages and the keys they are encrypted with: MessageBuilder.ts (with, *)
(* build, seal, encrypt, decrypt, correlateWith), the add of MessageQueue, *)
(* the vault operations of TrackedQueueRepository.ts and crypto.ts.        *)
(*                                                                         *)
(* Message objects and their data objects are told apart, because seal,    *)
(* encrypt and decrypt copy a message and share its data, which encrypt    *)
(* and decrypt then change in place.  A queue holds serialized copies.     *)
(*                                                                         *)
(* A ciphertext is the sequence of the keys a value was encrypted under;   *)
(* the MD5 of a message is what was hashed.  The key of a vault record is  *)
(* named by the record's id.                                               *)
(***************************************************************************)
EXTENDS Naturals, Sequences, FiniteSets

CONSTANTS
  Tenants, Entities, EntityTypes, VaultIds,
  Fields,         \* attributes of a message's data
  Protected,      \* those that definition.encryption names
  Modes,          \* the kinds of definition.encryption: "none", "fields", "whole"
  None,           \* undefined
  MaxMessages,    \* BOUND: message objects
  MaxObjects,     \* BOUND: data objects of messages
  MaxJobs         \* BOUND: jobs of the queue

ASSUME MessagesAssumption ==
  /\ Protected \subseteq Fields
  /\ Modes \subseteq {"none", "fields", "whole"}
  /\ None \notin Tenants \cup VaultIds
  /\ MaxMessages \in Nat /\ MaxObjects \in Nat /\ MaxJobs \in Nat

VARIABLES
  setup,          \* the message's definition and the environment's master key
  builder,        \* an instance of the message's builder
  heap,           \* the data objects, the first is the caller's
  messages,       \* the message objects
  touched,        \* history: data objects encrypted or decrypted in place
  queue,          \* the queue's jobs
  vault,          \* the VaultRecord rows: a function on the ids used
  forgotten       \* history: entities whose keys were destroyed

vars == <<setup, builder, heap, messages, touched, queue, vault, forgotten>>

Keys == Seq(VaultIds)

(* A falsy attribute is not set.  whole: the keys under which the data is  *)
(* one encrypted string.                                                   *)
Content == [whole : Keys, field : [Fields -> [set : BOOLEAN, keys : Keys]]]

Record ==
  [tenant : Tenants, entity : Entities, type : EntityTypes,
   key : {"kept", "lost", "destroyed"}]

Reference == 1 .. MaxMessages
MessageType(m) ==
  /\ m.id \in Reference /\ m.tenant \in Tenants /\ m.data \in 1 .. Len(heap)
  /\ m.vault \in VaultIds \cup {None}
  /\ m.parent \in 0 .. MaxMessages /\ m.trace \in 0 .. MaxMessages

TypeOK ==
  /\ \A o \in 1 .. Len(heap) : heap[o] \in Content
  /\ \A i \in 1 .. Len(messages) : MessageType(messages[i])
  /\ DOMAIN vault \subseteq VaultIds
  /\ \A v \in DOMAIN vault : vault[v] \in Record
  /\ touched \subseteq 1 .. Len(heap)
  /\ forgotten \subseteq Tenants \X Entities

Init ==
  /\ setup \in [mode : Modes, master : BOOLEAN]
  /\ builder = [tenant |-> None, vault |-> None, parent |-> 0, trace |-> 0]
  /\ \E given \in [Fields -> BOOLEAN] :
       heap = <<[whole |-> <<>>, field |-> [f \in Fields |-> [set |-> given[f], keys |-> <<>>]]]>>
  /\ messages = <<>>
  /\ touched = {}
  /\ queue = {}
  /\ vault = [v \in {} |-> {}]
  /\ forgotten = {}

CallersData == 1
Put(o, content) == [heap EXCEPT ![o] = content]
HasRoom == Len(messages) < MaxMessages

-----------------------------------------------------------------------------
(* The vault.                                                              *)

(* createVault, once per entity (@@unique).  Without a master key the key  *)
(* is encrypted under a random one that nobody keeps.                      *)
CreateVault(v, t, e, y) ==
  /\ v \notin DOMAIN vault
  /\ \A w \in DOMAIN vault : ~ (vault[w].tenant = t /\ vault[w].entity = e)
  /\ vault' = [w \in DOMAIN vault \cup {v} |->
       IF w = v THEN [tenant |-> t, entity |-> e, type |-> y,
                      key |-> IF setup.master THEN "kept" ELSE "lost"]
                ELSE vault[w]]
  /\ UNCHANGED <<setup, builder, heap, messages, touched, queue, forgotten>>

(* findVaultKeyById: null without a record; decrypting a key that is lost  *)
(* or destroyed throws.  Its state is not looked at.                       *)
FindVaultKeyById(t, v) ==
  v \in DOMAIN vault /\ vault[v].tenant = t /\ vault[v].key = "kept"

(* findVaultKeyByEntityId, with or without the entity's type.              *)
FindVaultKeyByEntityId(t, e, y) ==
  {v \in DOMAIN vault :
     /\ vault[v].tenant = t /\ vault[v].entity = e
     /\ vault[v].type = y \/ y = None
     /\ FindVaultKeyById(t, v)}

\* Mutant: the records are only marked as deleted.
MarkDeleted(record) == record
Destroyed(record) == [record EXCEPT !.key = "destroyed"]

DestroyVaultKeysByEntityId(t, e, y) ==
  LET chosen == {v \in DOMAIN vault :
        /\ vault[v].tenant = t /\ vault[v].entity = e
        /\ y = None \/ vault[v].type = y} IN
  /\ vault' = [v \in DOMAIN vault |-> IF v \in chosen THEN Destroyed(vault[v]) ELSE vault[v]]
  /\ forgotten' = forgotten \cup {<<vault[v].tenant, vault[v].entity>> : v \in chosen}
  /\ UNCHANGED <<setup, builder, heap, messages, touched, queue>>

-----------------------------------------------------------------------------
(* The builder.                                                            *)

Last(keys) == keys[Len(keys)]

EncryptContent(c, v) ==
  IF setup.mode = "whole" THEN [c EXCEPT !.whole = Append(@, v)]
  ELSE [c EXCEPT !.field = [f \in Fields |->
         IF f \in Protected /\ c.field[f].set
         THEN [c.field[f] EXCEPT !.keys = Append(@, v)] ELSE c.field[f]]]

(* Authenticated decryption: of what was encrypted under this very key.    *)
CanDecrypt(c, v) ==
  IF setup.mode = "whole" THEN c.whole # <<>> /\ Last(c.whole) = v
  ELSE \A f \in Protected :
         c.field[f].set => c.field[f].keys # <<>> /\ Last(c.field[f].keys) = v

Outer(keys) == SubSeq(keys, 1, Len(keys) - 1)
DecryptContent(c) ==
  IF setup.mode = "whole" THEN [c EXCEPT !.whole = Outer(@)]
  ELSE [c EXCEPT !.field = [f \in Fields |->
         IF f \in Protected /\ c.field[f].set
         THEN [c.field[f] EXCEPT !.keys = Outer(@)] ELSE c.field[f]]]

(* What seal and verify hash: everything but the key itself.               *)
Hashed(m, c) ==
  [id |-> m.id, tenant |-> m.tenant, vault |-> m.vault, parent |-> m.parent,
   trace |-> m.trace, content |-> c]

Sealed(m, c) == [m EXCEPT !.key = <<Hashed(m, c)>>]

(* with(): tenant, source and data; everything else of the builder stays.  *)
With(t) ==
  /\ builder' = [builder EXCEPT !.tenant = t]
  /\ UNCHANGED <<setup, heap, messages, touched, queue, vault, forgotten>>

(* withEncryption, by a caller who has read the key of its tenant.         *)
WithEncryption(v) ==
  /\ setup.mode # "none"
  /\ FindVaultKeyById(builder.tenant, v)
  /\ builder' = [builder EXCEPT !.vault = v]
  /\ UNCHANGED <<setup, heap, messages, touched, queue, vault, forgotten>>

(* The same, with the key found by its entity.                             *)
WithEncryptionOf(e, y) ==
  /\ setup.mode # "none"
  /\ \E v \in FindVaultKeyByEntityId(builder.tenant, e, y) :
       builder' = [builder EXCEPT !.vault = v]
  /\ UNCHANGED <<setup, heap, messages, touched, queue, vault, forgotten>>

(* correlateWith: of the parent, and of the message the chain began with.  *)
\* Mutant: the parent is taken for the beginning.
TraceOfParent(m) == m.id
TraceFrom(m) == IF m.trace # 0 THEN m.trace ELSE m.id
CorrelateWith(i) ==
  /\ builder' = [builder EXCEPT !.parent = messages[i].id, !.trace = TraceFrom(messages[i])]
  /\ UNCHANGED <<setup, heap, messages, touched, queue, vault, forgotten>>

(* build() copies the caller's data, encrypts the copy, and seals last.    *)
(* History of a message: whether it is as build() made it, and with which  *)
(* key (None: in clear) it was sealed, if the seal it has is build()'s.    *)
\* Mutant: the message takes the caller's data object itself.
DataOfCaller(encrypted) == CallersData
NewData(encrypted) == Len(heap) + 1

\* Mutant: the message is sealed before it is encrypted.
SealedBeforeEncryption(m, clear, sent) == Sealed([m EXCEPT !.vault = None], clear).key
SealOfBuild(m, clear, sent) == Sealed(m, sent).key

(* build throws when a key is required and missing.                        *)
MayBuild(encrypts) == encrypts => builder.vault # None

Build(encrypt, seal) ==
  LET encrypts == setup.mode # "none" /\ encrypt
      clear == heap[CallersData]
      content == IF encrypts THEN EncryptContent(clear, builder.vault) ELSE clear
      o == NewData(encrypts)
      m == [id |-> Len(messages) + 1, tenant |-> builder.tenant,
            vault |-> IF encrypts THEN builder.vault ELSE None,
            parent |-> builder.parent, trace |-> builder.trace,
            data |-> o, built |-> TRUE, key |-> <<>>, sealedWith |-> <<>>] IN
  /\ builder.tenant # None /\ HasRoom /\ Len(heap) < MaxObjects
  /\ MayBuild(encrypts)
  /\ heap' = IF o > Len(heap) THEN Append(heap, content) ELSE Put(o, content)
  /\ messages' = Append(messages,
       IF seal THEN [m EXCEPT !.key = SealOfBuild(m, clear, content), !.sealedWith = <<m.vault>>]
       ELSE m)
  /\ UNCHANGED <<setup, builder, touched, queue, vault, forgotten>>

(* seal() of a message that has no key yet: a copy that shares the data.   *)
Seal(i) ==
  /\ HasRoom
  /\ messages[i].key = <<>>
  /\ messages' = Append(messages, Sealed(messages[i], heap[messages[i].data]))
  /\ UNCHANGED <<setup, builder, heap, touched, queue, vault, forgotten>>

(* encrypt() and decrypt(): a copy of the message, with new data when the  *)
(* whole of it is encrypted, with the same, changed data otherwise.        *)
Derive(i, content, m) ==
  LET o == messages[i].data IN
  /\ HasRoom
  /\ IF setup.mode = "whole"
     THEN /\ Len(heap) < MaxObjects
          /\ heap' = Append(heap, content)
          /\ messages' = Append(messages, [m EXCEPT !.data = Len(heap) + 1])
          /\ UNCHANGED touched
     ELSE /\ heap' = Put(o, content)
          /\ messages' = Append(messages, m)
          /\ touched' = touched \cup {o}
  /\ UNCHANGED <<setup, builder, queue, vault, forgotten>>

(* An encrypted message is returned as it is.                              *)
Encrypt(i, v) ==
  LET m == messages[i] IN
  /\ setup.mode # "none" /\ m.vault = None
  /\ FindVaultKeyById(m.tenant, v)
  /\ Derive(i, EncryptContent(heap[m.data], v), [m EXCEPT !.vault = v, !.built = FALSE])

Decrypt(i) ==
  LET m == messages[i] IN
  /\ setup.mode # "none" /\ m.vault # None
  /\ FindVaultKeyById(m.tenant, m.vault)
  /\ CanDecrypt(heap[m.data], m.vault)
  /\ Derive(i, DecryptContent(heap[m.data]), [m EXCEPT !.vault = None, !.built = FALSE])

(* add(): a job with the message as it is now.  A repeatable job's message *)
(* loses its key first, in the caller's object.                            *)
Send(i, repeat) ==
  LET m == IF repeat THEN [messages[i] EXCEPT !.key = <<>>, !.sealedWith = <<>>]
           ELSE messages[i] IN
  /\ Cardinality(queue) < MaxJobs
  /\ messages' = [messages EXCEPT ![i] = m]
  /\ queue' = queue \cup {[message |-> m, content |-> heap[m.data]]}
  /\ UNCHANGED <<setup, builder, heap, touched, vault, forgotten>>

Next ==
  \/ \E v \in VaultIds, t \in Tenants, e \in Entities, y \in EntityTypes : CreateVault(v, t, e, y)
  \/ \E t \in Tenants, e \in Entities, y \in EntityTypes \cup {None} :
       DestroyVaultKeysByEntityId(t, e, y)
  \/ \E t \in Tenants : With(t)
  \/ \E v \in VaultIds : WithEncryption(v)
  \/ \E e \in Entities, y \in EntityTypes \cup {None} : WithEncryptionOf(e, y)
  \/ \E encrypt, seal \in BOOLEAN : Build(encrypt, seal)
  \/ \E i \in 1 .. Len(messages) :
       \/ CorrelateWith(i) \/ Seal(i) \/ Decrypt(i)
       \/ \E v \in VaultIds : Encrypt(i, v)
       \/ \E repeat \in BOOLEAN : Send(i, repeat)

Spec == Init /\ [][Next]_vars

-----------------------------------------------------------------------------
(* What a consumer finds.                                                  *)

Verifies(job) == job.message.key = <<Hashed(job.message, job.content)>>

(* The protected content is encrypted once under this key, or is clear.    *)
EncryptedUnder(c, v) ==
  LET keys == IF v = None THEN <<>> ELSE <<v>> IN
  IF setup.mode = "whole" THEN c.whole = keys
  ELSE \A f \in Protected : c.field[f].set => c.field[f].keys = keys

(* The job is as its message was when build() sealed it.                   *)
AsSealed(job) ==
  LET v == job.message.sealedWith[1] IN
  job.message.vault = v /\ EncryptedUnder(job.content, v)

(* The message is as build() made it, and no encrypt() or decrypt() of a   *)
(* copy has changed in place the data it shares (MessageBuilder.ts:240).   *)
AsBuilt(job) == job.message.built /\ job.message.data \notin touched

Readable(job) ==
  LET m == job.message IN
  FindVaultKeyById(m.tenant, m.vault) /\ CanDecrypt(job.content, m.vault)

Clear(c) == c.whole = <<>> /\ \A f \in Fields : c.field[f].keys = <<>>

(* When a message that build() sealed, or a copy that kept its seal,       *)
(* verifies at its consumer: exactly when it is encrypted as it was sealed *)
(* (seal comes after encrypt), whatever else is done with the builder, the *)
(* caller's data or other messages.  So it fails for a copy that encrypt() *)
(* or decrypt() made, and, where fields are encrypted, for the original    *)
(* too: they change the data it shares, until that is encrypted again.     *)
SealedMessagesVerify ==
  \A job \in queue : job.message.sealedWith # <<>> => (Verifies(job) <=> AsSealed(job))

(* What build() encrypted is encrypted once: its consumer can decrypt it   *)
(* to the clear data for as long as the key of its tenant is kept, unless  *)
(* its data was encrypted or decrypted in place through a copy (AsBuilt).  *)
EncryptedIsReadable ==
  \A job \in queue :
    LET m == job.message IN
    AsBuilt(job) /\ m.vault # None /\ FindVaultKeyById(m.tenant, m.vault)
      => Readable(job) /\ Clear(DecryptContent(job.content))

(* Destroying the keys of an entity makes its messages unreadable for      *)
(* good, in whatever queue they are: no later call serves its key again,   *)
(* gives the entity another one, or reads a record under another tenant.   *)
DestroyedStaysUnreadable ==
  \A job \in queue :
    LET v == job.message.vault IN
    v \in DOMAIN vault /\ <<vault[v].tenant, vault[v].entity>> \in forgotten
      => ~ Readable(job)

(* MessageMetadata.ts: the correlation id is the parent's, the trace id is *)
(* that of the message which started the chain, however long it is: of     *)
(* every message built, and of the next one.                               *)
Links == {messages[i] : i \in 1 .. Len(messages)} \cup {builder}
TraceStartsTheChain ==
  \A link \in Links : \A j \in 1 .. Len(messages) :
    link.parent = messages[j].id =>
      link.trace = IF messages[j].parent = 0 THEN messages[j].id ELSE messages[j].trace
=============================================================================
