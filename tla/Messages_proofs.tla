-------------------------- MODULE Messages_proofs --------------------------
(* What destroying a vault key promises, and what a consumer finds in the  *)
(* messages that were built, for every set of tenants, entities, records   *)
(* and fields, and however many messages there are.                        *)
EXTENDS Messages, SequenceTheorems, TLAPS

(* Whose record it is.                                                     *)
Owner(record) == <<record.tenant, record.entity>>

(* An entity has one record, and one that was to be forgotten has lost its *)
(* key with it: its messages cannot come to be read under another record.  *)
VaultOK(records, destroyed) ==
  /\ DOMAIN records \subseteq VaultIds
  /\ \A v \in DOMAIN records : records[v] \in Record
  /\ \A v, w \in DOMAIN records : Owner(records[v]) = Owner(records[w]) => v = w
  /\ \A o \in destroyed :
       \E v \in DOMAIN records : Owner(records[v]) = o /\ records[v].key = "destroyed"
VaultInv == VaultOK(vault, forgotten)

LEMMA CreateStep ==
  ASSUME VaultInv, NEW v \in VaultIds, NEW t \in Tenants, NEW e \in Entities,
         NEW y \in EntityTypes, CreateVault(v, t, e, y)
  PROVE  VaultInv'
<1> DEFINE key == IF setup.master THEN "kept" ELSE "lost"
           new == [tenant |-> t, entity |-> e, type |-> y, key |-> key]
<1>1. /\ v \notin DOMAIN vault
      /\ \A w \in DOMAIN vault : ~ (vault[w].tenant = t /\ vault[w].entity = e)
      /\ vault' = [w \in DOMAIN vault \cup {v} |-> IF w = v THEN new ELSE vault[w]]
      /\ forgotten' = forgotten
  BY DEF CreateVault
<1>2. new \in Record /\ Owner(new) = <<t, e>>
  BY DEF Record, Owner
<1>3. \A w \in DOMAIN vault : Owner(vault[w]) # Owner(new)
  BY <1>1, <1>2 DEF Owner
<1> HIDE DEF new
<1> QED BY <1>1, <1>2, <1>3 DEF VaultInv, VaultOK

LEMMA DestroyStep ==
  ASSUME VaultInv, NEW t \in Tenants, NEW e \in Entities, NEW y,
         DestroyVaultKeysByEntityId(t, e, y)
  PROVE  VaultInv'
<1> DEFINE chosen == {v \in DOMAIN vault :
             /\ vault[v].tenant = t /\ vault[v].entity = e
             /\ y = None \/ vault[v].type = y}
<1>1. /\ vault' = [v \in DOMAIN vault |-> IF v \in chosen THEN Destroyed(vault[v]) ELSE vault[v]]
      /\ forgotten' = forgotten \cup {Owner(vault[v]) : v \in chosen}
  BY DEF DestroyVaultKeysByEntityId, Owner
<1>2. ASSUME NEW record \in Record
      PROVE  /\ Destroyed(record) \in Record
             /\ Owner(Destroyed(record)) = Owner(record)
             /\ Destroyed(record).key = "destroyed"
  BY <1>2 DEF Destroyed, Record, Owner
<1>3. chosen \subseteq DOMAIN vault
  OBVIOUS
<1> HIDE DEF chosen
<1>4. DOMAIN vault' = DOMAIN vault
  BY <1>1
<1>5. ASSUME NEW v \in DOMAIN vault
      PROVE  /\ vault'[v] \in Record
             /\ Owner(vault'[v]) = Owner(vault[v])
             /\ v \in chosen \/ vault[v].key = "destroyed" => vault'[v].key = "destroyed"
  <2>1. vault[v] \in Record
    BY DEF VaultInv, VaultOK
  <2>2. CASE v \in chosen
    BY <1>1, <1>2, <2>1, <2>2
  <2>3. CASE v \notin chosen
    BY <1>1, <2>1, <2>3
  <2> QED BY <2>2, <2>3
<1>6. ASSUME NEW o \in forgotten'
      PROVE  \E v \in DOMAIN vault' : Owner(vault'[v]) = o /\ vault'[v].key = "destroyed"
  <2>1. PICK v \in DOMAIN vault : Owner(vault[v]) = o /\ (v \in chosen \/ vault[v].key = "destroyed")
    BY <1>1, <1>3 DEF VaultInv, VaultOK
  <2> QED BY <1>4, <1>5, <2>1
<1>7. ASSUME NEW v \in DOMAIN vault', NEW w \in DOMAIN vault', Owner(vault'[v]) = Owner(vault'[w])
      PROVE  v = w
  BY <1>4, <1>5, <1>7 DEF VaultInv, VaultOK
<1> QED BY <1>4, <1>5, <1>6, <1>7 DEF VaultInv, VaultOK

(* Nothing else writes to the vault.                                       *)
LEMMA VaultStep == VaultInv /\ [Next]_vars => VaultInv'
<1> SUFFICES ASSUME VaultInv, [Next]_vars PROVE VaultInv'
  OBVIOUS
<1>1. ASSUME NEW v \in VaultIds, NEW t \in Tenants, NEW e \in Entities, NEW y \in EntityTypes,
             CreateVault(v, t, e, y)
      PROVE  VaultInv'
  BY <1>1, CreateStep
<1>2. ASSUME NEW t \in Tenants, NEW e \in Entities, NEW y \in EntityTypes \cup {None},
             DestroyVaultKeysByEntityId(t, e, y)
      PROVE  VaultInv'
  BY <1>2, DestroyStep
<1>3. ASSUME UNCHANGED <<vault, forgotten>> PROVE VaultInv'
  BY <1>3 DEF VaultInv
<1>4. ASSUME NEW t \in Tenants, With(t) PROVE VaultInv'
  BY <1>3, <1>4 DEF With
<1>5. ASSUME NEW v \in VaultIds, WithEncryption(v) PROVE VaultInv'
  BY <1>3, <1>5 DEF WithEncryption
<1>6. ASSUME NEW e, NEW y, WithEncryptionOf(e, y) PROVE VaultInv'
  BY <1>3, <1>6 DEF WithEncryptionOf
<1>7. ASSUME NEW encrypt, NEW seal, Build(encrypt, seal) PROVE VaultInv'
  BY <1>3, <1>7 DEF Build
<1>8. ASSUME NEW i \in 1 .. Len(messages) PROVE CorrelateWith(i) \/ Seal(i) => VaultInv'
  BY <1>3 DEF CorrelateWith, Seal
<1>9. ASSUME NEW i \in 1 .. Len(messages), Decrypt(i) PROVE VaultInv'
  BY <1>3, <1>9 DEF Decrypt, Derive
<1>10. ASSUME NEW i \in 1 .. Len(messages), NEW v \in VaultIds, Encrypt(i, v) PROVE VaultInv'
  BY <1>3, <1>10 DEF Encrypt, Derive
<1>11. ASSUME NEW i \in 1 .. Len(messages), NEW repeat \in BOOLEAN, Send(i, repeat) PROVE VaultInv'
  BY <1>3, <1>11 DEF Send
<1>12. CASE UNCHANGED vars
  BY <1>3, <1>12 DEF vars
<1> QED BY <1>1, <1>2, <1>4, <1>5, <1>6, <1>7, <1>8, <1>9, <1>10, <1>11, <1>12 DEF Next

-----------------------------------------------------------------------------
(* A message of an entity whose keys were destroyed is never read again,   *)
(* whatever is created, destroyed, built, encrypted or sent later.         *)
THEOREM ForgottenForGood == Spec => []DestroyedStaysUnreadable
<1>1. Init => VaultInv
  BY DEF Init, VaultInv, VaultOK
<1>2. VaultInv => DestroyedStaysUnreadable
  <2> SUFFICES ASSUME VaultInv, NEW job \in queue, NEW v, v = job.message.vault,
                      v \in DOMAIN vault, Owner(vault[v]) \in forgotten
               PROVE  ~ FindVaultKeyById(job.message.tenant, v)
    BY DEF DestroyedStaysUnreadable, Readable, Owner
  <2>1. vault[v].key = "destroyed"
    BY DEF VaultInv, VaultOK
  <2> QED BY <2>1 DEF FindVaultKeyById
<1> QED BY <1>1, <1>2, VaultStep, PTL DEF Spec
-----------------------------------------------------------------------------
(* The objects: messages refer to data objects, of which the first is the  *)
(* caller's and no message's.                                              *)

Hash ==
  [id : Reference, tenant : Tenants, vault : VaultIds \cup {None},
   parent : 0 .. MaxMessages, trace : 0 .. MaxMessages, content : Content]
Message ==
  [id : Reference, tenant : Tenants, vault : VaultIds \cup {None},
   parent : 0 .. MaxMessages, trace : 0 .. MaxMessages, data : Nat, built : BOOLEAN,
   key : Seq(Hash), sealedWith : Seq(VaultIds \cup {None})]
Builder ==
  [tenant : Tenants \cup {None}, vault : VaultIds \cup {None},
   parent : 0 .. MaxMessages, trace : 0 .. MaxMessages]

ObjectsOK ==
  /\ builder \in Builder
  /\ heap \in Seq(Content) /\ Len(heap) >= CallersData
  /\ messages \in Seq(Message) /\ Len(messages) <= MaxMessages
  /\ \A i \in 1 .. Len(messages) : messages[i].data \in (1 .. Len(heap)) \ {CallersData}
  /\ touched \subseteq (1 .. Len(heap)) \ {CallersData}
  /\ \A job \in queue : job.message \in Message /\ job.content \in Content

(* Encrypting and decrypting what is in a data object.                     *)
LEMMA OuterType ==
  ASSUME NEW keys \in Keys
  PROVE  Outer(keys) \in Keys
<1>1. Len(keys) \in Nat /\ \A i \in 1 .. Len(keys) - 1 : keys[i] \in VaultIds
  BY LenProperties, ElementOfSeq DEF Keys
<1> QED BY <1>1, SubSeqProperties DEF Keys, Outer

LEMMA ContentTypes ==
  ASSUME NEW c \in Content, NEW v \in VaultIds
  PROVE  EncryptContent(c, v) \in Content /\ DecryptContent(c) \in Content
<1>1. c.whole \in Keys /\ \A f \in Fields : c.field[f] \in [set : BOOLEAN, keys : Keys]
  BY DEF Content
<1>2. \A keys \in Keys : Append(keys, v) \in Keys
  BY AppendProperties DEF Keys
<1>3. \A keys \in Keys : Outer(keys) \in Keys
  BY OuterType
<1>4. \A f \in Fields : /\ [c.field[f] EXCEPT !.keys = Append(@, v)] \in [set : BOOLEAN, keys : Keys]
                        /\ [c.field[f] EXCEPT !.keys = Outer(@)] \in [set : BOOLEAN, keys : Keys]
  BY <1>1, <1>2, <1>3
<1>5. EncryptContent(c, v) \in Content
  BY <1>1, <1>2, <1>4 DEF EncryptContent, Content
<1>6. DecryptContent(c) \in Content
  BY <1>1, <1>3, <1>4 DEF DecryptContent, Content
<1> QED BY <1>5, <1>6

(* What was clear and is encrypted once can be decrypted, and is clear     *)
(* again.                                                                  *)
LEMMA EncryptedOnce ==
  ASSUME NEW c \in Content, Clear(c), NEW v \in VaultIds
  PROVE  CanDecrypt(EncryptContent(c, v), v) /\ Clear(DecryptContent(EncryptContent(c, v)))
<1> DEFINE Locked == Append(<<>>, v)
<1>1. Locked # <<>> /\ Last(Locked) = v /\ Outer(Locked) = <<>>
  <2>1. Locked = <<v>>
    OBVIOUS
  <2>2. Len(Locked) = 1 /\ Locked[1] = v
    BY <2>1
  <2> HIDE DEF Locked
  <2>3. Outer(Locked) = <<>>
    BY <2>2, SubSeqEmpty DEF Outer
  <2> QED BY <2>2, <2>3 DEF Last
<1>2. c.whole = <<>> /\ \A f \in Fields : c.field[f] \in [set : BOOLEAN, keys : Keys] /\ c.field[f].keys = <<>>
  BY DEF Content, Clear
<1>3. CASE setup.mode = "whole"
  <2>1. EncryptContent(c, v) = [c EXCEPT !.whole = Locked]
    BY <1>2, <1>3 DEF EncryptContent, Content
  <2>2. DecryptContent(EncryptContent(c, v)) = [c EXCEPT !.whole = <<>>]
    BY <1>1, <1>3, <2>1 DEF DecryptContent, Content
  <2> HIDE DEF Locked
  <2>3. CanDecrypt(EncryptContent(c, v), v)
    BY <1>1, <1>3, <2>1 DEF CanDecrypt, Content
  <2> QED BY <1>2, <2>2, <2>3 DEF Clear, Content
<1>4. CASE setup.mode # "whole"
  <2> DEFINE Chosen(f) == f \in Protected /\ c.field[f].set
             enc == [f \in Fields |-> IF Chosen(f) THEN [c.field[f] EXCEPT !.keys = Locked] ELSE c.field[f]]
             E == EncryptContent(c, v)
  <2>1. E = [c EXCEPT !.field = enc]
    <3>1. \A f \in Fields : [c.field[f] EXCEPT !.keys = Append(@, v)] = [c.field[f] EXCEPT !.keys = Locked]
      BY <1>2
    <3> HIDE DEF Locked
    <3>2. enc = [f \in Fields |-> IF f \in Protected /\ c.field[f].set
                  THEN [c.field[f] EXCEPT !.keys = Append(@, v)] ELSE c.field[f]]
      BY <3>1
    <3> HIDE DEF enc
    <3> QED BY <1>4, <3>2 DEF EncryptContent
  <2> HIDE DEF Locked
  <2>2. \A f \in Fields :
          /\ enc[f].set = c.field[f].set
          /\ enc[f].keys = IF Chosen(f) THEN Locked ELSE <<>>
          /\ DOMAIN enc[f] = {"set", "keys"}
    BY <1>2
  <2>3. E.field = enc /\ E.whole = <<>> /\ DOMAIN E = {"whole", "field"}
    BY <1>2, <2>1 DEF Content
  <2> HIDE DEF enc, E
  <2>4. CanDecrypt(E, v)
    BY <1>1, <1>4, <2>2, <2>3, MessagesAssumption DEF CanDecrypt
  <2>5. Clear(DecryptContent(E))
    <3> DEFINE dec == [f \in Fields |-> IF f \in Protected /\ E.field[f].set
                        THEN [E.field[f] EXCEPT !.keys = Outer(@)] ELSE E.field[f]]
    <3>1. DecryptContent(E) = [E EXCEPT !.field = dec]
      BY <1>4 DEF DecryptContent
    <3>2. \A f \in Fields : dec[f].keys = <<>>
      BY <1>1, <2>2, <2>3
    <3> HIDE DEF dec
    <3>3. DecryptContent(E).field = dec /\ DecryptContent(E).whole = <<>>
      BY <2>3, <3>1
    <3> QED BY <3>2, <3>3 DEF Clear
  <2> QED BY <2>4, <2>5 DEF E
<1> QED BY <1>3, <1>4

-----------------------------------------------------------------------------
(* The chains: a copy of a message has the place that the message has.     *)

SamePlace(m, n) == m.id = n.id /\ m.parent = n.parent /\ m.trace = n.trace
LinkOK(l, n) ==
  /\ l.parent \in 0 .. n /\ l.trace \in 0 .. n
  /\ l.parent = 0 <=> l.trace = 0

ChainOK ==
  /\ LinkOK(builder, Len(messages))
  /\ \A i \in 1 .. Len(messages) :
       LinkOK(messages[i], Len(messages)) /\ messages[i].id \in 1 .. Len(messages)
  /\ \A i, j \in 1 .. Len(messages) :
       messages[i].id = messages[j].id => SamePlace(messages[i], messages[j])
  /\ TraceStartsTheChain

(* The contents.  What build() made and nobody changed is sealed as it is, *)
(* and is the caller's data, encrypted once, when it is encrypted.         *)
AsItWasBuilt(m, c) ==
  /\ m.key # <<>> => m.key = <<Hashed(m, c)>>
  /\ m.vault # None => c = EncryptContent(heap[CallersData], m.vault)

ContentOK ==
  /\ Clear(heap[CallersData])
  /\ \A i \in 1 .. Len(messages) :
       LET m == messages[i] IN
       m.built /\ m.data \notin touched => AsItWasBuilt(m, heap[m.data])
  /\ \A job \in queue : AsBuilt(job) => AsItWasBuilt(job.message, job.content)

MessagesInv == ObjectsOK /\ ChainOK /\ ContentOK

(* With one more message or one more data object, the others are there as  *)
(* they were.                                                              *)
LEMMA OneMore ==
  ASSUME NEW S, NEW seq \in Seq(S), NEW elt \in S, NEW longer, longer = Append(seq, elt)
  PROVE  /\ longer \in Seq(S) /\ Len(longer) = Len(seq) + 1 /\ Len(seq) \in Nat
         /\ \A i \in 1 .. Len(seq) : longer[i] = seq[i]
         /\ longer[Len(seq) + 1] = elt
         /\ \A i \in 1 .. Len(longer) : i = Len(seq) + 1 \/ i \in 1 .. Len(seq)
         /\ Len(seq) <= Len(longer)
<1>1. longer \in Seq(S) /\ Len(longer) = Len(seq) + 1 /\ Len(seq) \in Nat
  BY AppendProperties, LenProperties
<1>2. \A i \in 1 .. Len(longer) : i = Len(seq) + 1 \/ i \in 1 .. Len(seq)
  BY <1>1
<1> QED BY <1>1, <1>2, AppendProperties

(* Copies of messages do not change the chains.                            *)
LEMMA CopiesKeepChain ==
  ASSUME ObjectsOK, ChainOK, messages' \in Seq(Message), Len(messages) <= Len(messages'),
         builder'.parent = builder.parent, builder'.trace = builder.trace,
         \A i \in 1 .. Len(messages') : \E k \in 1 .. Len(messages) :
           SamePlace(messages'[i], messages[k])
  PROVE  ChainOK'
<1>1. Len(messages) \in Nat /\ Len(messages') \in Nat
  BY LenProperties DEF ObjectsOK
<1>2. LinkOK(builder', Len(messages'))
  BY <1>1 DEF ChainOK, LinkOK
<1>3. ASSUME NEW i \in 1 .. Len(messages')
      PROVE  LinkOK(messages'[i], Len(messages')) /\ messages'[i].id \in 1 .. Len(messages')
  <2>1. PICK k \in 1 .. Len(messages) : SamePlace(messages'[i], messages[k])
    OBVIOUS
  <2>2. LinkOK(messages[k], Len(messages)) /\ messages[k].id \in 1 .. Len(messages)
    BY DEF ChainOK
  <2> QED BY <1>1, <2>1, <2>2 DEF LinkOK, SamePlace
<1>4. \A i, j \in 1 .. Len(messages') :
        messages'[i].id = messages'[j].id => SamePlace(messages'[i], messages'[j])
  BY DEF ChainOK, SamePlace
<1>5. ASSUME NEW l \in Links', NEW j \in 1 .. Len(messages'), l.parent = messages'[j].id
      PROVE  l.trace = IF messages'[j].parent = 0 THEN messages'[j].id ELSE messages'[j].trace
  <2>1. PICK n \in Links : n.parent = l.parent /\ n.trace = l.trace
    <3>1. CASE l = builder'
      BY <3>1 DEF Links
    <3>2. ASSUME NEW i \in 1 .. Len(messages'), l = messages'[i]
          PROVE  \E n \in Links : n.parent = l.parent /\ n.trace = l.trace
      <4>1. PICK k \in 1 .. Len(messages) : SamePlace(messages'[i], messages[k])
        OBVIOUS
      <4> QED BY <3>2, <4>1 DEF Links, SamePlace
    <3>3. l = builder' \/ \E i \in 1 .. Len(messages') : l = messages'[i]
      BY <1>5 DEF Links
    <3> QED BY <3>1, <3>2, <3>3
  <2>2. PICK k \in 1 .. Len(messages) : SamePlace(messages'[j], messages[k])
    BY <1>5
  <2> QED BY <1>5, <2>1, <2>2 DEF ChainOK, TraceStartsTheChain, SamePlace
<1> QED BY <1>2, <1>3, <1>4, <1>5 DEF ChainOK, TraceStartsTheChain

(* What was as build() had made it is so after a step that left it alone.  *)
LEMMA BuiltStays ==
  ASSUME NEW m, NEW c, AsItWasBuilt(m, c), UNCHANGED setup,
         heap'[CallersData] = heap[CallersData]
  PROVE  AsItWasBuilt(m, c)'
BY DEF AsItWasBuilt, EncryptContent, Hashed

(* The jobs of the queue keep what they hold.                              *)
LEMMA JobsStay ==
  ASSUME ContentOK, UNCHANGED setup, heap'[CallersData] = heap[CallersData],
         touched \subseteq touched'
  PROVE  \A job \in queue : AsBuilt(job)' => AsItWasBuilt(job.message, job.content)'
<1> SUFFICES ASSUME NEW job \in queue, AsBuilt(job)'
             PROVE  AsItWasBuilt(job.message, job.content)'
  OBVIOUS
<1>1. AsItWasBuilt(job.message, job.content)
  BY DEF ContentOK, AsBuilt
<1> QED BY <1>1, BuiltStays

(* A message that is there with its data is as it was built, if it was.    *)
LEMMA MessageStays ==
  ASSUME ObjectsOK, ContentOK, UNCHANGED setup, touched \subseteq touched',
         \A o \in (1 .. Len(heap)) \ touched' : heap'[o] = heap[o],
         CallersData \notin touched',
         NEW i \in 1 .. Len(messages), NEW m, NEW c,
         m = messages[i], m.built, m.data \notin touched', c = heap'[m.data]
  PROVE  AsItWasBuilt(m, c)'
<1>1. m.data \in 1 .. Len(heap) /\ CallersData \in 1 .. Len(heap)
  BY LenProperties DEF ObjectsOK, CallersData
<1>2. c = heap[m.data] /\ heap'[CallersData] = heap[CallersData]
  BY <1>1
<1>3. AsItWasBuilt(m, c)
  BY <1>2 DEF ContentOK
<1> QED BY <1>2, <1>3, BuiltStays

LEMMA SameContent ==
  ASSUME ObjectsOK, ContentOK, UNCHANGED <<setup, heap, messages, touched, queue>>
  PROVE  ContentOK'
<1>1. \A job \in queue : AsBuilt(job)' => AsItWasBuilt(job.message, job.content)'
  BY JobsStay
<1>2. ASSUME NEW i \in 1 .. Len(messages), messages[i].built, messages[i].data \notin touched
      PROVE  AsItWasBuilt(messages[i], heap[messages[i].data])'
  BY <1>2, MessageStays DEF ObjectsOK
<1> QED BY <1>1, <1>2 DEF ContentOK, Clear

(* The vault and most of the builder's calls do not touch the objects.     *)
LEMMA BuilderStep ==
  ASSUME MessagesInv, builder' \in Builder,
         builder'.parent = builder.parent, builder'.trace = builder.trace,
         UNCHANGED <<setup, heap, messages, touched, queue>>
  PROVE  MessagesInv'
<1>1. ObjectsOK'
  BY DEF MessagesInv, ObjectsOK
<1>2. ChainOK'
  <2>1. \A i \in 1 .. Len(messages') : SamePlace(messages'[i], messages[i])
    BY DEF SamePlace
  <2>2. Len(messages) \in Nat
    BY LenProperties DEF MessagesInv, ObjectsOK
  <2> QED BY <1>1, <2>1, <2>2, CopiesKeepChain DEF MessagesInv, ObjectsOK
<1>3. ContentOK'
  BY SameContent DEF MessagesInv
<1> QED BY <1>1, <1>2, <1>3 DEF MessagesInv

LEMMA CorrelateStep ==
  ASSUME MessagesInv, NEW i \in 1 .. Len(messages), CorrelateWith(i)
  PROVE  MessagesInv'
<1>1. messages[i] \in Message /\ Len(messages) \in Nat
  BY ElementOfSeq, LenProperties DEF MessagesInv, ObjectsOK
<1>2. /\ builder' = [builder EXCEPT !.parent = messages[i].id, !.trace = TraceFrom(messages[i])]
      /\ UNCHANGED <<setup, heap, messages, touched, queue>>
  BY DEF CorrelateWith
<1>3. LinkOK(messages[i], Len(messages)) /\ messages[i].id \in 1 .. Len(messages)
  BY DEF MessagesInv, ChainOK
<1>4. /\ builder' \in Builder
      /\ builder'.parent = messages[i].id /\ builder'.trace = TraceFrom(messages[i])
  <2>1. messages[i].id \in 0 .. MaxMessages /\ TraceFrom(messages[i]) \in 0 .. MaxMessages
    BY <1>1 DEF Message, TraceFrom, Reference
  <2>2. PICK b \in Builder : b = builder
    BY DEF MessagesInv, ObjectsOK
  <2>3. PICK p \in 0 .. MaxMessages, t \in 0 .. MaxMessages :
          p = messages[i].id /\ t = TraceFrom(messages[i])
    BY <2>1
  <2>4. builder' = [b EXCEPT !.parent = p, !.trace = t]
    BY <1>2, <2>2, <2>3
  <2> QED BY <2>3, <2>4 DEF Builder
<1>5. ObjectsOK'
  BY <1>2, <1>4 DEF MessagesInv, ObjectsOK
<1>6. LinkOK(builder', Len(messages))
  BY <1>1, <1>2, <1>3, <1>4 DEF LinkOK, TraceFrom
<1>7. ASSUME NEW j \in 1 .. Len(messages), builder'.parent = messages[j].id
      PROVE  builder'.trace = IF messages[j].parent = 0 THEN messages[j].id ELSE messages[j].trace
  <2>1. SamePlace(messages[i], messages[j])
    BY <1>4, <1>7 DEF MessagesInv, ChainOK
  <2> QED BY <1>3, <1>4, <2>1 DEF SamePlace, TraceFrom, LinkOK
<1>8. ChainOK'
  <2>1. ASSUME NEW l \in Links', NEW j \in 1 .. Len(messages), l.parent = messages[j].id
        PROVE  l.trace = IF messages[j].parent = 0 THEN messages[j].id ELSE messages[j].trace
    <3>1. CASE l = builder'
      BY <1>7, <2>1, <3>1
    <3>2. CASE l \in Links
      BY <2>1, <3>2 DEF MessagesInv, ChainOK, TraceStartsTheChain
    <3> QED BY <1>2, <3>1, <3>2 DEF Links
  <2>2. TraceStartsTheChain'
    BY <1>2, <2>1 DEF TraceStartsTheChain
  <2> QED BY <1>2, <1>6, <2>2 DEF MessagesInv, ChainOK
<1>9. ContentOK'
  BY <1>2, SameContent DEF MessagesInv
<1> QED BY <1>5, <1>8, <1>9 DEF MessagesInv

(* build(): a new message with new data, sealed as it is sent.             *)
LEMMA BuildStep ==
  ASSUME MessagesInv, NEW encrypt \in BOOLEAN, NEW seal \in BOOLEAN, Build(encrypt, seal)
  PROVE  MessagesInv'
<1> DEFINE encrypts == setup.mode # "none" /\ encrypt
           clear == heap[CallersData]
           content == IF encrypts THEN EncryptContent(clear, builder.vault) ELSE clear
           o == Len(heap) + 1
           n == Len(messages) + 1
           m == [id |-> n, tenant |-> builder.tenant,
                 vault |-> IF encrypts THEN builder.vault ELSE None,
                 parent |-> builder.parent, trace |-> builder.trace,
                 data |-> o, built |-> TRUE, key |-> <<>>, sealedWith |-> <<>>]
           new == IF seal THEN [m EXCEPT !.key = <<Hashed(m, content)>>, !.sealedWith = <<m.vault>>]
                  ELSE m
<1>1. /\ Len(heap) \in Nat /\ Len(heap) >= 1 /\ heap[1] \in Content
      /\ Len(messages) \in Nat /\ n \in Reference
      /\ builder \in Builder /\ builder.tenant \in Tenants
  BY LenProperties, ElementOfSeq, MessagesAssumption
     DEF Build, HasRoom, MessagesInv, ObjectsOK, CallersData, Reference, Builder
<1>2. encrypts => builder.vault \in VaultIds
  BY <1>1 DEF Build, MayBuild, Builder
<1>3. content \in Content
  BY <1>1, <1>2, ContentTypes DEF CallersData
<1>4. heap' = Append(heap, content)
  BY <1>1 DEF Build, NewData
<1>5. messages' = Append(messages, new) /\ UNCHANGED <<setup, builder, touched, queue>>
  BY <1>1 DEF Build, NewData, SealOfBuild, Sealed
<1>6. /\ m.id = n /\ m.tenant = builder.tenant /\ m.parent = builder.parent
      /\ m.trace = builder.trace /\ m.data = o /\ m.built /\ m.key = <<>>
      /\ m.vault = IF encrypts THEN builder.vault ELSE None
  OBVIOUS
<1>7. m.vault \in VaultIds \cup {None} /\ o \in Nat
  BY <1>1, <1>2
<1> HIDE DEF encrypts
<1>8. m \in Message /\ m.sealedWith = <<>>
  BY <1>1, <1>6, <1>7, EmptySeq DEF Message, Builder
<1>9. Hashed(m, content) \in Hash
  BY <1>3, <1>8 DEF Hashed, Hash, Message
<1> HIDE DEF content, m
<1>10. <<Hashed(m, content)>> \in Seq(Hash) /\ <<m.vault>> \in Seq(VaultIds \cup {None})
  BY <1>7, <1>9
<1>11. /\ new \in Message /\ new.built /\ new.data = o /\ new.vault = m.vault
       /\ SamePlace(new, m) /\ Hashed(new, content) = Hashed(m, content)
       /\ new.key # <<>> => new.key = <<Hashed(m, content)>>
  BY <1>6, <1>8, <1>10 DEF Message, SamePlace, Hashed
<1> HIDE DEF new
<1>12. /\ heap' \in Seq(Content) /\ Len(heap') = o
       /\ \A k \in 1 .. Len(heap) : heap'[k] = heap[k]
       /\ heap'[o] = content
  BY <1>3, <1>4, OneMore DEF MessagesInv, ObjectsOK
<1>13. /\ messages' \in Seq(Message) /\ Len(messages') = n
       /\ \A k \in 1 .. Len(messages) : messages'[k] = messages[k]
       /\ messages'[n] = new
  BY <1>5, <1>11, OneMore DEF MessagesInv, ObjectsOK
<1>14. ObjectsOK'
  BY <1>1, <1>5, <1>11, <1>12, <1>13 DEF MessagesInv, ObjectsOK, CallersData, Reference
<1>15. ChainOK'
  <2> USE DEF MessagesInv
  <2>1. \A l : LinkOK(l, Len(messages)) => LinkOK(l, n) /\ l.parent # n
    BY <1>1 DEF LinkOK
  <2>2. LinkOK(builder', n)
    BY <1>5, <2>1 DEF ChainOK
  <2>3. LinkOK(new, n)
    BY <1>5, <1>6, <1>11, <2>2 DEF LinkOK, SamePlace
  <2>4. \A i \in 1 .. Len(messages') : i = n \/ i \in 1 .. Len(messages)
    BY <1>1, <1>13
  <2>5. new.id = n /\ n \in 1 .. Len(messages')
    BY <1>1, <1>6, <1>11, <1>13 DEF SamePlace
  <2>6. \A i \in 1 .. Len(messages') : LinkOK(messages'[i], n) /\ messages'[i].id \in 1 .. n
    <3>1. \A i \in 1 .. Len(messages) : LinkOK(messages'[i], n) /\ messages'[i].id \in 1 .. n
      BY <1>1, <1>13, <2>1 DEF ChainOK
    <3> QED BY <1>13, <2>3, <2>4, <2>5, <3>1
  <2>7. \A i, j \in 1 .. Len(messages') :
          messages'[i].id = messages'[j].id => SamePlace(messages'[i], messages'[j])
    <3>1. \A i \in 1 .. Len(messages) : messages[i].id # n
      BY <1>1 DEF ChainOK
    <3> QED BY <1>13, <2>4, <2>5, <3>1 DEF ChainOK, SamePlace
  <2>8. ASSUME NEW l \in Links', NEW j \in 1 .. Len(messages'), l.parent = messages'[j].id
        PROVE  l.trace = IF messages'[j].parent = 0 THEN messages'[j].id ELSE messages'[j].trace
    <3>1. \E k \in Links : k.parent = l.parent /\ k.trace = l.trace /\ LinkOK(k, Len(messages))
      <4>1. CASE l \in Links
        BY <4>1 DEF Links, ChainOK
      <4>2. CASE l = new
        BY <1>6, <1>11, <4>2 DEF Links, ChainOK, SamePlace
      <4> QED BY <1>5, <1>13, <2>4, <2>8, <4>1, <4>2 DEF Links
    <3>2. j # n
      BY <1>13, <2>1, <2>5, <2>8, <3>1
    <3> QED BY <1>13, <2>4, <2>8, <3>1, <3>2 DEF ChainOK, TraceStartsTheChain
  <2> QED BY <1>13, <2>2, <2>6, <2>7, <2>8 DEF ChainOK, TraceStartsTheChain
<1>16. ContentOK'
  <2>1. heap'[CallersData] = heap[CallersData]
    BY <1>1, <1>12 DEF CallersData
  <2>2. \A job \in queue : AsBuilt(job)' => AsItWasBuilt(job.message, job.content)'
    BY <1>5, <2>1, JobsStay DEF MessagesInv
  <2>3. AsItWasBuilt(new, content)
    BY <1>6, <1>11, <1>2 DEF AsItWasBuilt, content, encrypts
  <2>4. ASSUME NEW i \in 1 .. Len(messages'), messages'[i].built, messages'[i].data \notin touched'
        PROVE  AsItWasBuilt(messages[i], heap[messages[i].data])'
    <3>1. CASE i = n
      BY <1>5, <1>11, <1>12, <1>13, <2>1, <2>3, <3>1, BuiltStays
    <3>2. CASE i # n
      <4>1. i \in 1 .. Len(messages) /\ messages'[i] = messages[i]
        BY <1>1, <1>13, <3>2
      <4>2. messages[i].data \in 1 .. Len(heap)
        BY <4>1 DEF MessagesInv, ObjectsOK
      <4>3. AsItWasBuilt(messages[i], heap[messages[i].data])
        BY <1>5, <2>4, <4>1 DEF MessagesInv, ContentOK
      <4>4. heap'[messages'[i].data] = heap[messages[i].data]
        BY <1>12, <4>1, <4>2
      <4> QED BY <1>5, <2>1, <4>1, <4>3, <4>4, BuiltStays
    <3> QED BY <3>1, <3>2
  <2>5. Clear(heap[CallersData])'
    BY <2>1 DEF MessagesInv, ContentOK, Clear
  <2> QED BY <1>5, <2>2, <2>4, <2>5 DEF ContentOK
<1> QED BY <1>14, <1>15, <1>16 DEF MessagesInv

(* seal(): a copy with the hash of the message as it is now.               *)
LEMMA SealStep ==
  ASSUME MessagesInv, NEW i \in 1 .. Len(messages), Seal(i)
  PROVE  MessagesInv'
<1> DEFINE m == messages[i]
           c == heap[m.data]
           new == Sealed(m, c)
           n == Len(messages) + 1
<1>1. /\ m \in Message /\ Len(messages) \in Nat /\ n <= MaxMessages
      /\ m.data \in (1 .. Len(heap)) \ {CallersData} /\ c \in Content
  BY ElementOfSeq, LenProperties, MessagesAssumption DEF Seal, HasRoom, MessagesInv, ObjectsOK
<1>2. messages' = Append(messages, new) /\ UNCHANGED <<setup, builder, heap, touched, queue>>
  BY DEF Seal
<1> HIDE DEF c
<1>3. Hashed(m, c) \in Hash
  BY <1>1 DEF Hashed, Hash, Message
<1>4. <<Hashed(m, c)>> \in Seq(Hash)
  BY <1>3
<1>5. /\ new \in Message /\ new.built = m.built /\ new.data = m.data /\ new.vault = m.vault
      /\ SamePlace(new, m) /\ Hashed(new, c) = Hashed(m, c) /\ new.key = <<Hashed(m, c)>>
  BY <1>1, <1>4 DEF Sealed, Message, SamePlace, Hashed
<1> HIDE DEF new
<1>6. /\ messages' \in Seq(Message) /\ Len(messages') = n
      /\ \A k \in 1 .. Len(messages) : messages'[k] = messages[k]
      /\ messages'[n] = new
  BY <1>2, <1>5, OneMore DEF MessagesInv, ObjectsOK
<1>7. /\ \A k \in 1 .. Len(messages') : k = n \/ k \in 1 .. Len(messages)
      /\ Len(messages) <= Len(messages')
  BY <1>2, <1>5, OneMore DEF MessagesInv, ObjectsOK
<1>8. ObjectsOK'
  BY <1>1, <1>2, <1>5, <1>6, <1>7 DEF MessagesInv, ObjectsOK
<1>9. ChainOK'
  <2>1. \A k \in 1 .. Len(messages') : \E l \in 1 .. Len(messages) : SamePlace(messages'[k], messages[l])
    BY <1>5, <1>6, <1>7 DEF SamePlace
  <2>2. builder'.parent = builder.parent /\ builder'.trace = builder.trace
    BY <1>2
  <2> HIDE DEF n
  <2> QED BY <1>6, <1>7, <2>1, <2>2, CopiesKeepChain DEF MessagesInv
<1>10. ContentOK'
  <2> USE DEF MessagesInv
  <2>1. \A job \in queue : AsBuilt(job)' => AsItWasBuilt(job.message, job.content)'
    BY <1>2, JobsStay
  <2>2. ASSUME NEW k \in 1 .. Len(messages'), messages'[k].built, messages'[k].data \notin touched
        PROVE  AsItWasBuilt(messages[k], heap[messages[k].data])'
    <3>1. CASE k \in 1 .. Len(messages)
      BY <1>2, <1>6, <2>2, <3>1, MessageStays DEF ObjectsOK
    <3>2. CASE k = n
      <4>1. AsItWasBuilt(m, c)
        BY <1>2, <1>5, <1>6, <2>2, <3>2 DEF ContentOK, c
      <4>2. AsItWasBuilt(new, c)
        BY <1>5, <4>1 DEF AsItWasBuilt
      <4>3. messages'[k] = new /\ heap'[new.data] = c
        BY <1>2, <1>5, <1>6, <3>2 DEF c
      <4> QED BY <1>2, <4>2, <4>3, BuiltStays
    <3> QED BY <1>7, <3>1, <3>2
  <2> QED BY <1>2, <2>1, <2>2 DEF ContentOK, Clear
<1> QED BY <1>8, <1>9, <1>10 DEF MessagesInv

(* encrypt() and decrypt(): a copy that build() did not make, and new or   *)
(* changed data.                                                           *)
LEMMA DeriveStep ==
  ASSUME MessagesInv, NEW i \in 1 .. Len(messages), NEW content \in Content,
         NEW m \in Message, ~ m.built, m.data = messages[i].data, SamePlace(m, messages[i]),
         Derive(i, content, m)
  PROVE  MessagesInv'
<1> DEFINE n == Len(messages) + 1
           o == Len(heap) + 1
<1>1. /\ messages[i] \in Message /\ Len(messages) \in Nat /\ n <= MaxMessages
      /\ Len(heap) \in Nat /\ Len(heap) >= CallersData
      /\ messages[i].data \in (1 .. Len(heap)) \ {CallersData}
  BY ElementOfSeq, LenProperties, MessagesAssumption DEF Derive, HasRoom, MessagesInv, ObjectsOK
<1>2. ~ m.built /\ m.data = messages[i].data /\ SamePlace(m, messages[i])
  OBVIOUS
<1>3. PICK w \in Message :
        w = [m EXCEPT !.data = o] /\ ~ w.built /\ w.data = o /\ SamePlace(w, messages[i])
  <2>1. ASSUME NEW x \in Message, NEW d \in Nat
        PROVE  LET y == [x EXCEPT !.data = d] IN
               /\ y \in Message /\ y.built = x.built /\ y.data = d
               /\ SamePlace(y, x)
    BY DEF Message, SamePlace
  <2>2. o \in Nat
    BY <1>1
  <2> HIDE DEF o
  <2> DEFINE y == [m EXCEPT !.data = o]
  <2>3. y \in Message /\ ~ y.built /\ y.data = o
    BY <1>2, <2>1, <2>2
  <2>4. SamePlace(y, m)
    BY <1>2, <2>1, <2>2
  <2>5. SamePlace(y, messages[i])
    BY <1>2, <2>4 DEF SamePlace
  <2>6. y = [m EXCEPT !.data = o]
    OBVIOUS
  <2> HIDE DEF y
  <2> QED BY <2>3, <2>5, <2>6
<1>4. UNCHANGED <<setup, builder, queue>>
  BY DEF Derive
<1>5. PICK new :
        /\ new \in Message /\ ~ new.built /\ SamePlace(new, messages[i])
        /\ messages' = Append(messages, new)
        /\ new.data \in (1 .. Len(heap')) \ {CallersData}
        /\ heap' \in Seq(Content) /\ Len(heap) <= Len(heap')
        /\ touched \subseteq touched' /\ touched' \subseteq (1 .. Len(heap)) \ {CallersData}
        /\ \A p \in (1 .. Len(heap)) \ touched' : heap'[p] = heap[p]
  <2>1. CASE setup.mode = "whole"
    <3>1. heap' = Append(heap, content) /\ messages' = Append(messages, w)
          /\ UNCHANGED touched
      BY <1>3, <2>1 DEF Derive
    <3>2. heap' \in Seq(Content) /\ Len(heap') = o /\ \A p \in 1 .. Len(heap) : heap'[p] = heap[p]
      BY <3>1, OneMore DEF MessagesInv, ObjectsOK
    <3>3. o \in (1 .. Len(heap')) \ {CallersData}
      BY <1>1, <3>2 DEF CallersData
    <3>4. w \in Message /\ ~ w.built /\ SamePlace(w, messages[i])
          /\ w.data \in (1 .. Len(heap')) \ {CallersData}
      BY <1>3, <3>3
    <3>5. Len(heap) <= Len(heap')
      BY <1>1, <3>2
    <3>6. touched \subseteq touched' /\ touched' \subseteq (1 .. Len(heap)) \ {CallersData}
      BY <3>1 DEF MessagesInv, ObjectsOK
    <3>7. \A p \in (1 .. Len(heap)) \ touched' : heap'[p] = heap[p]
      BY <3>2
    <3> HIDE DEF o
    <3> QED BY <3>1, <3>2, <3>4, <3>5, <3>6, <3>7
  <2>2. CASE setup.mode # "whole"
    <3>1. heap' = [heap EXCEPT ![m.data] = content] /\ messages' = Append(messages, m)
          /\ touched' = touched \cup {m.data}
      BY <1>2, <2>2 DEF Derive, Put
    <3>2. heap' \in Seq(Content) /\ Len(heap') = Len(heap)
          /\ \A p \in 1 .. Len(heap) : p # m.data => heap'[p] = heap[p]
      BY <1>1, <1>2, <3>1, ExceptSeq DEF MessagesInv, ObjectsOK
    <3>3. touched \subseteq touched' /\ touched' \subseteq (1 .. Len(heap)) \ {CallersData}
      BY <1>1, <1>2, <3>1 DEF MessagesInv, ObjectsOK
    <3>4. \A p \in (1 .. Len(heap)) \ touched' : heap'[p] = heap[p]
      BY <3>1, <3>2
    <3>5. m.data \in (1 .. Len(heap')) \ {CallersData} /\ Len(heap) <= Len(heap')
      BY <1>1, <1>2, <3>2
    <3> QED BY <1>2, <3>1, <3>2, <3>3, <3>4, <3>5
  <2> QED BY <2>1, <2>2
<1>6. /\ messages' \in Seq(Message) /\ Len(messages') = n
      /\ \A k \in 1 .. Len(messages) : messages'[k] = messages[k]
      /\ messages'[n] = new
  BY <1>5, OneMore DEF MessagesInv, ObjectsOK
<1>7. /\ \A k \in 1 .. Len(messages') : k = n \/ k \in 1 .. Len(messages)
      /\ Len(messages) <= Len(messages')
  BY <1>5, OneMore DEF MessagesInv, ObjectsOK
<1>8. Len(heap') \in Nat
  BY <1>5, LenProperties
<1>9. ObjectsOK'
  <2>1. \A p : p \in (1 .. Len(heap)) \ {CallersData} => p \in (1 .. Len(heap')) \ {CallersData}
    BY <1>1, <1>5, <1>8
  <2>2. \A k \in 1 .. Len(messages') : messages'[k].data \in (1 .. Len(heap')) \ {CallersData}
    BY <1>5, <1>6, <1>7, <2>1 DEF MessagesInv, ObjectsOK
  <2>3. touched' \subseteq (1 .. Len(heap')) \ {CallersData}
    BY <1>5, <2>1
  <2>4. Len(heap') >= CallersData
    BY <1>1, <1>5, <1>8 DEF CallersData
  <2>5. Len(messages') <= MaxMessages
    BY <1>1, <1>6
  <2> QED BY <1>4, <1>5, <1>6, <2>2, <2>3, <2>4, <2>5 DEF MessagesInv, ObjectsOK
<1>10. ChainOK'
  <2>1. \A k \in 1 .. Len(messages') : \E l \in 1 .. Len(messages) : SamePlace(messages'[k], messages[l])
    BY <1>5, <1>6, <1>7 DEF SamePlace
  <2>2. builder'.parent = builder.parent /\ builder'.trace = builder.trace
    BY <1>4
  <2> HIDE DEF n
  <2> QED BY <1>6, <1>7, <2>1, <2>2, CopiesKeepChain DEF MessagesInv
<1>11. ContentOK'
  <2> USE DEF MessagesInv
  <2>1. CallersData \in 1 .. Len(heap) /\ CallersData \notin touched'
    BY <1>1, <1>5 DEF CallersData
  <2>2. heap'[CallersData] = heap[CallersData]
    BY <1>5, <2>1
  <2>3. \A job \in queue : AsBuilt(job)' => AsItWasBuilt(job.message, job.content)'
    BY <1>4, <1>5, <2>2, JobsStay
  <2>4. ASSUME NEW k \in 1 .. Len(messages'), messages'[k].built, messages'[k].data \notin touched'
        PROVE  AsItWasBuilt(messages[k], heap[messages[k].data])'
    <3>1. k \in 1 .. Len(messages) /\ messages'[k] = messages[k]
      BY <1>5, <1>6, <1>7, <2>4
    <3> QED BY <1>4, <1>5, <2>1, <2>4, <3>1, MessageStays
  <2> QED BY <1>4, <2>2, <2>3, <2>4 DEF ContentOK, Clear
<1> QED BY <1>9, <1>10, <1>11 DEF MessagesInv

(* add(): the queue gets the message and its data as they are.             *)
LEMMA SendStep ==
  ASSUME MessagesInv, NEW i \in 1 .. Len(messages), NEW repeat \in BOOLEAN, Send(i, repeat)
  PROVE  MessagesInv'
<1> DEFINE Sent == IF repeat THEN [messages[i] EXCEPT !.key = <<>>, !.sealedWith = <<>>]
                   ELSE messages[i]
<1>1. messages[i] \in Message /\ messages[i].data \in (1 .. Len(heap)) \ {CallersData}
  BY ElementOfSeq DEF MessagesInv, ObjectsOK
<1>2. PICK m \in Message :
        /\ m = Sent /\ m.built = messages[i].built /\ m.data = messages[i].data
        /\ SamePlace(m, messages[i]) /\ m.vault = messages[i].vault
        /\ m.key # <<>> => m = messages[i]
  <2>1. /\ Sent \in Message /\ Sent.built = messages[i].built /\ Sent.data = messages[i].data
        /\ SamePlace(Sent, messages[i]) /\ Sent.vault = messages[i].vault
        /\ Sent.key # <<>> => Sent = messages[i]
    BY <1>1, EmptySeq DEF Message, SamePlace
  <2> HIDE DEF Sent
  <2> QED BY <2>1
<1>3. PICK c \in Content : c = heap[m.data]
  BY <1>1, <1>2, ElementOfSeq DEF MessagesInv, ObjectsOK
<1>4. PICK job : job = [message |-> m, content |-> c]
  OBVIOUS
<1>5. job.message = m /\ job.content = c
  BY <1>4
<1>11. /\ messages' = [messages EXCEPT ![i] = m] /\ queue' = queue \cup {job}
      /\ UNCHANGED <<setup, builder, heap, touched>>
  BY <1>2, <1>3, <1>4 DEF Send
<1> HIDE DEF Sent
<1>6. /\ messages' \in Seq(Message) /\ Len(messages') = Len(messages) /\ Len(messages) \in Nat
      /\ \A k \in 1 .. Len(messages) : messages'[k] = IF k = i THEN m ELSE messages[k]
  BY <1>1, <1>2, <1>11, ExceptSeq, LenProperties DEF MessagesInv, ObjectsOK
<1>7. ObjectsOK'
  BY <1>1, <1>2, <1>5, <1>6, <1>11 DEF MessagesInv, ObjectsOK
<1>8. ChainOK'
  <2>1. \A k \in 1 .. Len(messages') : SamePlace(messages'[k], messages[k])
    BY <1>2, <1>6 DEF SamePlace
  <2> QED BY <1>11, <1>6, <2>1, CopiesKeepChain DEF MessagesInv
<1>9. ContentOK'
  <2> USE DEF MessagesInv
  <2>1. \A j \in queue : AsBuilt(j)' => AsItWasBuilt(j.message, j.content)'
    BY <1>11, JobsStay
  <2>2. m.built /\ m.data \notin touched => AsItWasBuilt(m, c)
    BY <1>2, <1>3 DEF ContentOK, AsItWasBuilt
  <2>3. m.built /\ m.data \notin touched => AsItWasBuilt(m, c)'
    BY <1>11, <2>2, BuiltStays
  <2>4. \A j \in queue' : AsBuilt(j)' => AsItWasBuilt(j.message, j.content)'
    BY <1>11, <1>5, <2>1, <2>3 DEF AsBuilt
  <2>5. ASSUME NEW k \in 1 .. Len(messages'), messages'[k].built, messages'[k].data \notin touched
        PROVE  AsItWasBuilt(messages[k], heap[messages[k].data])'
    <3>1. CASE k = i
      <4>1. messages'[k] = m /\ heap'[m.data] = c
        BY <1>3, <1>6, <1>11, <3>1
      <4> QED BY <2>3, <2>5, <4>1
    <3>2. CASE k # i
      <4>1. k \in 1 .. Len(messages) /\ messages'[k] = messages[k]
        BY <1>6, <3>2
      <4> QED BY <1>11, <2>5, <4>1, MessageStays DEF ObjectsOK
    <3> QED BY <3>1, <3>2
  <2> QED BY <1>11, <2>4, <2>5 DEF ContentOK, Clear
<1> QED BY <1>7, <1>8, <1>9 DEF MessagesInv

LEMMA MessagesInit == Init => MessagesInv
<1> SUFFICES ASSUME Init PROVE MessagesInv
  OBVIOUS
<1>1. PICK given \in [Fields -> BOOLEAN] :
        heap = <<[whole |-> <<>>, field |-> [f \in Fields |-> [set |-> given[f], keys |-> <<>>]]]>>
  BY DEF Init
<1> DEFINE c == [whole |-> <<>>, field |-> [f \in Fields |-> [set |-> given[f], keys |-> <<>>]]]
<1>2. <<>> \in Keys
  BY EmptySeq DEF Keys
<1>3. c \in Content /\ Clear(c)
  BY <1>2 DEF Content, Clear
<1>4. heap = <<c>>
  BY <1>1
<1> HIDE DEF c
<1>5. heap \in Seq(Content) /\ Len(heap) = 1 /\ heap[1] = c
  BY <1>3, <1>4
<1>6. messages \in Seq(Message) /\ Len(messages) = 0 /\ touched = {} /\ queue = {}
  BY EmptySeq DEF Init
<1>7. builder = [tenant |-> None, vault |-> None, parent |-> 0, trace |-> 0]
  BY DEF Init
<1>8. 0 \in 0 .. MaxMessages
  BY MessagesAssumption
<1>9. ObjectsOK
  BY <1>5, <1>6, <1>7, <1>8, MessagesAssumption DEF ObjectsOK, Builder, CallersData
<1>10. ChainOK
  BY <1>6, <1>7 DEF ChainOK, LinkOK, TraceStartsTheChain
<1>11. ContentOK
  BY <1>3, <1>5, <1>6 DEF ContentOK, CallersData
<1> QED BY <1>9, <1>10, <1>11 DEF MessagesInv

(* The keys an encryption or a decryption is given are of vault records.   *)
LEMMA EncryptStep ==
  ASSUME MessagesInv, NEW i \in 1 .. Len(messages), NEW v \in VaultIds, Encrypt(i, v)
  PROVE  MessagesInv'
<1>1. messages[i].data \in 1 .. Len(heap) /\ messages[i] \in Message
  BY ElementOfSeq DEF MessagesInv, ObjectsOK
<1>2. heap[messages[i].data] \in Content
  BY <1>1, ElementOfSeq DEF MessagesInv, ObjectsOK
<1> DEFINE content == EncryptContent(heap[messages[i].data], v)
<1>3. content \in Content
  BY <1>2, ContentTypes
<1> DEFINE m == [messages[i] EXCEPT !.vault = v, !.built = FALSE]
<1>4. m \in Message /\ ~ m.built /\ m.data = messages[i].data /\ SamePlace(m, messages[i])
  BY <1>1 DEF Message, SamePlace
<1>5. Derive(i, content, m)
  BY DEF Encrypt
<1> HIDE DEF content, m
<1> QED BY <1>3, <1>4, <1>5, DeriveStep

LEMMA DecryptStep ==
  ASSUME MessagesInv, NEW i \in 1 .. Len(messages), Decrypt(i)
  PROVE  MessagesInv'
<1>1. messages[i].data \in 1 .. Len(heap) /\ messages[i] \in Message
  BY ElementOfSeq DEF MessagesInv, ObjectsOK
<1>2. heap[messages[i].data] \in Content /\ messages[i].vault \in VaultIds
  BY <1>1, ElementOfSeq DEF MessagesInv, ObjectsOK, Message, Decrypt
<1> DEFINE content == DecryptContent(heap[messages[i].data])
<1>3. content \in Content
  BY <1>2, ContentTypes
<1> DEFINE m == [messages[i] EXCEPT !.vault = None, !.built = FALSE]
<1>4. m \in Message /\ ~ m.built /\ m.data = messages[i].data /\ SamePlace(m, messages[i])
  BY <1>1 DEF Message, SamePlace
<1>5. Derive(i, content, m)
  BY DEF Decrypt
<1> HIDE DEF content, m
<1> QED BY <1>3, <1>4, <1>5, DeriveStep

LEMMA WithStep ==
  ASSUME MessagesInv, NEW b, builder' = b,
         \/ \E t \in Tenants : b = [builder EXCEPT !.tenant = t]
         \/ \E v \in VaultIds : b = [builder EXCEPT !.vault = v],
         UNCHANGED <<setup, heap, messages, touched, queue>>
  PROVE  MessagesInv'
<1>1. builder \in Builder
  BY DEF MessagesInv, ObjectsOK
<1>2. b \in Builder /\ b.parent = builder.parent /\ b.trace = builder.trace
  BY <1>1 DEF Builder
<1> QED BY <1>2, BuilderStep

LEMMA MessagesStep == MessagesInv /\ VaultInv /\ [Next]_vars => MessagesInv'
<1> SUFFICES ASSUME MessagesInv, VaultInv, [Next]_vars PROVE MessagesInv'
  OBVIOUS
<1>1. ASSUME UNCHANGED <<setup, builder, heap, messages, touched, queue>> PROVE MessagesInv'
  BY <1>1, BuilderStep DEF MessagesInv, ObjectsOK
<1>2. ASSUME NEW v \in VaultIds, NEW t \in Tenants, NEW e \in Entities, NEW y \in EntityTypes,
             CreateVault(v, t, e, y)
      PROVE  MessagesInv'
  BY <1>1, <1>2 DEF CreateVault
<1>3. ASSUME NEW t \in Tenants, NEW e \in Entities, NEW y, DestroyVaultKeysByEntityId(t, e, y)
      PROVE  MessagesInv'
  BY <1>1, <1>3 DEF DestroyVaultKeysByEntityId
<1>4. ASSUME NEW t \in Tenants, With(t) PROVE MessagesInv'
  BY <1>4, WithStep DEF With
<1>5. ASSUME NEW v \in VaultIds, WithEncryption(v) PROVE MessagesInv'
  BY <1>5, WithStep DEF WithEncryption
<1>6. ASSUME NEW e, NEW y, WithEncryptionOf(e, y) PROVE MessagesInv'
  <2>1. PICK v \in FindVaultKeyByEntityId(builder.tenant, e, y) : builder' = [builder EXCEPT !.vault = v]
    BY <1>6 DEF WithEncryptionOf
  <2>2. v \in VaultIds
    BY DEF FindVaultKeyByEntityId, VaultInv, VaultOK
  <2> QED BY <1>6, <2>1, <2>2, WithStep DEF WithEncryptionOf
<1>7. ASSUME NEW encrypt \in BOOLEAN, NEW seal \in BOOLEAN, Build(encrypt, seal) PROVE MessagesInv'
  BY <1>7, BuildStep
<1>8. ASSUME NEW i \in 1 .. Len(messages),
             \/ CorrelateWith(i) \/ Seal(i) \/ Decrypt(i)
             \/ \E v \in VaultIds : Encrypt(i, v)
             \/ \E repeat \in BOOLEAN : Send(i, repeat)
      PROVE  MessagesInv'
  BY <1>8, CorrelateStep, SealStep, DecryptStep, EncryptStep, SendStep
<1>9. CASE UNCHANGED vars
  BY <1>1, <1>9 DEF vars
<1> QED BY <1>2, <1>3, <1>4, <1>5, <1>6, <1>7, <1>8, <1>9 DEF Next

LEMMA AlwaysMessagesInv == Spec => [](MessagesInv /\ VaultInv)
<1>1. Init => MessagesInv /\ VaultInv
  BY MessagesInit DEF Init, VaultInv, VaultOK
<1>2. (MessagesInv /\ VaultInv) /\ [Next]_vars => (MessagesInv /\ VaultInv)'
  BY MessagesStep, VaultStep
<1> QED BY <1>1, <1>2, PTL DEF Spec

-----------------------------------------------------------------------------
(* Every object is what it is declared to be, and refers to data there is. *)
THEOREM MessagesTyped == Spec => []TypeOK
<1>1. MessagesInv /\ VaultInv => TypeOK
  <2> SUFFICES ASSUME MessagesInv, VaultInv PROVE TypeOK
    OBVIOUS
  <2>1. \A o \in 1 .. Len(heap) : heap[o] \in Content
    BY ElementOfSeq DEF MessagesInv, ObjectsOK
  <2>2. \A i \in 1 .. Len(messages) : MessageType(messages[i])
    <3>1. \A i \in 1 .. Len(messages) : messages[i] \in Message
      BY ElementOfSeq DEF MessagesInv, ObjectsOK
    <3> QED BY <3>1 DEF MessageType, Message, MessagesInv, ObjectsOK
  <2>3. \A p \in forgotten : p \in Tenants \X Entities
    BY DEF VaultInv, VaultOK, Owner, Record
  <2> QED BY <2>1, <2>2, <2>3 DEF TypeOK, VaultInv, VaultOK, MessagesInv, ObjectsOK
<1> QED BY <1>1, AlwaysMessagesInv, PTL

-----------------------------------------------------------------------------
(* The seals of build().                                                   *)

(* What is hashed of a message, with this key and this content.            *)
HashWith(m, v, c) ==
  [id |-> m.id, tenant |-> m.tenant, vault |-> v, parent |-> m.parent,
   trace |-> m.trace, content |-> c]

(* Contents that differ in how what is protected is encrypted, and in      *)
(* nothing else.                                                           *)
Alike(c, d) ==
  IF setup.mode = "whole" THEN c.field = d.field
  ELSE /\ c.whole = d.whole
       /\ \A f \in Fields :
            /\ c.field[f].set = d.field[f].set
            /\ ~ (f \in Protected /\ c.field[f].set) => c.field[f].keys = d.field[f].keys

(* The seal is of the message with what was its content, encrypted under   *)
(* the key it was sealed with; nothing else of the content can change.     *)
SealKnown(m, c) ==
  m.sealedWith # <<>> =>
    \E s \in Content :
      /\ m.key = <<HashWith(m, m.sealedWith[1], s)>>
      /\ EncryptedUnder(s, m.sealedWith[1])
      /\ Alike(s, c)

SealsOK ==
  /\ \A i \in 1 .. Len(messages) : SealKnown(messages[i], heap[messages[i].data])
  /\ \A job \in queue : SealKnown(job.message, job.content)

SameSeal(m, n) ==
  /\ SamePlace(m, n) /\ m.tenant = n.tenant
  /\ m.key = n.key /\ m.sealedWith = n.sealedWith

LEMMA AlikeItself == \A c : Alike(c, c)
BY DEF Alike

LEMMA AlikeEncrypted ==
  ASSUME NEW c \in Content, NEW v
  PROVE  Alike(c, EncryptContent(c, v)) /\ Alike(c, DecryptContent(c))
<1>1. CASE setup.mode = "whole"
  BY <1>1 DEF Alike, EncryptContent, DecryptContent, Content
<1>2. CASE setup.mode # "whole"
  <2> DEFINE E == EncryptContent(c, v)
             D == DecryptContent(c)
  <2>1. /\ c.field \in [Fields -> [set : BOOLEAN, keys : Keys]] /\ c.whole \in Keys
        /\ DOMAIN c = {"whole", "field"}
    BY DEF Content
  <2>2. /\ E.whole = c.whole
        /\ E.field = [f \in Fields |->
             IF f \in Protected /\ c.field[f].set
             THEN [c.field[f] EXCEPT !.keys = Append(@, v)] ELSE c.field[f]]
    BY <1>2, <2>1 DEF EncryptContent
  <2>3. /\ D.whole = c.whole
        /\ D.field = [f \in Fields |->
             IF f \in Protected /\ c.field[f].set
             THEN [c.field[f] EXCEPT !.keys = Outer(@)] ELSE c.field[f]]
    BY <1>2, <2>1 DEF DecryptContent
  <2> HIDE DEF E, D
  <2>4. \A f \in Fields : /\ E.field[f].set = c.field[f].set /\ D.field[f].set = c.field[f].set
                          /\ ~ (f \in Protected /\ c.field[f].set) =>
                               E.field[f] = c.field[f] /\ D.field[f] = c.field[f]
    BY <2>1, <2>2, <2>3
  <2>5. Alike(c, E) /\ Alike(c, D)
    BY <1>2, <2>2, <2>3, <2>4 DEF Alike
  <2> QED BY <2>5 DEF E, D
<1> QED BY <1>1, <1>2

(* A copy with the same seal, of a content that is alike.                  *)
LEMMA SealCarries ==
  ASSUME NEW m, NEW c, SealKnown(m, c), NEW n, SameSeal(n, m), NEW d, Alike(c, d)
  PROVE  SealKnown(n, d)
<1> SUFFICES ASSUME n.sealedWith # <<>>
             PROVE  \E s \in Content : /\ n.key = <<HashWith(n, n.sealedWith[1], s)>>
                                       /\ EncryptedUnder(s, n.sealedWith[1])
                                       /\ Alike(s, d)
  BY DEF SealKnown
<1>1. PICK s \in Content : /\ m.key = <<HashWith(m, m.sealedWith[1], s)>>
                           /\ EncryptedUnder(s, m.sealedWith[1])
                           /\ Alike(s, c)
  BY DEF SealKnown, SameSeal
<1>2. n.key = <<HashWith(n, n.sealedWith[1], s)>>
  BY <1>1 DEF HashWith, SameSeal, SamePlace
<1>3. EncryptedUnder(s, n.sealedWith[1])
  BY <1>1 DEF SameSeal
<1>4. Alike(s, d)
  BY <1>1 DEF Alike
<1> QED BY <1>2, <1>3, <1>4

LEMMA SealsThen ==
  ASSUME UNCHANGED setup,
         \A i \in 1 .. Len(messages') : SealKnown(messages'[i], heap'[messages'[i].data]),
         \A job \in queue' : SealKnown(job.message, job.content)
  PROVE  SealsOK'
<1>1. \A c, v : EncryptedUnder(c, v) => EncryptedUnder(c, v)'
  BY DEF EncryptedUnder
<1>2. \A c, d : Alike(c, d) => Alike(c, d)'
  BY DEF Alike
<1>3. \A m, c : SealKnown(m, c) => SealKnown(m, c)'
  BY <1>1, <1>2 DEF SealKnown
<1> QED BY <1>3 DEF SealsOK

(* What is there stays sealed when the data objects stay alike.            *)
LEMMA SealsStay ==
  ASSUME ObjectsOK, SealsOK, UNCHANGED queue,
         \A o \in 1 .. Len(heap) : Alike(heap[o], heap'[o])
  PROVE  /\ \A job \in queue' : SealKnown(job.message, job.content)
         /\ \A i \in 1 .. Len(messages) : SealKnown(messages[i], heap'[messages[i].data])
<1>1. ASSUME NEW job \in queue PROVE SealKnown(job.message, job.content)
  <2>1. SealKnown(job.message, job.content) /\ SameSeal(job.message, job.message)
    BY DEF SealsOK, SameSeal, SamePlace
  <2> QED BY <2>1, AlikeItself, SealCarries
<1>2. ASSUME NEW i \in 1 .. Len(messages) PROVE SealKnown(messages[i], heap'[messages[i].data])
  <2>1. SealKnown(messages[i], heap[messages[i].data]) /\ SameSeal(messages[i], messages[i])
    BY DEF SealsOK, SameSeal, SamePlace
  <2>2. Alike(heap[messages[i].data], heap'[messages[i].data])
    BY DEF ObjectsOK
  <2> QED BY <2>1, <2>2, SealCarries
<1> QED BY <1>1, <1>2

LEMMA SealsUnchanged ==
  ASSUME ObjectsOK, SealsOK, UNCHANGED <<setup, heap, messages, queue>>
  PROVE  SealsOK'
<1>1. \A o \in 1 .. Len(heap) : Alike(heap[o], heap'[o])
  BY AlikeItself
<1>2. \A i \in 1 .. Len(messages) : SealKnown(messages[i], heap'[messages[i].data])
  BY <1>1, SealsStay
<1>3. \A job \in queue' : SealKnown(job.message, job.content)
  BY <1>1, SealsStay
<1> QED BY <1>2, <1>3, SealsThen

(* One more message.                                                       *)
LEMMA SealsGrow ==
  ASSUME ObjectsOK, SealsOK, UNCHANGED <<setup, queue>>,
         \A o \in 1 .. Len(heap) : Alike(heap[o], heap'[o]),
         NEW new \in Message, messages' = Append(messages, new),
         SealKnown(new, heap'[new.data])
  PROVE  SealsOK'
<1>1. \A i \in 1 .. Len(messages') : messages'[i] = new \/
        (i \in 1 .. Len(messages) /\ messages'[i] = messages[i])
  BY OneMore DEF ObjectsOK
<1>2. \A i \in 1 .. Len(messages') : SealKnown(messages'[i], heap'[messages'[i].data])
  BY <1>1, SealsStay
<1>3. \A job \in queue' : SealKnown(job.message, job.content)
  BY SealsStay
<1> QED BY <1>2, <1>3, SealsThen

(* build() encrypts what is clear once, and seals what it has encrypted.   *)
LEMMA EncryptedAsSaid ==
  ASSUME NEW c \in Content, Clear(c)
  PROVE  /\ EncryptedUnder(c, None)
         /\ \A v \in VaultIds : EncryptedUnder(EncryptContent(c, v), v)
<1>1. EncryptedUnder(c, None)
  BY MessagesAssumption DEF EncryptedUnder, Clear
<1>2. ASSUME NEW v \in VaultIds PROVE EncryptedUnder(EncryptContent(c, v), v)
  <2>1. v # None /\ Append(<<>>, v) = <<v>>
    BY MessagesAssumption
  <2>2. c.whole = <<>> /\ \A f \in Fields : c.field[f] \in [set : BOOLEAN, keys : Keys] /\ c.field[f].keys = <<>>
    BY DEF Content, Clear
  <2>3. CASE setup.mode = "whole"
    BY <2>1, <2>2, <2>3 DEF EncryptedUnder, EncryptContent, Content
  <2>4. CASE setup.mode # "whole"
    <3> DEFINE E == EncryptContent(c, v)
    <3>1. E.field = [f \in Fields |->
             IF f \in Protected /\ c.field[f].set
             THEN [c.field[f] EXCEPT !.keys = Append(@, v)] ELSE c.field[f]]
      BY <2>4 DEF EncryptContent, Content
    <3> HIDE DEF E
    <3>2. ASSUME NEW f \in Fields, f \in Protected, E.field[f].set PROVE E.field[f].keys = <<v>>
      <4>1. CASE c.field[f].set
        <5>1. E.field[f] = [c.field[f] EXCEPT !.keys = Append(@, v)]
          BY <3>1, <3>2, <4>1
        <5>2. E.field[f].keys = Append(c.field[f].keys, v)
          BY <2>2, <5>1
        <5> QED BY <2>1, <2>2, <5>2
      <4>2. CASE ~ c.field[f].set
        BY <3>1, <3>2, <4>2
      <4> QED BY <4>1, <4>2
    <3>3. EncryptedUnder(E, v)
      BY <2>1, <2>4, <3>2, MessagesAssumption DEF EncryptedUnder
    <3> QED BY <3>3 DEF E
  <2> QED BY <2>3, <2>4
<1> QED BY <1>1, <1>2

LEMMA BuildSeals ==
  ASSUME MessagesInv, SealsOK, NEW encrypt \in BOOLEAN, NEW seal \in BOOLEAN, Build(encrypt, seal),
         MessagesInv'
  PROVE  SealsOK'
<1> DEFINE encrypts == setup.mode # "none" /\ encrypt
           clear == heap[CallersData]
           content == IF encrypts THEN EncryptContent(clear, builder.vault) ELSE clear
           o == Len(heap) + 1
           m == [id |-> Len(messages) + 1, tenant |-> builder.tenant,
                 vault |-> IF encrypts THEN builder.vault ELSE None,
                 parent |-> builder.parent, trace |-> builder.trace,
                 data |-> o, built |-> TRUE, key |-> <<>>, sealedWith |-> <<>>]
           new == IF seal THEN [m EXCEPT !.key = <<Hashed(m, content)>>, !.sealedWith = <<m.vault>>]
                  ELSE m
<1>1. /\ Len(heap) \in Nat /\ CallersData \in 1 .. Len(heap) /\ clear \in Content /\ Clear(clear)
      /\ builder.vault \in VaultIds \cup {None} /\ Len(messages) \in Nat
  BY LenProperties, ElementOfSeq DEF MessagesInv, ObjectsOK, ContentOK, CallersData, Builder
<1>2. encrypts => builder.vault \in VaultIds
  BY <1>1 DEF Build, MayBuild
<1>3. content \in Content
  BY <1>1, <1>2, ContentTypes
<1>4. heap' = Append(heap, content)
  BY <1>1 DEF Build, NewData
<1>5. messages' = Append(messages, new) /\ UNCHANGED <<setup, queue>>
  BY <1>1 DEF Build, NewData, SealOfBuild, Sealed
<1>6. EncryptedUnder(content, m.vault)
  BY <1>1, <1>2, EncryptedAsSaid
<1>7. /\ \A k \in 1 .. Len(heap) : heap'[k] = heap[k]
      /\ heap'[o] = content
  BY <1>3, <1>4, OneMore DEF MessagesInv, ObjectsOK
<1>8. \A k \in 1 .. Len(heap) : Alike(heap[k], heap'[k])
  BY <1>7, AlikeItself
<1>9. /\ new.data = o
      /\ new.sealedWith # <<>> => /\ new.sealedWith[1] = m.vault
                                 /\ new.key = <<HashWith(new, m.vault, content)>>
  BY DEF Hashed, HashWith
<1>10. new \in Message
  <2>1. messages' \in Seq(Message) /\ Len(messages) + 1 \in 1 .. Len(messages')
    BY <1>1, <1>5, LenProperties DEF MessagesInv, ObjectsOK
  <2>2. messages'[Len(messages) + 1] = new
    BY <1>1, <1>5 DEF MessagesInv, ObjectsOK
  <2> QED BY <2>1, <2>2, ElementOfSeq
<1> HIDE DEF encrypts, content, m, new
<1>11. SealKnown(new, heap'[new.data])
  <2>1. SealKnown(new, content)
    BY <1>3, <1>6, <1>9, AlikeItself DEF SealKnown
  <2> QED BY <1>7, <1>9, <2>1
<1> QED BY <1>5, <1>8, <1>10, <1>11, SealsGrow DEF MessagesInv

(* seal() is of a message that has lost the seal of build(), or had none.  *)
LEMMA SealSeals ==
  ASSUME MessagesInv, SealsOK, NEW i \in 1 .. Len(messages), Seal(i)
  PROVE  SealsOK'
<1> DEFINE new == Sealed(messages[i], heap[messages[i].data])
<1>1. /\ messages' = Append(messages, new) /\ messages[i].key = <<>>
      /\ UNCHANGED <<setup, heap, queue>>
  BY DEF Seal
<1>2. messages[i] \in Message /\ heap[messages[i].data] \in Content
  BY ElementOfSeq DEF MessagesInv, ObjectsOK
<1>3. messages[i].sealedWith = <<>>
  BY <1>1 DEF SealsOK, SealKnown
<1>4. new \in Message /\ new.sealedWith = <<>>
  <2>1. Hashed(messages[i], heap[messages[i].data]) \in Hash
    BY <1>2 DEF Hashed, Hash, Message
  <2>2. <<Hashed(messages[i], heap[messages[i].data])>> \in Seq(Hash)
    BY <2>1
  <2> QED BY <1>2, <1>3, <2>2 DEF Sealed, Message
<1> HIDE DEF new
<1>5. SealKnown(new, heap'[new.data])
  BY <1>4 DEF SealKnown
<1>6. \A k \in 1 .. Len(heap) : Alike(heap[k], heap'[k])
  BY <1>1, AlikeItself
<1> QED BY <1>1, <1>4, <1>5, <1>6, SealsGrow DEF MessagesInv

(* encrypt() and decrypt() make a copy with the seal of the original, and  *)
(* a content alike, perhaps in the original's place.                       *)
LEMMA DeriveSeals ==
  ASSUME MessagesInv, SealsOK, NEW i \in 1 .. Len(messages), NEW content \in Content,
         Alike(heap[messages[i].data], content),
         NEW m \in Message, m.data = messages[i].data, SameSeal(m, messages[i]),
         Derive(i, content, m)
  PROVE  SealsOK'
<1>1. /\ messages[i] \in Message /\ Len(heap) \in Nat
      /\ messages[i].data \in 1 .. Len(heap)
      /\ SealKnown(messages[i], heap[messages[i].data])
  BY ElementOfSeq, LenProperties DEF MessagesInv, ObjectsOK, SealsOK
<1>2. UNCHANGED <<setup, queue>>
  BY DEF Derive
<1>3. CASE setup.mode = "whole"
  <2> DEFINE w == [m EXCEPT !.data = Len(heap) + 1]
  <2>1. heap' = Append(heap, content) /\ messages' = Append(messages, w)
    BY <1>3 DEF Derive
  <2>2. w \in Message /\ w.data = Len(heap) + 1 /\ SameSeal(w, messages[i])
    <3>1. Len(heap) + 1 \in Nat
      BY <1>1
    <3> QED BY <3>1 DEF Message, SameSeal, SamePlace
  <2> HIDE DEF w
  <2>3. /\ \A k \in 1 .. Len(heap) : heap'[k] = heap[k]
        /\ heap'[Len(heap) + 1] = content
    BY <2>1, OneMore DEF MessagesInv, ObjectsOK
  <2>4. \A k \in 1 .. Len(heap) : Alike(heap[k], heap'[k])
    BY <2>3, AlikeItself
  <2>5. SealKnown(w, heap'[w.data])
    BY <1>1, <1>2, <2>2, <2>3, SealCarries
  <2> QED BY <1>2, <2>1, <2>2, <2>4, <2>5, SealsGrow DEF MessagesInv
<1>4. CASE setup.mode # "whole"
  <2>1. heap' = [heap EXCEPT ![m.data] = content] /\ messages' = Append(messages, m)
    BY <1>4 DEF Derive, Put
  <2>2. \A k \in 1 .. Len(heap) : heap'[k] = IF k = m.data THEN content ELSE heap[k]
    BY <1>1, <2>1, ExceptSeq DEF MessagesInv, ObjectsOK
  <2>3. \A k \in 1 .. Len(heap) : Alike(heap[k], heap'[k])
    BY <2>2, AlikeItself
  <2>4. SealKnown(m, heap'[m.data])
    BY <1>1, <1>2, <2>2, SealCarries
  <2> QED BY <1>2, <2>1, <2>3, <2>4, SealsGrow DEF MessagesInv
<1> QED BY <1>3, <1>4

(* add(): the job has the message with its seal, or without any.           *)
LEMMA SendSeals ==
  ASSUME MessagesInv, SealsOK, NEW i \in 1 .. Len(messages), NEW repeat \in BOOLEAN, Send(i, repeat)
  PROVE  SealsOK'
<1> DEFINE m == IF repeat THEN [messages[i] EXCEPT !.key = <<>>, !.sealedWith = <<>>]
                ELSE messages[i]
           c == heap[messages[i].data]
           job == [message |-> m, content |-> c]
<1>1. /\ messages' = [messages EXCEPT ![i] = m] /\ UNCHANGED <<setup, heap>>
      /\ messages[i] \in Message
  BY ElementOfSeq DEF Send, MessagesInv, ObjectsOK
<1>2. m.data = messages[i].data /\ (m.sealedWith # <<>> => m = messages[i])
  BY <1>1 DEF Message
<1>3. queue' = queue \cup {job}
  BY <1>2 DEF Send
<1>4. SealKnown(m, c)
  BY <1>2 DEF SealsOK, SealKnown
<1>5. job.message = m /\ job.content = c
  OBVIOUS
<1> HIDE DEF m, c, job
<1>7. \A j \in queue' : SealKnown(j.message, j.content)
  BY <1>3, <1>4, <1>5 DEF SealsOK
<1>8. Len(messages') = Len(messages)
      /\ \A k \in 1 .. Len(messages) : messages'[k] = IF k = i THEN m ELSE messages[k]
  BY <1>1 DEF MessagesInv, ObjectsOK
<1>9. ASSUME NEW k \in 1 .. Len(messages') PROVE SealKnown(messages'[k], heap'[messages'[k].data])
  <2>1. CASE k = i
    <3>1. messages'[k] = m /\ heap'[messages'[k].data] = c
      BY <1>1, <1>2, <1>8, <2>1 DEF c
    <3> QED BY <1>4, <3>1
  <2>2. CASE k # i
    <3>1. messages'[k] = messages[k] /\ heap' = heap /\ k \in 1 .. Len(messages)
      BY <1>1, <1>8, <2>2
    <3>2. SealKnown(messages[k], heap[messages[k].data])
      BY <3>1 DEF SealsOK
    <3> QED BY <3>1, <3>2
  <2> QED BY <2>1, <2>2
<1> QED BY <1>1, <1>7, <1>9, SealsThen

LEMMA SealsStep == MessagesInv /\ VaultInv /\ SealsOK /\ [Next]_vars => SealsOK'
<1> SUFFICES ASSUME MessagesInv, VaultInv, SealsOK, [Next]_vars PROVE SealsOK'
  OBVIOUS
<1>1. ASSUME UNCHANGED <<setup, heap, messages, queue>> PROVE SealsOK'
  BY <1>1, SealsUnchanged DEF MessagesInv
<1>2. ASSUME NEW v \in VaultIds, NEW t \in Tenants, NEW e \in Entities, NEW y \in EntityTypes,
             CreateVault(v, t, e, y)
      PROVE  SealsOK'
  BY <1>1, <1>2 DEF CreateVault
<1>3. ASSUME NEW t \in Tenants, NEW e \in Entities, NEW y, DestroyVaultKeysByEntityId(t, e, y)
      PROVE  SealsOK'
  BY <1>1, <1>3 DEF DestroyVaultKeysByEntityId
<1>4. ASSUME NEW t \in Tenants, With(t) PROVE SealsOK'
  BY <1>1, <1>4 DEF With
<1>5. ASSUME NEW v \in VaultIds, WithEncryption(v) PROVE SealsOK'
  BY <1>1, <1>5 DEF WithEncryption
<1>6. ASSUME NEW e, NEW y, WithEncryptionOf(e, y) PROVE SealsOK'
  BY <1>1, <1>6 DEF WithEncryptionOf
<1>7. ASSUME NEW encrypt \in BOOLEAN, NEW seal \in BOOLEAN, Build(encrypt, seal) PROVE SealsOK'
  BY <1>7, BuildStep, BuildSeals
<1>8. ASSUME NEW i \in 1 .. Len(messages), CorrelateWith(i) PROVE SealsOK'
  BY <1>1, <1>8 DEF CorrelateWith
<1>9. ASSUME NEW i \in 1 .. Len(messages), Seal(i) PROVE SealsOK'
  BY <1>9, SealSeals
<1>10. ASSUME NEW i \in 1 .. Len(messages)
       PROVE  messages[i] \in Message /\ heap[messages[i].data] \in Content
  BY ElementOfSeq DEF MessagesInv, ObjectsOK
<1>11. ASSUME NEW i \in 1 .. Len(messages), Decrypt(i) PROVE SealsOK'
  <2> DEFINE content == DecryptContent(heap[messages[i].data])
             m == [messages[i] EXCEPT !.vault = None, !.built = FALSE]
  <2>1. messages[i].vault \in VaultIds
    BY <1>10, <1>11 DEF Decrypt, Message
  <2>2. content \in Content /\ Alike(heap[messages[i].data], content)
    BY <1>10, <2>1, ContentTypes, AlikeEncrypted
  <2>3. m \in Message /\ m.data = messages[i].data /\ SameSeal(m, messages[i])
    BY <1>10 DEF Message, SameSeal, SamePlace
  <2>4. Derive(i, content, m)
    BY <1>11 DEF Decrypt
  <2> HIDE DEF content, m
  <2> QED BY <2>2, <2>3, <2>4, DeriveSeals
<1>12. ASSUME NEW i \in 1 .. Len(messages), NEW v \in VaultIds, Encrypt(i, v) PROVE SealsOK'
  <2> DEFINE content == EncryptContent(heap[messages[i].data], v)
             m == [messages[i] EXCEPT !.vault = v, !.built = FALSE]
  <2>1. content \in Content /\ Alike(heap[messages[i].data], content)
    BY <1>10, ContentTypes, AlikeEncrypted
  <2>2. m \in Message /\ m.data = messages[i].data /\ SameSeal(m, messages[i])
    BY <1>10 DEF Message, SameSeal, SamePlace
  <2>3. Derive(i, content, m)
    BY <1>12 DEF Encrypt
  <2> HIDE DEF content, m
  <2> QED BY <2>1, <2>2, <2>3, DeriveSeals
<1>13. ASSUME NEW i \in 1 .. Len(messages), NEW repeat \in BOOLEAN, Send(i, repeat) PROVE SealsOK'
  BY <1>13, SendSeals
<1>14. CASE UNCHANGED vars
  BY <1>1, <1>14 DEF vars
<1> QED BY <1>2, <1>3, <1>4, <1>5, <1>6, <1>7, <1>8, <1>9, <1>11, <1>12, <1>13, <1>14 DEF Next

(* A message with the seal of build() verifies at its consumer exactly     *)
(* when it is encrypted as it was sealed: whatever is done with its        *)
(* builder, with the data it was built from or with other messages, unless *)
(* a copy was encrypted or decrypted in place and not turned back.         *)
THEOREM SealedVerify == Spec => []SealedMessagesVerify
<1>1. Init => SealsOK
  <2> SUFFICES ASSUME Init PROVE messages = <<>> /\ queue = {}
    BY DEF SealsOK
  <2> QED BY DEF Init
<1>2. ASSUME MessagesInv, SealsOK PROVE SealedMessagesVerify
  <2> SUFFICES ASSUME NEW job \in queue, job.message.sealedWith # <<>>
               PROVE  Verifies(job) <=> AsSealed(job)
    BY DEF SealedMessagesVerify
  <2> DEFINE m == job.message
             c == job.content
             v == job.message.sealedWith[1]
  <2>1. PICK s \in Content : /\ m.key = <<HashWith(m, v, s)>>
                             /\ EncryptedUnder(s, v)
                             /\ Alike(s, c)
    BY <1>2 DEF SealsOK, SealKnown
  <2>2. c \in Content
    BY <1>2 DEF MessagesInv, ObjectsOK
  <2> HIDE DEF m, c, v
  <2>3. Verifies(job) <=> m.vault = v /\ c = s
    <3>1. Verifies(job) <=> HashWith(m, v, s) = Hashed(m, c)
      BY <2>1 DEF Verifies, m, c
    <3>2. HashWith(m, v, s) = Hashed(m, c) <=> v = m.vault /\ s = c
      BY DEF HashWith, Hashed
    <3> QED BY <3>1, <3>2
  <2>4. EncryptedUnder(c, v) => c = s
    <3> SUFFICES ASSUME EncryptedUnder(c, v) PROVE c = s
      OBVIOUS
    <3>1. c.whole = s.whole
      BY <2>1 DEF EncryptedUnder, Alike
    <3>2. ASSUME NEW f \in Fields PROVE c.field[f] = s.field[f]
      <4>1. c.field[f] \in [set : BOOLEAN, keys : Keys] /\ s.field[f] \in [set : BOOLEAN, keys : Keys]
        BY <2>2 DEF Content
      <4>2. c.field[f].set = s.field[f].set /\ c.field[f].keys = s.field[f].keys
        BY <2>1 DEF EncryptedUnder, Alike
      <4> QED BY <4>1, <4>2
    <3>3. c.field = s.field
      BY <2>2, <3>2 DEF Content
    <3> QED BY <2>2, <3>1, <3>3 DEF Content
  <2>5. AsSealed(job) <=> m.vault = v /\ EncryptedUnder(c, v)
    BY DEF AsSealed, m, c, v
  <2> QED BY <2>1, <2>3, <2>4, <2>5
<1>3. MessagesInv /\ VaultInv /\ SealsOK /\ [Next]_vars => SealsOK'
  BY SealsStep
<1> QED BY <1>1, <1>2, <1>3, AlwaysMessagesInv, PTL DEF Spec

-----------------------------------------------------------------------------
(* What build() encrypted is encrypted once, under the key it names: with  *)
(* that key its consumer gets the clear data.                              *)
THEOREM EncryptedReadable == Spec => []EncryptedIsReadable
<1>1. MessagesInv => EncryptedIsReadable
  <2> SUFFICES ASSUME MessagesInv, NEW job \in queue, NEW m, m = job.message,
                      AsBuilt(job), m.vault # None, FindVaultKeyById(m.tenant, m.vault)
               PROVE  Readable(job) /\ Clear(DecryptContent(job.content))
    BY DEF EncryptedIsReadable
  <2>1. heap[CallersData] \in Content /\ Clear(heap[CallersData])
    BY ElementOfSeq, LenProperties DEF MessagesInv, ObjectsOK, ContentOK, CallersData
  <2>2. m.vault \in VaultIds
    BY DEF MessagesInv, ObjectsOK, Message
  <2>3. job.content = EncryptContent(heap[CallersData], m.vault)
    BY DEF MessagesInv, ContentOK, AsItWasBuilt
  <2> QED BY <2>1, <2>2, <2>3, EncryptedOnce DEF Readable
<1> QED BY <1>1, AlwaysMessagesInv, PTL

(* However long a chain of correlated messages is, each of them, and the   *)
(* next one, carries the id of the message that began it.                  *)
THEOREM ChainsTraced == Spec => []TraceStartsTheChain
<1>1. MessagesInv => TraceStartsTheChain
  BY DEF MessagesInv, ChainOK
<1> QED BY <1>1, AlwaysMessagesInv, PTL
=============================================================================
