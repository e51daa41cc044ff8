------------------------------ MODULE OpenApi ------------------------------
(***************************************************************************)
(* The openapi commands of the domain tool: several OpenAPI documents are  *)
(* merged (merge.ts), the components nothing refers to are taken out       *)
(* (tree-shake.ts), and the result is written as a document, rendered as a *)
(* module, or turned into an Istio policy (command.ts, generate.ts).       *)
(*                                                                         *)
(* Of an operation the model keeps what it refers to and the security it   *)
(* declares; of a component, what it refers to and the document it comes   *)
(* from.  A reference is the group and the name of a component.  A path is *)
(* a sequence of segments.                                                 *)
(***************************************************************************)
EXTENDS Naturals, Sequences, FiniteSets

CONSTANTS
  Documents,  \* the parsed documents there are
  Shared,     \* the component files there are
  PrefixNames    \* what --prefix-names may name

(* A document has all its parts, and strings for its name and its paths'   *)
(* segments.                                                               *)
ASSUME DocumentsAssumption ==
  /\ \A d \in Documents :
       /\ DOMAIN d = {"name", "security", "paths", "components"}
       /\ d.name \in STRING
       /\ DOMAIN d.paths \subseteq Seq(STRING)
  /\ PrefixNames \subseteq STRING

(* A document: its file's base name, root security, paths and components.  *)
(* What a document does not have is left out of the functions' domains; an *)
(* operation's security is {} when absent and {s} when it is the set s.    *)
SchemasOf(d) == IF "schemas" \in DOMAIN d.components THEN d.components["schemas"] ELSE <<>>
SchemeNames(security) == UNION security
Has(components, r) == r[1] \in DOMAIN components /\ r[2] \in DOMAIN components[r[1]]
Named(g, refs) == {r[2] : r \in {x \in refs : x[1] = g}}
References(d) ==
  LET ofOperations == UNION {UNION {d.paths[p][m].refs : m \in DOMAIN d.paths[p]} : p \in DOMAIN d.paths}
      ofComponents == UNION {UNION {d.components[g][n].refs : n \in DOMAIN d.components[g]}
                               : g \in DOMAIN d.components}
  IN  ofOperations \cup ofComponents

VARIABLES
  command,   \* the command and its arguments, {} before it starts
  document,  \* the document in the making
  stage,     \* how far the command has come
  todo       \* what the stage has left to merge

apiVars == <<command, document, stage, todo>>

Blank == [name |-> "", security |-> {}, paths |-> <<>>, components |-> <<>>]

ApiInit ==
  /\ command = {}
  /\ document = Blank
  /\ stage = "idle"
  /\ todo = <<>>

TheCommand == CHOOSE c \in command : TRUE

-----------------------------------------------------------------------------
(* An object that g is spread into first and then f.                       *)
Over(f, g) == [x \in DOMAIN f \cup DOMAIN g |-> IF x \in DOMAIN f THEN f[x] ELSE g[x]]

(* mergeOpenApiSchemas: the first document gives the metadata.             *)
Merge(documents, components, mode, names, shakes) ==
  /\ stage = "idle"
  /\ command' = {[name |-> "merge", documents |-> documents, components |-> components,
                  mode |-> mode, names |-> names, shakes |-> shakes]}
  /\ document' = [Blank EXCEPT !.security = documents[1].security,
                               !.components = [g \in {"schemas"} |-> <<>>]]
  /\ stage' = "components"
  /\ todo' = components

(* The schema, client, nestjs and istio commands: one document.            *)
Generate(kind, d, components) ==
  /\ stage = "idle"
  /\ command' = {[name |-> kind, documents |-> <<d>>, components |-> components,
                  mode |-> "none", names |-> <<>>, shakes |-> TRUE]}
  /\ document' = d
  /\ stage' = "components"
  /\ todo' = components

(* mergeComponents: group by group; the document's own wins over the file. *)
MergedGroups(d, file) ==
  LET groups == {g \in DOMAIN d.components \cup DOMAIN file :
                   \E f \in {d.components, file} : g \in DOMAIN f /\ f[g] # <<>>}
      group(f, g) == IF g \in DOMAIN f THEN f[g] ELSE <<>>
  IN  [g \in groups |-> Over(group(d.components, g), group(file, g))]

MergeComponents ==
  /\ stage = "components"
  /\ todo # <<>>
  /\ document' = [document EXCEPT !.components = MergedGroups(document, Head(todo))]
  /\ todo' = Tail(todo)
  /\ UNCHANGED <<command, stage>>

(* Every group the first document has replaces the one gathered so far.    *)
MergeFirstComponents ==
  /\ stage = "components"
  /\ todo = <<>>
  /\ IF TheCommand.name = "merge"
     THEN /\ document' = [document EXCEPT !.components = Over(TheCommand.documents[1].components, @)]
          /\ todo' = TheCommand.documents
          /\ stage' = "paths"
     ELSE /\ UNCHANGED <<document, todo>>
          /\ stage' = "shake"
  /\ UNCHANGED command

Index == Len(TheCommand.documents) - Len(todo) + 1
PrefixOf(c, i) ==
  CASE c.mode = "filename" -> <<c.documents[i].name>>
    [] c.mode = "custom"   -> <<c.names[i]>>
    [] OTHER               -> <<>>
Prefixed(prefix, paths) ==
  [q \in {prefix \o p : p \in DOMAIN paths} |->
     paths[SubSeq(q, Len(prefix) + 1, Len(q))]]

(* The reduce over the documents: of two of one name the later stays.      *)
\* Mutant: the accumulator is spread last.
SchemasMerged(d, next) == Over(SchemasOf(d), SchemasOf(next))
MergedSchemas(d, next) == Over(SchemasOf(next), SchemasOf(d))
MergeDocument ==
  /\ stage = "paths"
  /\ todo # <<>>
  /\ ~ (TheCommand.mode = "custom" /\ Len(TheCommand.names) # Len(TheCommand.documents))
  /\ LET next == Head(todo) IN
       document' = [document EXCEPT
         !.paths = Over(Prefixed(PrefixOf(TheCommand, Index), next.paths), @),
         !.components = Over([g \in {"schemas"} |-> MergedSchemas(document, next)], @)]
  /\ todo' = Tail(todo)
  /\ UNCHANGED <<command, stage>>

(* 'custom' prefixing throws unless there is a name for each document.     *)
Refuse ==
  /\ stage = "paths"
  /\ TheCommand.mode = "custom" /\ Len(TheCommand.names) # Len(TheCommand.documents)
  /\ stage' = "failed"
  /\ UNCHANGED <<command, document, todo>>

EndMerge ==
  /\ stage = "paths"
  /\ todo = <<>>
  /\ stage' = IF TheCommand.shakes THEN "shake" ELSE "write"
  /\ UNCHANGED <<command, document, todo>>

(* treeShakeSchema: a schema stays while anything in the document, be it a *)
(* schema that goes, refers to it; a scheme, while the root or an          *)
(* operation names it.                                                     *)
UsedSchemes(d) ==
  LET ofOperations == UNION {UNION {SchemeNames(d.paths[p][m].security) : m \in DOMAIN d.paths[p]}
                               : p \in DOMAIN d.paths}
  IN  {<<"securitySchemes", s>> : s \in d.security \cup ofOperations}
Kept(components, g, used) ==
  IF g \in DOMAIN components
  THEN [n \in DOMAIN components[g] \cap Named(g, used) |-> components[g][n]]
  ELSE <<>>
\* Mutant: only what operations refer to stays.
ShakenByPaths(d) ==
  [d EXCEPT !.components =
     [g \in DOMAIN @ |->
        CASE g = "schemas" -> Kept(@, g, References([d EXCEPT !.components = <<>>]))
          [] g = "securitySchemes" -> Kept(@, g, UsedSchemes(d))
          [] OTHER -> @[g]]]
Shaken(d) ==
  [d EXCEPT !.components =
     [g \in DOMAIN @ |->
        CASE g = "schemas" -> Kept(@, g, References(d))
          [] g = "securitySchemes" -> Kept(@, g, UsedSchemes(d))
          [] OTHER -> @[g]]]

TreeShake ==
  /\ stage = "shake"
  /\ document' = Shaken(document)
  /\ stage' = IF TheCommand.name \in {"nestjs", "istio"} THEN "validate" ELSE "write"
  /\ UNCHANGED <<command, todo>>

(* SwaggerParser.validate throws when a reference leads nowhere.           *)
Resolves(d) == \A r \in References(d) : Has(d.components, r)
Validate ==
  /\ stage = "validate"
  /\ stage' = IF Resolves(document) THEN "write" ELSE "failed"
  /\ UNCHANGED <<command, document, todo>>

(* What is written: the document, the module, the policy; or the document  *)
(* and then a client, whose generator (orval) may end the command with the *)
(* document written and no client.                                         *)
Write(names, next) ==
  /\ stage = "write"
  /\ TheCommand.name \in names
  /\ stage' = next
  /\ UNCHANGED <<command, document, todo>>
WriteSchema == Write({"schema", "merge"}, "done")
WriteModule == Write({"nestjs"}, "done")
WritePolicy == Write({"istio"}, "done")
WriteClientApi == Write({"client"}, "client")
GenerateClient ==
  /\ stage = "client"
  /\ stage' \in {"done", "failed"}
  /\ UNCHANGED <<command, document, todo>>

ApiNext ==
  \/ \E ds \in Documents \X Documents, cs \in {<<>>} \cup {<<c>> : c \in Shared},
        mode \in {"filename", "none"}, shakes \in BOOLEAN :
       Merge(ds, cs, mode, <<>>, shakes)
  \/ \E ds \in Documents \X Documents, names \in {<<>>} \cup PrefixNames \X PrefixNames :
       Merge(ds, <<>>, "custom", names, TRUE)
  \/ \E kind \in {"schema", "client", "nestjs", "istio"}, d \in Documents,
        cs \in {<<>>} \cup {<<c>> : c \in Shared} : Generate(kind, d, cs)
  \/ MergeComponents \/ MergeFirstComponents
  \/ MergeDocument \/ Refuse \/ EndMerge
  \/ TreeShake \/ Validate
  \/ WriteSchema \/ WriteModule \/ WritePolicy \/ WriteClientApi \/ GenerateClient

-----------------------------------------------------------------------------
(* What of the inputs is there for a reference r.  A merge keeps all that  *)
(* the first document has, but only the schemas of the later ones          *)
(* (merge.ts:158); and whatever the first document has of a group, though  *)
(* it is nothing, replaces all that the component files have of it         *)
(* (merge.ts:109).  The other commands keep all of both.                   *)
Survives(r) ==
  LET c == TheCommand
      own(i) == Has(c.documents[i].components, r)
      shared == \E i \in DOMAIN c.components : Has(c.components[i], r)
  IN  IF c.name = "merge"
      THEN \/ own(1)
           \/ shared /\ r[1] \notin DOMAIN c.documents[1].components
           \/ r[1] = "schemas" /\ \E i \in DOMAIN c.documents : own(i)
      ELSE own(1) \/ shared

(* What a document refers to.  A security scheme is referred to by its     *)
(* name alone: one that only a reference leads to is shaken out.           *)
Refers(d) == {r \in References(d) : r[1] # "securitySchemes"} \cup UsedSchemes(d)

(* A reference of what is written leads to a component exactly when the    *)
(* merge keeps what it names.  So none dangles but by the two ways in      *)
(* which the code drops what is still referred to (see Survives): the      *)
(* other steps lose nothing, the shaking of what is referred to directly   *)
(* or by another component included, and make up nothing.                  *)
ReferencesLead ==
  stage = "done" => \A r \in Refers(document) : Has(document.components, r) <=> Survives(r)

(* The schemas an operation refers to, directly or through other schemas:  *)
(* what is in every set of schemas that has all that it and they refer to. *)
Meaning(refs, schemas) ==
  LET names == DOMAIN schemas
      among(r) == Named("schemas", r) \cap names
      closed == {S \in SUBSET names : among(refs) \subseteq S /\ \A n \in S : among(schemas[n].refs) \subseteq S}
  IN  [n \in {x \in names : \A S \in closed : x \in S} |-> schemas[n]]
Overtaken(i, path) ==
  \E j \in DOMAIN TheCommand.documents :
    j > i /\ path \in {PrefixOf(TheCommand, j) \o p : p \in DOMAIN TheCommand.documents[j].paths}
LastOfItsName(i, names) ==
  \A j \in DOMAIN TheCommand.documents :
    j > i => names \cap DOMAIN SchemasOf(TheCommand.documents[j]) = {}

(* The schemes that secure an operation: those it declares or, when it     *)
(* declares none, those of the document's root.                            *)
InForce(operation, root) ==
  IF operation.security = {} THEN root ELSE SchemeNames(operation.security)

(* Each document's operations are all in the merged document, under their  *)
(* prefix, unless a later document has that very path.  What secures one   *)
(* that declares no security is the FIRST document's root, whatever its    *)
(* own document's was (merge.ts:86).  It has the same schemas all the way  *)
(* down, unless a later document redefines one of those; and of the        *)
(* schemas of one name, the last document's is there.                      *)
OperationsAreKept ==
  stage = "done" /\ TheCommand.name = "merge" =>
    \A i \in DOMAIN TheCommand.documents :
      LET d == TheCommand.documents[i] IN
        /\ \A n \in DOMAIN SchemasOf(d) \cap DOMAIN SchemasOf(document) :
             LastOfItsName(i, {n}) => SchemasOf(document)[n] = SchemasOf(d)[n]
        /\ \A p \in DOMAIN d.paths : \A m \in DOMAIN d.paths[p] :
             LET meant == Meaning(d.paths[p][m].refs, SchemasOf(d))
                 there == PrefixOf(TheCommand, i) \o p
             IN  Overtaken(i, there) \/
                   /\ there \in DOMAIN document.paths
                   /\ document.paths[there][m] = d.paths[p][m]
                   /\ InForce(document.paths[there][m], document.security)
                        = InForce(d.paths[p][m], TheCommand.documents[1].security)
                   /\ LastOfItsName(i, DOMAIN meant) =>
                        \A n \in DOMAIN meant : n \in DOMAIN SchemasOf(document)
                                                /\ SchemasOf(document)[n] = meant[n]

=============================================================================
