---------------------------- MODULE MessageTypes ----------------------------
(***************************************************************************)
(* The messages and components commands of the domain tool: what is        *)
(* declared in the TypeScript sources becomes JSON schemas, a module of    *)
(* types, or one document of OpenAPI components (message_types/command.ts  *)
(* and generator).                                                         *)
(*                                                                         *)
(* A name is the sequence of its parts, <<"I", "Order", "Event">>: what    *)
(* the tool looks at are its first letter and its ending.  A schema's      *)
(* content is known by the declaration it comes from.                      *)
(***************************************************************************)
EXTENDS Naturals, Sequences, FiniteSets, SequencesExt, Filtering

CONSTANTS
  Sources,   \* what there may be to parse: sequences of declarations, by file
  Defects    \* BOUND: how many declarations and files may be at fault

ASSUME SourcesAssumption == \A list \in Sources : list \in Seq(ToSet(list))

VARIABLES
  sources, \* the declarations parsed
  faulty,  \* the declarations no schema or definition can be made of
  broken,  \* the files that cannot be written or read
  mode,    \* "messages", "components", or "none" before
  pending, \* the declarations still to be made a schema of
  schemas, \* the schemas so far: <<group, key, declaration>>
  files,   \* the files written: name |-> content
  step     \* how far the command is

typesVars == <<sources, faulty, broken, mode, pending, schemas, files, step>>

TypesInit ==
  /\ sources = <<>> /\ pending = <<>> /\ schemas = <<>>
  /\ faulty = {} /\ broken = {}
  /\ mode = "none" /\ step = "idle"
  /\ files = <<>>

-----------------------------------------------------------------------------
(* Find: what is asked for, in this order.  No one asks for the interfaces *)
(* of queries and of plain messages, and they are no models.               *)
Ending == [commands |-> "Command", events |-> "Event", tasks |-> "Task"]
Endings == {"Message", "Command", "Event", "Query", "Task"}
Finds(group, d) ==
  CASE group \in DOMAIN Ending -> d.kind = "interface" /\ Last(d.name) = Ending[group]
    [] group = "models"        -> d.kind = "interface" /\ Last(d.name) \notin Endings
    [] group = "aliases"       -> d.kind = "alias" /\ Last(d.name) \notin Endings
Found(group, list) ==
  LET found == Picked(list, {i \in DOMAIN list : Finds(group, list[i])})
  IN  [i \in DOMAIN found |-> <<group, found[i]>>]
AllFound(list) ==
  Found("commands", list) \o Found("events", list) \o Found("tasks", list)
    \o Found("models", list) \o Found("aliases", list)

(* substring(1, 1) is empty and equals itself in upper case: the I of any  *)
(* name that starts with one is taken off, that of a word included.        *)
SchemaName(d) == IF Head(d.name) = "I" THEN Tail(d.name) ELSE d.name

(* generate: every group's declarations in the order of the files.         *)
Start(list, bad, missing, as) ==
  /\ step = "idle"
  /\ sources' = list
  /\ faulty' = bad
  /\ broken' = missing
  /\ mode' = as
  /\ pending' = AllFound(list)
  /\ step' = "schemas"
  /\ UNCHANGED <<schemas, files>>

(* generateJsonSchema: one that cannot be made is logged and left out.     *)
GenerateJsonSchema ==
  /\ step = "schemas" /\ pending # <<>>
  /\ LET group == Head(pending)[1]
         d == Head(pending)[2]
     IN  schemas' = IF d.name \in faulty THEN schemas
                    ELSE Append(schemas, <<group, SchemaName(d), d>>)
  /\ pending' = Tail(pending)
  /\ UNCHANGED <<sources, faulty, broken, mode, files, step>>

SchemaKeys == {schemas[i][2] : i \in DOMAIN schemas}
LastOf(key) == CHOOSE i \in DOMAIN schemas :
  schemas[i][2] = key /\ \A j \in DOMAIN schemas : schemas[j][2] = key => j <= i

(* A file is a folder and a name in it.                                    *)
BaseFile == <<"base", <<>>>>
Output == <<"output", <<>>>>

(* exportOpenApiComponents, of which generate does not wait for the end: a *)
(* base file that cannot be read, or a file that cannot be written, is an  *)
(* unhandled rejection, after the command has reported its output.         *)
ExportComponents(base) ==
  /\ step = "schemas" /\ pending = <<>> /\ mode = "components"
  /\ IF (BaseFile \in broken /\ base # {}) \/ Output \in broken
     THEN step' = "crashed" /\ UNCHANGED files
     ELSE /\ step' = "done"
          /\ files' = [f \in {Output} |->
               [key \in SchemaKeys \cup base |-> IF key \in SchemaKeys THEN schemas[LastOf(key)][3]
                                                       ELSE [kind |-> "base", name |-> key]]]
  /\ UNCHANGED <<sources, faulty, broken, mode, pending, schemas>>

(* generateTypes: the definitions are read first; one without an object    *)
(* literal throws.  The schemas of the messages are embedded in the file.  *)
Definitions == {d \in ToSet(sources) : d.kind = "variable" /\ Last(d.name) = "Definition"}
Embedded == Picked(schemas, {i \in DOMAIN schemas : schemas[i][1] \in DOMAIN Ending})
\* Mutant: the file is written template by template.
WriteTypesFirst ==
  /\ step = "schemas" /\ pending = <<>> /\ mode = "messages"
  /\ IF Output \in broken
     THEN step' = "failed" /\ UNCHANGED files
     ELSE /\ step' = IF \E d \in Definitions : d.name \in faulty THEN "failed" ELSE "export"
          /\ files' = [f \in {Output} |-> Embedded]
  /\ UNCHANGED <<sources, faulty, broken, mode, pending, schemas>>
GenerateTypes ==
  /\ step = "schemas" /\ pending = <<>> /\ mode = "messages"
  /\ IF Output \in broken \/ \E d \in Definitions : d.name \in faulty
     THEN step' = "failed" /\ UNCHANGED files
     ELSE step' = "export" /\ files' = [f \in {Output} |-> Embedded]
  /\ UNCHANGED <<sources, faulty, broken, mode, pending, schemas>>

(* exportJsonSchemas: a schema's file is its folder and its key; aliases   *)
(* share the models' folder.  One that cannot be written is logged.        *)
FileOf(s) == <<IF s[1] = "aliases" THEN "models" ELSE s[1], s[2]>>
SchemaFiles ==
  [f \in {FileOf(schemas[i]) : i \in DOMAIN schemas} \ broken |->
     schemas[CHOOSE i \in DOMAIN schemas :
       /\ FileOf(schemas[i]) = f
       /\ \A j \in DOMAIN schemas : FileOf(schemas[j]) = f => j <= i][3]]
ExportJsonSchemas ==
  /\ step = "export"
  /\ step' = "done"
  /\ files' = [f \in DOMAIN files \cup DOMAIN SchemaFiles |->
                 IF f \in DOMAIN SchemaFiles THEN SchemaFiles[f] ELSE files[f]]
  /\ UNCHANGED <<sources, faulty, broken, mode, pending, schemas>>

Places(list) ==
  {BaseFile, Output} \cup {<<"models", SchemaName(list[i])>> : i \in DOMAIN list}
                     \cup {<<"events", SchemaName(list[i])>> : i \in DOMAIN list}

TypesNext ==
  \/ /\ step = "idle"
     /\ \E list \in Sources, as \in {"messages", "components"} :
          \E bad \in SUBSET {list[i].name : i \in DOMAIN list}, missing \in SUBSET Places(list) :
            Cardinality(bad) + Cardinality(missing) <= Defects /\ Start(list, bad, missing, as)
  \/ GenerateJsonSchema
  \/ \E base \in {{}, {<<"Error">>, <<"Order">>}} : ExportComponents(base)
  \/ GenerateTypes \/ ExportJsonSchemas

-----------------------------------------------------------------------------
(* What a schema is wanted for, whatever order the files are in.           *)
Wanted == {d \in ToSet(sources) : \E group \in DOMAIN Ending \cup {"models", "aliases"} : Finds(group, d)}
MessageNames == {d \in Wanted : d.kind = "interface" /\ Last(d.name) \in {"Command", "Event", "Task"}}

(* A command that fails leaves nothing behind, neither a types module that *)
(* lacks a definition nor schemas without their module; and one that ends  *)
(* well has the schema of every message in the module, and under the same  *)
(* name in its folder, the one that comes last among those that share it.  *)
ModuleAndSchemasAgree ==
  /\ step \in {"failed", "crashed"} => files = <<>>
  /\ step = "done" /\ mode = "messages" =>
       LET module == files[Output]
           last(i) == \A j \in DOMAIN module : FileOf(module[j]) = FileOf(module[i]) => j <= i
       IN  /\ \A d \in MessageNames : d.name \notin faulty =>
                \E i \in DOMAIN module : module[i][3] = d
           /\ \A i \in DOMAIN module :
                last(i) /\ FileOf(module[i]) \in DOMAIN files =>
                  files[FileOf(module[i])] = module[i][3]
=============================================================================
