--------------------------- MODULE PrismaTypeorm ---------------------------
(***************************************************************************)
(* The prisma-typeorm generator: a TypeORM entity or view for each model   *)
(* of a Prisma schema, with the relations between them, an enum for each   *)
(* Prisma enum, and an index of the models' files (index.ts, templates).   *)
(*                                                                         *)
(* A field's relation is {} or {its relation's name}; joins tells whether  *)
(* the field's side holds the foreign key.                                 *)
(***************************************************************************)
EXTENDS Naturals, Sequences, FiniteSets

CONSTANT DataModels \* the schemas: [models |-> sequence of models, enums |-> set of names]

FieldsIn(model) == {model.fields[i] : i \in DOMAIN model.fields}
FieldType ==
  [name : STRING, type : STRING, kind : {"scalar", "enum", "object"}, list : BOOLEAN, id : BOOLEAN,
   relation : SUBSET STRING, joins : BOOLEAN]
ModelType == [name : STRING, view : BOOLEAN, key : SUBSET STRING, fields : Seq(FieldType)]

(* What Prisma sees to: models have names of their own; a field of an enum *)
(* is of one there is; a field of a model is of a relation, is no key, and *)
(* has one field on the other side, of which one at most joins.            *)
Opposites(a, f, b) == {j \in DOMAIN b.fields : b.fields[j].type = a.name /\ b.fields[j].relation = f.relation}
ASSUME PrismaAssumption ==
  \A schema \in DataModels :
    LET models == {schema.models[i] : i \in DOMAIN schema.models} IN
    /\ schema.models \in Seq(ModelType)
    /\ \A i, j \in DOMAIN schema.models : schema.models[i].name = schema.models[j].name => i = j
    /\ \A a \in models : \A f \in FieldsIn(a) :
         /\ f.kind = "enum" => f.type \in schema.enums
         /\ f.relation # {} <=> \E b \in models : b.name = f.type
         /\ f.relation # {} => ~ f.id /\ f.name \notin a.key \cup {"updatedAt", "createdAt"}
         /\ \A b \in models : b.name = f.type /\ b # a =>
              \E j \in Opposites(a, f, b) :
                Opposites(a, f, b) = {j} /\ ~ (f.joins /\ b.fields[j].joins)

VARIABLES
  datamodel,   \* Prisma's description of the schema
  unwritable,  \* the files that cannot be rendered or written
  entityDefs,  \* the definitions built so far, by model
  disk,        \* the files written
  fileExports, \* the models the index will export
  phase        \* "idle", "enums", "defs", "files", "done" or "failed"

prismaVars == <<datamodel, unwritable, entityDefs, disk, fileExports, phase>>

NoModel == [models |-> <<>>, enums |-> {}]

PrismaInit ==
  /\ datamodel = NoModel
  /\ unwritable = {}
  /\ entityDefs = <<>>
  /\ disk = {}
  /\ fileExports = <<>>
  /\ phase = "idle"

-----------------------------------------------------------------------------
ModelNames == {datamodel.models[i].name : i \in DOMAIN datamodel.models}
ModelNamed(name) == CHOOSE m \in {datamodel.models[i] : i \in DOMAIN datamodel.models} : m.name = name
Views == {m \in ModelNames : ModelNamed(m).view}

FileOfModel(model) == <<model, IF model \in Views THEN "view" ELSE "entity">>
EnumFile(enum) == <<enum, "enum">>

(* The field of the other model that links back: the first whose type is   *)
(* this model, of whichever relation.                                      *)
Target(other, name) ==
  LET back == {i \in DOMAIN other.fields : other.fields[i].type = name}
  IN  IF back = {} THEN {} ELSE {other.fields[CHOOSE i \in back : \A j \in back : i <= j]}

(* How a relation is classified, and the entry that is made for it.        *)
\* Mutant: a list makes a relation one-to-many whatever it leads back to.
KindByList(field, target) ==
  IF field.list THEN "oneToMany" ELSE IF target.list THEN "manyToOne" ELSE "oneToOne"
KindOf(field, target) ==
  IF field.list THEN IF target.list THEN "manyToMany" ELSE "oneToMany"
                ELSE IF target.list THEN "manyToOne" ELSE "oneToOne"
Relationship(model, field) ==
  UNION {IF field.type = model.name /\ field.list
         THEN {[in |-> "oneToMany", field |-> field.name, entity |-> model.name,
                target |-> CHOOSE r \in field.relation : TRUE, joins |-> FALSE]}
         ELSE {[in |-> KindOf(field, t), field |-> field.name, entity |-> field.type,
                target |-> t.name, joins |-> field.joins]}
           : t \in Target(ModelNamed(field.type), model.name)}

(* A relation between a view and an entity is left out.                    *)
Crosses(model, field) == (model.name \in Views) # (field.type \in Views)

(* buildEntityDef: timestamps come before keys, keys before relations.     *)
InList(model, field) ==
  CASE field.name \in {"updatedAt", "createdAt"} -> field.name
    [] field.id \/ field.name \in model.key      -> "primary"
    [] field.relation # {}                       -> "relation"
    [] OTHER                                     -> "columns"
ColumnEntry(model, field) ==
  [in |-> InList(model, field), field |-> field.name, entity |-> field.type,
   target |-> "", joins |-> FALSE]
Entries(model) ==
  UNION {IF InList(model, f) # "relation" THEN {ColumnEntry(model, f)}
         ELSE IF Crosses(model, f) THEN {} ELSE Relationship(model, f)
           : f \in FieldsIn(model)}
\* Mutant: what a model imports is an entity.
EntityImports(model) ==
  {EnumFile(f.type) : f \in {g \in FieldsIn(model) : g.kind = "enum"}}
    \cup {<<f.type, "entity">> : f \in {g \in FieldsIn(model) :
            InList(model, g) = "relation" /\ ~ Crosses(model, g) /\ g.type # model.name}}
Imports(model) ==
  {EnumFile(f.type) : f \in {g \in FieldsIn(model) : g.kind = "enum"}}
    \cup {FileOfModel(f.type) : f \in {g \in FieldsIn(model) :
            InList(model, g) = "relation" /\ ~ Crosses(model, g) /\ g.type # model.name}}

-----------------------------------------------------------------------------
OnGenerate(schema, bad) ==
  /\ phase = "idle"
  /\ datamodel' = schema
  /\ unwritable' = bad
  /\ phase' = "enums"
  /\ UNCHANGED <<entityDefs, disk, fileExports>>

(* The enums' files come first; one that cannot be written ends the run.   *)
WriteEnum(enum) ==
  /\ phase = "enums"
  /\ enum \in datamodel.enums /\ EnumFile(enum) \notin disk
  /\ IF EnumFile(enum) \in unwritable
     THEN phase' = "failed" /\ UNCHANGED disk
     ELSE disk' = disk \cup {EnumFile(enum)} /\ UNCHANGED phase
  /\ UNCHANGED <<datamodel, unwritable, entityDefs, fileExports>>

EnumsWritten ==
  /\ phase = "enums"
  /\ \A enum \in datamodel.enums : EnumFile(enum) \in disk
  /\ phase' = IF datamodel.models = <<>> THEN "files" ELSE "defs"
  /\ UNCHANGED <<datamodel, unwritable, entityDefs, disk, fileExports>>

BuildEntityDef ==
  /\ phase = "defs"
  /\ Len(entityDefs) < Len(datamodel.models)
  /\ LET model == datamodel.models[Len(entityDefs) + 1] IN
       entityDefs' = Append(entityDefs,
         [name |-> model.name, entries |-> Entries(model), imports |-> Imports(model)])
  /\ phase' = IF Len(entityDefs') = Len(datamodel.models) THEN "files" ELSE phase
  /\ UNCHANGED <<datamodel, unwritable, disk, fileExports>>

(* generateEntity and generateView catch what goes wrong, so a file that   *)
(* is not written is exported all the same.                                *)
GenerateClasses ==
  /\ phase = "files"
  /\ Len(fileExports) < Len(datamodel.models)
  /\ LET name == datamodel.models[Len(fileExports) + 1].name IN
       /\ disk' = IF FileOfModel(name) \in unwritable THEN disk ELSE disk \cup {FileOfModel(name)}
       /\ fileExports' = Append(fileExports, FileOfModel(name))
  /\ UNCHANGED <<datamodel, unwritable, entityDefs, phase>>

GenerateIndex ==
  /\ phase = "files"
  /\ Len(fileExports) = Len(datamodel.models)
  /\ disk' = disk \cup ({<<"index", "index">>} \ unwritable)
  /\ phase' = "done"
  /\ UNCHANGED <<datamodel, unwritable, entityDefs, fileExports>>

PrismaNext ==
  \/ \E schema \in DataModels :
       \E bad \in SUBSET ({<<schema.models[i].name, IF schema.models[i].view THEN "view" ELSE "entity">>
                             : i \in DOMAIN schema.models}
                          \cup {EnumFile(e) : e \in schema.enums} \cup {<<"index", "index">>}) :
         Cardinality(bad) <= 1 /\ OnGenerate(schema, bad)
  \/ \E enum \in datamodel.enums : WriteEnum(enum)
  \/ EnumsWritten \/ BuildEntityDef \/ GenerateClasses \/ GenerateIndex

-----------------------------------------------------------------------------
DefOf(name) == CHOOSE d \in {entityDefs[i] : i \in DOMAIN entityDefs} : d.name = name
Dual == [oneToOne |-> "oneToOne", oneToMany |-> "manyToOne", manyToOne |-> "oneToMany",
         manyToMany |-> "manyToMany"]
OneRelation(a, b) ==
  \A f, g \in {h \in FieldsIn(ModelNamed(a)) : h.type = b} : f.relation = g.relation

(* The two sides of a relation are read from two models, one at a time:    *)
(* where a single relation joins two models, and both are entities or both *)
(* are views, each side leads to the other with the dual kind, and at most *)
(* one of the two joins the column.                                        *)
RelationsPair ==
  phase = "done" =>
    \A d \in {entityDefs[i] : i \in DOMAIN entityDefs} :
      \A e \in {x \in d.entries : x.in \in DOMAIN Dual /\ x.entity # d.name} :
        OneRelation(d.name, e.entity) =>
          \E back \in DefOf(e.entity).entries :
            /\ back.entity = d.name /\ back.field = e.target /\ back.target = e.field
            /\ back.in = Dual[e.in]
            /\ ~ (back.joins /\ e.joins)

(* What a generated file imports has been generated too, as what it is     *)
(* imported as, unless it could not be written.                            *)
ImportsResolve ==
  phase = "done" =>
    \A d \in {entityDefs[i] : i \in DOMAIN entityDefs} :
      FileOfModel(d.name) \in disk => d.imports \subseteq disk \cup unwritable

=============================================================================
