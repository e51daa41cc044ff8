-------------------------- MODULE ToolParts_proofs --------------------------
(* Whatever the schemas, documents, message classes, repositories and calls: *)
(* what the tools write fits together, and the logger reports every error. *)
(* Nothing that a merged document refers to is left out and its operations *)
(* mean what they meant; what an operation selects is there; the entities  *)
(* import what there is and relate in pairs; a module of messages agrees   *)
(* with its schemas; and a diagram shows everything a message brings about. *)
EXTENDS GridParts_proofs, PrismaTypeorm, GraphqlOperations, OpenApi,
        MessageTypes, MessageFlow, Telemetry

-----------------------------------------------------------------------------
(* The entities of a Prisma schema.                                        *)

PrismaSpec == PrismaInit /\ [][PrismaNext]_prismaVars

ModelsOf(schema) == {schema.models[i] : i \in DOMAIN schema.models}
DefinitionOf(model) == [name |-> model.name, entries |-> Entries(model), imports |-> Imports(model)]

(* What is built of a model depends on the schema alone.                   *)
LEMMA SameDefinition ==
  ASSUME UNCHANGED datamodel, NEW model
  PROVE  DefinitionOf(model)' = DefinitionOf(model)
BY DEF DefinitionOf, Entries, Imports, FieldsIn, InList, ColumnEntry, Crosses, Relationship, KindOf,
       Target, Views, ModelNames, ModelNamed, FileOfModel, EnumFile

LEMMA SameFile ==
  ASSUME UNCHANGED datamodel, NEW name
  PROVE  FileOfModel(name)' = FileOfModel(name)
BY DEF Views, ModelNames, ModelNamed, FileOfModel

(* Definitions are built and files exported in the order of the models, up *)
(* to where the loops have come; the enums' files are there before that.   *)
PrismaInv ==
  /\ datamodel.models \in Seq(ModelType)
  /\ phase = "idle" \/ datamodel \in DataModels
  /\ phase \in {"idle", "enums"} => entityDefs = <<>> /\ fileExports = <<>>
  /\ phase \notin {"idle", "enums", "failed"} => \A e \in datamodel.enums : EnumFile(e) \in disk
  /\ entityDefs \in Seq({DefinitionOf(m) : m \in ModelsOf(datamodel)})
  /\ Len(entityDefs) <= Len(datamodel.models)
  /\ \A i \in DOMAIN entityDefs : entityDefs[i] = DefinitionOf(datamodel.models[i])
  /\ fileExports \in Seq({FileOfModel(m.name) : m \in ModelsOf(datamodel)})
  /\ Len(fileExports) <= Len(datamodel.models)
  /\ \A i \in DOMAIN fileExports : FileOfModel(datamodel.models[i].name) \in disk \cup unwritable
  /\ phase \in {"files", "done"} => Len(entityDefs) = Len(datamodel.models)
  /\ phase = "done" => Len(fileExports) = Len(datamodel.models)

LEMMA PrismaStart == PrismaInit => PrismaInv
BY DEF PrismaInit, PrismaInv, NoModel, ModelsOf

(* Neither the schema nor what could not be written changes: all that is   *)
(* read of them is as it was.                                              *)
LEMMA SameSchema ==
  ASSUME UNCHANGED datamodel
  PROVE  /\ {DefinitionOf(m) : m \in ModelsOf(datamodel)}' = {DefinitionOf(m) : m \in ModelsOf(datamodel)}
         /\ {FileOfModel(m.name) : m \in ModelsOf(datamodel)}' = {FileOfModel(m.name) : m \in ModelsOf(datamodel)}
         /\ \A i : DefinitionOf(datamodel.models[i])' = DefinitionOf(datamodel.models[i])
         /\ \A i : FileOfModel(datamodel.models[i].name)' = FileOfModel(datamodel.models[i].name)
<1>1. ModelsOf(datamodel)' = ModelsOf(datamodel)
  BY DEF ModelsOf
<1>2. \A m : DefinitionOf(m)' = DefinitionOf(m)
  BY SameDefinition
<1>3. \A n : FileOfModel(n)' = FileOfModel(n)
  BY SameFile
<1> QED BY <1>1, <1>2, <1>3

LEMMA PrismaStep == PrismaInv /\ [PrismaNext]_prismaVars => PrismaInv'
<1> SUFFICES ASSUME PrismaInv, [PrismaNext]_prismaVars PROVE PrismaInv'
  OBVIOUS
<1>1. ASSUME NEW schema \in DataModels, NEW bad, OnGenerate(schema, bad) PROVE PrismaInv'
  <2>1. schema.models \in Seq(ModelType)
    BY PrismaAssumption
  <2> QED BY <1>1, <2>1 DEF OnGenerate, PrismaInv
<1>2. ASSUME UNCHANGED <<datamodel, unwritable, entityDefs, fileExports>>, disk \subseteq disk',
             PrismaInv!2',
             phase' \in {"idle", "enums"} => phase \in {"idle", "enums"},
             phase' \in {"files", "done"} =>
               \/ phase \in {"files", "done"} 
               \/ datamodel.models = <<>> /\ phase = "enums",
             phase' = "done" => phase = "done" \/ Len(fileExports) = Len(datamodel.models),
             phase' \notin {"idle", "enums", "failed"} =>
               \A e \in datamodel.enums : EnumFile(e) \in disk'
      PROVE  PrismaInv'
  BY <1>2, SameSchema DEF PrismaInv, EnumFile
<1>3. ASSUME NEW enum, WriteEnum(enum) PROVE PrismaInv'
  BY <1>2, <1>3 DEF WriteEnum, PrismaInv
<1>4. CASE EnumsWritten
  BY <1>2, <1>4 DEF EnumsWritten, PrismaInv
<1>5. CASE BuildEntityDef
  <2> DEFINE n == Len(entityDefs) + 1
  <2>1. n \in DOMAIN datamodel.models /\ entityDefs' = Append(entityDefs, DefinitionOf(datamodel.models[n]))
    BY <1>5 DEF BuildEntityDef, PrismaInv, DefinitionOf
  <2>2. datamodel.models[n] \in ModelsOf(datamodel)
    BY <2>1 DEF ModelsOf
  <2>3. /\ entityDefs' \in Seq({DefinitionOf(m) : m \in ModelsOf(datamodel)})
        /\ Len(entityDefs') = n /\ n \in Nat
        /\ \A i \in DOMAIN entityDefs' : entityDefs'[i] = DefinitionOf(datamodel.models[i])
    BY <2>1, <2>2 DEF PrismaInv
  <2>4. UNCHANGED <<datamodel, unwritable, disk, fileExports>>
    BY <1>5 DEF BuildEntityDef
  <2>5. phase = "defs" /\ phase' \in {"defs", "files"} /\ (phase' = "files" => n = Len(datamodel.models))
    BY <1>5, <2>3 DEF BuildEntityDef
  <2>6. /\ {DefinitionOf(m) : m \in ModelsOf(datamodel)}' = {DefinitionOf(m) : m \in ModelsOf(datamodel)}
        /\ {FileOfModel(m.name) : m \in ModelsOf(datamodel)}' = {FileOfModel(m.name) : m \in ModelsOf(datamodel)}
        /\ \A i : DefinitionOf(datamodel.models[i])' = DefinitionOf(datamodel.models[i])
        /\ \A i : FileOfModel(datamodel.models[i].name)' = FileOfModel(datamodel.models[i].name)
    BY <2>4, SameSchema
  <2> HIDE DEF n
  <2>7. /\ entityDefs' \in Seq({DefinitionOf(m) : m \in ModelsOf(datamodel)})'
        /\ (Len(entityDefs) <= Len(datamodel.models))'
        /\ (\A i \in DOMAIN entityDefs : entityDefs[i] = DefinitionOf(datamodel.models[i]))'
    <3>1. n <= Len(datamodel.models)
      BY <2>1 DEF PrismaInv
    <3> QED BY <2>3, <2>4, <2>6, <3>1
  <2>8. /\ fileExports' \in Seq({FileOfModel(m.name) : m \in ModelsOf(datamodel)})'
        /\ (\A i \in DOMAIN fileExports : FileOfModel(datamodel.models[i].name) \in disk \cup unwritable)'
    BY <2>4, <2>6 DEF PrismaInv
  <2> QED BY <2>3, <2>4, <2>5, <2>7, <2>8 DEF PrismaInv, EnumFile
<1>6. CASE GenerateClasses
  <2> DEFINE n == Len(fileExports) + 1
             file == FileOfModel(datamodel.models[n].name)
  <2>1. n \in DOMAIN datamodel.models /\ fileExports' = Append(fileExports, file)
    BY <1>6 DEF GenerateClasses, PrismaInv
  <2>2. datamodel.models[n] \in ModelsOf(datamodel)
    BY <2>1 DEF ModelsOf
  <2>3. disk \subseteq disk' /\ file \in disk' \cup unwritable
    BY <1>6 DEF GenerateClasses
  <2>4. UNCHANGED <<datamodel, unwritable, entityDefs, phase>> /\ phase = "files"
    BY <1>6 DEF GenerateClasses
  <2>5. /\ fileExports' \in Seq({FileOfModel(m.name) : m \in ModelsOf(datamodel)})
        /\ Len(fileExports') = n /\ n \in Nat
        /\ \A i \in DOMAIN fileExports' : FileOfModel(datamodel.models[i].name) \in disk' \cup unwritable
    BY <2>1, <2>2, <2>3 DEF PrismaInv
  <2>6. /\ {DefinitionOf(m) : m \in ModelsOf(datamodel)}' = {DefinitionOf(m) : m \in ModelsOf(datamodel)}
        /\ {FileOfModel(m.name) : m \in ModelsOf(datamodel)}' = {FileOfModel(m.name) : m \in ModelsOf(datamodel)}
        /\ \A i : DefinitionOf(datamodel.models[i])' = DefinitionOf(datamodel.models[i])
        /\ \A i : FileOfModel(datamodel.models[i].name)' = FileOfModel(datamodel.models[i].name)
    BY <2>4, SameSchema
  <2> HIDE DEF n, file
  <2>7. /\ entityDefs' \in Seq({DefinitionOf(m) : m \in ModelsOf(datamodel)})'
        /\ (\A i \in DOMAIN entityDefs : entityDefs[i] = DefinitionOf(datamodel.models[i]))'
    BY <2>4, <2>6 DEF PrismaInv
  <2>8. /\ fileExports' \in Seq({FileOfModel(m.name) : m \in ModelsOf(datamodel)})'
        /\ (Len(fileExports) <= Len(datamodel.models))'
        /\ (\A i \in DOMAIN fileExports : FileOfModel(datamodel.models[i].name) \in disk \cup unwritable)'
    <3>1. n <= Len(datamodel.models)
      BY <2>1 DEF PrismaInv
    <3> QED BY <2>4, <2>5, <2>6, <3>1
  <2> QED BY <2>3, <2>4, <2>5, <2>7, <2>8 DEF PrismaInv, EnumFile
<1>7. CASE GenerateIndex
  BY <1>2, <1>7 DEF GenerateIndex, PrismaInv
<1>8. CASE UNCHANGED prismaVars
  BY <1>2, <1>8 DEF prismaVars, PrismaInv
<1> QED BY <1>1, <1>3, <1>4, <1>5, <1>6, <1>7, <1>8 DEF PrismaNext

LEMMA AlwaysPrismaInv == PrismaSpec => []PrismaInv
BY PrismaStart, PrismaStep, PTL DEF PrismaSpec

(* What Prisma sees to, of the schema that was given.                      *)
LEMMA GivenSchema ==
  ASSUME PrismaInv, phase # "idle"
  PROVE  /\ \A i \in DOMAIN datamodel.models : datamodel.models[i] \in ModelType
         /\ DOMAIN datamodel.models = 1 .. Len(datamodel.models) /\ Len(datamodel.models) \in Nat
         /\ \A a, b \in ModelsOf(datamodel) : a.name = b.name => a = b
         /\ \A a \in ModelsOf(datamodel) : \A f \in FieldsIn(a) :
              /\ f.kind = "enum" => f.type \in datamodel.enums
              /\ f.relation # {} <=> \E b \in ModelsOf(datamodel) : b.name = f.type
              /\ f.relation # {} => ~ f.id /\ f.name \notin a.key \cup {"updatedAt", "createdAt"}
              /\ \A b \in ModelsOf(datamodel) : b.name = f.type /\ b # a =>
                   \E j \in Opposites(a, f, b) :
                     Opposites(a, f, b) = {j} /\ ~ (f.joins /\ b.fields[j].joins)
<1>1. datamodel \in DataModels
  BY DEF PrismaInv
<1>2. datamodel.models \in Seq(ModelType)
  BY DEF PrismaInv
<1> QED BY <1>1, <1>2, PrismaAssumption, SMTT(30) DEF ModelsOf

LEMMA NamedModel ==
  ASSUME PrismaInv, phase # "idle", NEW b \in ModelsOf(datamodel)
  PROVE  ModelNamed(b.name) = b
BY GivenSchema DEF ModelNamed, ModelsOf

(* Every import of a model is of an enum, whose file is there before, or   *)
(* of a model, which the loop over the files comes to.                     *)
THEOREM ImportsThere == PrismaSpec => []ImportsResolve
<1>1. PrismaInv => ImportsResolve
  <2> SUFFICES ASSUME PrismaInv, phase = "done",
                      NEW k \in DOMAIN entityDefs, NEW file \in entityDefs[k].imports
               PROVE  file \in disk \cup unwritable
    BY DEF ImportsResolve
  <2>1. PICK model \in ModelsOf(datamodel) : entityDefs[k] = DefinitionOf(model)
    BY GivenSchema DEF PrismaInv, ModelsOf
  <2>2. file \in Imports(model)
    BY <2>1 DEF DefinitionOf
  <2>3. CASE \E f \in FieldsIn(model) : f.kind = "enum" /\ file = EnumFile(f.type)
    BY <2>3, GivenSchema DEF PrismaInv
  <2>4. ASSUME NEW f \in FieldsIn(model), InList(model, f) = "relation", file = FileOfModel(f.type)
        PROVE  file \in disk \cup unwritable
    <3>1. f.relation # {}
      BY <2>4 DEF InList
    <3>2. PICK j \in DOMAIN datamodel.models : datamodel.models[j].name = f.type
      BY <3>1, GivenSchema DEF ModelsOf
    <3>3. j \in DOMAIN fileExports
      BY GivenSchema DEF PrismaInv
    <3> QED BY <2>4, <3>2, <3>3 DEF PrismaInv
  <2> QED BY <2>2, <2>3, <2>4 DEF Imports
<1> QED BY <1>1, AlwaysPrismaInv, PTL

(* Of the fields of one model that lead to another, one belongs to a       *)
(* relation that alone joins the two; Target finds its opposite, and from  *)
(* there finds it back.                                                    *)
LEMMA OneEachWay ==
  ASSUME PrismaInv, phase # "idle",
         NEW a \in ModelsOf(datamodel), NEW b \in ModelsOf(datamodel), a # b,
         NEW f \in FieldsIn(a), f.type = b.name,
         OneRelation(a.name, b.name)
  PROVE  \E t \in FieldsIn(b) :
           /\ Target(b, a.name) = {t} /\ Target(a, b.name) = {f}
           /\ t.type = a.name /\ t.relation = f.relation
           /\ ~ (t.joins /\ f.joins)
<1>1. \A g \in FieldsIn(a) : g.type = b.name => g.relation = f.relation
  BY NamedModel DEF OneRelation
<1>2. /\ DOMAIN a.fields \subseteq Nat /\ DOMAIN b.fields \subseteq Nat
      /\ a.name # b.name
  BY GivenSchema DEF ModelsOf, ModelType
<1>3. f.relation # {}
  BY GivenSchema
<1>4. PICK j \in Opposites(a, f, b) : Opposites(a, f, b) = {j} /\ ~ (f.joins /\ b.fields[j].joins)
  BY GivenSchema
<1>5. PICK t : t = b.fields[j]
  OBVIOUS
<1>6. t \in FieldsIn(b) /\ t.type = a.name /\ t.relation = f.relation
  BY <1>4, <1>5 DEF Opposites, FieldsIn
<1>7. {i \in DOMAIN b.fields : b.fields[i].type = a.name} = {j}
  <2>1. ASSUME NEW i \in DOMAIN b.fields, b.fields[i].type = a.name PROVE i = j
    <3>1. b.fields[i] \in FieldsIn(b)
      BY DEF FieldsIn
    <3>2. PICK k \in Opposites(b, b.fields[i], a) : TRUE
      BY <2>1, <3>1, GivenSchema
    <3>3. a.fields[k] \in FieldsIn(a) /\ a.fields[k].type = b.name /\ a.fields[k].relation = b.fields[i].relation
      BY <3>2 DEF Opposites, FieldsIn
    <3>4. b.fields[i].relation = f.relation
      BY <1>1, <3>3
    <3> QED BY <1>4, <2>1, <3>4 DEF Opposites
  <2> QED BY <1>4, <2>1 DEF Opposites
<1>8. Target(b, a.name) = {t}
  <2>1. j <= j
    BY <1>2, <1>4 DEF Opposites
  <2> QED BY <1>5, <1>7, <2>1 DEF Target
<1>9. PICK k \in DOMAIN a.fields : a.fields[k] = f
  BY DEF FieldsIn
<1>10. {i \in DOMAIN a.fields : a.fields[i].type = b.name} = {k}
  <2>1. Opposites(b, t, a) = {i \in DOMAIN a.fields : a.fields[i].type = b.name}
    BY <1>1, <1>6 DEF Opposites, FieldsIn
  <2>2. \E i \in Opposites(b, t, a) : Opposites(b, t, a) = {i}
    BY <1>6, GivenSchema
  <2> QED BY <1>9, <2>1, <2>2
<1>11. Target(a, b.name) = {f}
  <2>1. k <= k
    BY <1>2
  <2> QED BY <1>9, <1>10, <2>1 DEF Target
<1> QED BY <1>4, <1>5, <1>6, <1>8, <1>11

(* The entry that one field of a relation makes, and its opposite's.       *)
EntryOf(f, t) ==
  [in |-> KindOf(f, t), field |-> f.name, entity |-> f.type, target |-> t.name, joins |-> f.joins]

LEMMA EntryOfField ==
  ASSUME PrismaInv, phase # "idle",
         NEW a \in ModelsOf(datamodel), NEW b \in ModelsOf(datamodel), a # b,
         NEW f \in FieldsIn(a), f.type = b.name,
         NEW t, Target(b, a.name) = {t}, ~ Crosses(a, f)
  PROVE  EntryOf(f, t) \in Entries(a)
<1>1. f.relation # {} /\ a.name # f.type
  BY GivenSchema
<1>2. InList(a, f) = "relation"
  <2>1. ~ f.id /\ f.name \notin a.key \cup {"updatedAt", "createdAt"}
    BY <1>1, GivenSchema
  <2> QED BY <1>1, <2>1 DEF InList
<1>3. ModelNamed(f.type) = b
  BY NamedModel
<1>4. Relationship(a, f) = {EntryOf(f, t)}
  BY <1>1, <1>3 DEF Relationship, EntryOf
<1> QED BY <1>2, <1>4 DEF Entries

(* Read from the two models, one at a time, the entries of a relation that *)
(* alone joins them lead to each other and are dual.                       *)
THEOREM RelationsMatch == PrismaSpec => []RelationsPair
<1>1. PrismaInv => RelationsPair
  <2> SUFFICES ASSUME PrismaInv, phase = "done",
                      NEW k \in DOMAIN entityDefs,
                      NEW e \in entityDefs[k].entries,
                      e.in \in DOMAIN Dual, e.entity # entityDefs[k].name,
                      OneRelation(entityDefs[k].name, e.entity)
               PROVE  \E back \in DefOf(e.entity).entries :
                        /\ back.entity = entityDefs[k].name
                        /\ back.field = e.target /\ back.target = e.field
                        /\ back.in = Dual[e.in]
                        /\ ~ (back.joins /\ e.joins)
    BY DEF RelationsPair
  <2>1. PICK a \in ModelsOf(datamodel) : entityDefs[k] = DefinitionOf(a)
    BY GivenSchema DEF PrismaInv, ModelsOf
  <2>2. entityDefs[k].name = a.name /\ e \in Entries(a)
    BY <2>1 DEF DefinitionOf
  <2>3. PICK f \in FieldsIn(a) : /\ InList(a, f) = "relation" /\ ~ Crosses(a, f)
                                 /\ e \in Relationship(a, f)
    <3>1. PICK f \in FieldsIn(a) :
            e \in IF InList(a, f) # "relation" THEN {ColumnEntry(a, f)}
                  ELSE IF Crosses(a, f) THEN {} ELSE Relationship(a, f)
      BY <2>2 DEF Entries
    <3>2. InList(a, f) \in {"updatedAt", "createdAt", "primary", "columns", "relation"}
      BY DEF InList
    <3>3. InList(a, f) = "relation"
      <4>1. InList(a, f) # "relation" => e.in = InList(a, f)
        <5>1. ColumnEntry(a, f).in = InList(a, f)
          BY DEF ColumnEntry
        <5> QED BY <3>1, <5>1
      <4>2. DOMAIN Dual = {"oneToOne", "oneToMany", "manyToOne", "manyToMany"}
        BY DEF Dual
      <4> QED BY <3>2, <4>1, <4>2
    <3> QED BY <3>1, <3>3
  <2>4. PICK b \in ModelsOf(datamodel) : b.name = f.type
    <3>1. f.relation # {}
      BY <2>3 DEF InList
    <3> QED BY <3>1, GivenSchema
  <2>5. ModelNamed(f.type) = b
    BY <2>4, NamedModel
  <2>6. f.type # a.name /\ a # b /\ e.entity = f.type
    <3>1. PICK t \in Target(b, a.name) :
            e = IF f.type = a.name /\ f.list
                THEN [in |-> "oneToMany", field |-> f.name, entity |-> a.name,
                      target |-> CHOOSE r \in f.relation : TRUE, joins |-> FALSE]
                ELSE EntryOf(f, t)
      BY <2>3, <2>5 DEF Relationship, EntryOf
    <3> QED BY <2>2, <2>4, <3>1 DEF EntryOf
  <2>7. PICK t \in FieldsIn(b) :
          /\ Target(b, a.name) = {t} /\ Target(a, b.name) = {f}
          /\ t.type = a.name /\ t.relation = f.relation
          /\ ~ (t.joins /\ f.joins)
    BY <2>2, <2>4, <2>6, OneEachWay
  <2>8. e = EntryOf(f, t)
    BY <2>3, <2>5, <2>6, <2>7 DEF Relationship, EntryOf
  <2>9. ~ Crosses(b, t)
    BY <2>3, <2>4, <2>7 DEF Crosses
  <2>10. EntryOf(t, f) \in Entries(b)
    BY <2>6, <2>7, <2>9, EntryOfField
  <2>11. DefOf(b.name) = DefinitionOf(b)
    <3>1. PICK j \in DOMAIN datamodel.models : datamodel.models[j] = b
      BY DEF ModelsOf
    <3>2. j \in DOMAIN entityDefs /\ entityDefs[j] = DefinitionOf(b)
      BY <3>1, GivenSchema DEF PrismaInv
    <3>3. \A i \in DOMAIN entityDefs : entityDefs[i].name = b.name => entityDefs[i] = DefinitionOf(b)
      <4>1. SUFFICES ASSUME NEW i \in DOMAIN entityDefs, entityDefs[i].name = b.name
                     PROVE  entityDefs[i] = DefinitionOf(b)
        OBVIOUS
      <4>2. PICK m \in ModelsOf(datamodel) : entityDefs[i] = DefinitionOf(m)
        BY GivenSchema DEF PrismaInv, ModelsOf
      <4>3. m.name = b.name
        BY <4>1, <4>2 DEF DefinitionOf
      <4> QED BY <4>2, <4>3, GivenSchema
    <3>4. DefinitionOf(b).name = b.name
      BY DEF DefinitionOf
    <3> QED BY <3>2, <3>3, <3>4 DEF DefOf
  <2>12. KindOf(t, f) = Dual[KindOf(f, t)]
    BY DEF KindOf, Dual
  <2>13. EntryOf(t, f) \in DefOf(e.entity).entries
    BY <2>4, <2>6, <2>10, <2>11 DEF DefinitionOf
  <2> QED BY <2>2, <2>4, <2>6, <2>7, <2>8, <2>12, <2>13 DEF EntryOf
<1> QED BY <1>1, AlwaysPrismaInv, PTL

-----------------------------------------------------------------------------
(* The GraphQL operations of a schema.                                     *)

GqlSpec == GqlInit /\ [][GqlNext]_gqlVars

OperationIsValid(operation) ==
  \E m \in Models :
    /\ operation.leaves # {}
    /\ SelectsLeaves(m, operation.leaves)
    /\ \A r \in operation.nested :
         \E f \in m.fields : \E n \in Models :
           f.id = r[1] /\ f.type = n.id /\ r[2] # {} /\ SelectsLeaves(n, r[2])

Rendered == {operations[i] : i \in DOMAIN operations}

(* What is rendered is valid at once, and stays so: the schema is read     *)
(* once.                                                                   *)
GqlInv ==
  /\ progress = "idle" => operations = <<>>
  /\ progress # "idle" => nodes \in Schemas
  /\ \E S : operations \in Seq(S)
  /\ \A operation \in Rendered : OperationIsValid(operation)

(* A type under wrappers that are not unwrapped is taken for "name", which *)
(* is neither a scalar nor a type: a field whose type is found has it.     *)
LEMMA TypeIsItself ==
  ASSUME nodes \in Schemas, NEW f,
         TypeOf(f) \in ComplexScalars \cup AllowedScalars \cup AllowedModels
  PROVE  TypeOf(f) = f.type
<1>1. "name" \notin ComplexScalars
  BY DEF ComplexScalars, DefaultScalars
<1>2. "name" \notin AllowedModels
  BY SchemasAssumption DEF AllowedModels, Models, Nodes
<1>3. "name" \notin AllowedScalars
  BY SchemasAssumption DEF AllowedScalars, Nodes, DefaultScalars
<1> QED BY <1>1, <1>2, <1>3 DEF TypeOf

LEMMA ScalarsAreLeaves ==
  ASSUME NEW t \in ComplexScalars \cup AllowedScalars
  PROVE  Leaf(t)
BY DEF Leaf, ComplexScalars, AllowedScalars

LEMMA FieldsAreLeaves ==
  ASSUME nodes \in Schemas, NEW m, NEW allowed \in SUBSET (ComplexScalars \cup AllowedScalars)
  PROVE  SelectsLeaves(m, FieldsOf(m, allowed))
<1> SUFFICES ASSUME NEW f \in m.fields, TypeOf(f) \in allowed PROVE Leaf(f.type)
  BY DEF SelectsLeaves, FieldsOf
<1> QED BY TypeIsItself, ScalarsAreLeaves

LEMMA OneModelOfAName ==
  ASSUME nodes \in Schemas, NEW a \in Models, NEW b \in Models, a.id = b.id
  PROVE  a = b
BY SchemasAssumption DEF Models, Nodes

(* A relation is rendered with the leaves of the model that it leads to.   *)
LEMMA RelationsAreValid ==
  ASSUME nodes \in Schemas, NEW m, NEW r \in Relations(m)
  PROVE  \E f \in m.fields : \E n \in Models :
           f.id = r[1] /\ f.type = n.id /\ r[2] # {} /\ SelectsLeaves(n, r[2])
<1> DEFINE Plain(n) == [n EXCEPT !.fields = {g \in @ : ~ IsManyResolver(g)}]
           Leaves(f) == UNION {FieldsOf(Plain(n), ComplexScalars) : n \in {k \in Models : k.id = TypeOf(f)}}
<1>1. PICK f \in m.fields : TypeOf(f) \in AllowedModels /\ Leaves(f) # {} /\ r = <<f.id, Leaves(f)>>
  BY DEF Relations
<1>2. f.type = TypeOf(f)
  BY <1>1, TypeIsItself
<1>3. PICK n \in Models : n.id = TypeOf(f)
  BY <1>1 DEF AllowedModels
<1>4. {k \in Models : k.id = TypeOf(f)} = {n}
  BY <1>3, OneModelOfAName
<1>5. Leaves(f) = FieldsOf(Plain(n), ComplexScalars)
  BY <1>4
<1>6. "fields" \in DOMAIN n
  BY SchemasAssumption DEF Models, Nodes
<1>7. Plain(n).fields \subseteq n.fields
  BY <1>6
<1>8. SelectsLeaves(Plain(n), Leaves(f))
  BY <1>5, FieldsAreLeaves
<1>9. SelectsLeaves(n, Leaves(f))
  BY <1>7, <1>8 DEF SelectsLeaves
<1> QED BY <1>1, <1>2, <1>3, <1>9

LEMMA RenderedIsValid ==
  ASSUME nodes \in Schemas, NEW query, NEW m \in Models, FieldsOf(m, AllowedScalars) # {}
  PROVE  /\ OperationIsValid(FindById(query, m))
         /\ OperationIsValid(QueryMany(query, m))
<1>1. SelectsLeaves(m, FieldsOf(m, AllowedScalars))
  BY FieldsAreLeaves
<1>2. \A r \in Relations(m) :
        \E f \in m.fields : \E n \in Models :
          f.id = r[1] /\ f.type = n.id /\ r[2] # {} /\ SelectsLeaves(n, r[2])
  BY RelationsAreValid
<1>3. OperationIsValid(FindById(query, m))
  BY <1>1, <1>2 DEF OperationIsValid, FindById
<1>4. OperationIsValid(QueryMany(query, m))
  BY <1>1 DEF OperationIsValid, QueryMany
<1> QED BY <1>3, <1>4

LEMMA GqlStart == GqlInit => GqlInv
<1> SUFFICES ASSUME GqlInit PROVE GqlInv
  OBVIOUS
<1>1. operations \in Seq({})
  BY DEF GqlInit
<1> QED BY <1>1 DEF GqlInit, GqlInv, Rendered

LEMMA SameNodes ==
  ASSUME UNCHANGED nodes, NEW operation, OperationIsValid(operation)
  PROVE  OperationIsValid(operation)'
<1>1. Models' = Models
  BY DEF Models, Nodes
<1>2. \A m, names : SelectsLeaves(m, names)' <=> SelectsLeaves(m, names)
  BY DEF SelectsLeaves, Leaf, Nodes
<1> QED BY <1>1, <1>2 DEF OperationIsValid

LEMMA GqlStep == GqlInv /\ [GqlNext]_gqlVars => GqlInv'
<1> SUFFICES ASSUME GqlInv, [GqlNext]_gqlVars PROVE GqlInv'
  OBVIOUS
<1> USE DEF GqlInv
<1>1. ASSUME NEW schema \in Schemas, AutoOperations(schema) PROVE GqlInv'
  BY <1>1 DEF AutoOperations, Rendered
<1>2. CASE Reduce
  <2>1. UNCHANGED nodes /\ nodes \in Schemas /\ progress # "idle" /\ progress' # "idle"
    BY <1>2 DEF Reduce
  <2>2. CASE UNCHANGED operations
    BY <2>1, <2>2, SameNodes DEF Rendered
  <2>3. CASE ~ UNCHANGED operations
    <3>0. PICK query \in {Head(queries)} : ModelOf(query) # {} /\ Render(query, CHOOSE m \in ModelOf(query) : TRUE)
      BY <1>2, <2>3 DEF Reduce
    <3>1. PICK m \in Models :
            /\ FieldsOf(m, AllowedScalars) # {}
            /\ operations' = operations \o <<FindById(query, m), QueryMany(query, m)>>
      BY <2>3, <3>0 DEF Render, ModelOf
    <3> DEFINE one == FindById(query, m)
               many == QueryMany(query, m)
    <3>2. PICK S : operations \in Seq(S)
      OBVIOUS
    <3>3. OperationIsValid(one) /\ OperationIsValid(many)
      BY <2>1, <3>1, RenderedIsValid
    <3> HIDE DEF one, many
    <3>4. operations \in Seq(S \cup {one, many}) /\ <<one, many>> \in Seq(S \cup {one, many})
      BY <3>2
    <3>5. operations' \in Seq(S \cup {one, many})
      BY <3>1, <3>4 DEF one, many
    <3>6. Rendered' \subseteq Rendered \cup {one, many}
      <4> SUFFICES ASSUME NEW i \in DOMAIN operations'
                   PROVE  operations'[i] \in Rendered \cup {one, many}
        BY DEF Rendered
      <4>1. operations' = operations \o <<one, many>>
        BY <3>1 DEF one, many
      <4>2. (i \in DOMAIN operations /\ operations'[i] = operations[i]) \/ operations'[i] \in {one, many}
        BY <3>4, <4>1
      <4> QED BY <4>2 DEF Rendered
    <3>7. \A operation \in Rendered' : OperationIsValid(operation)
      BY <3>3, <3>6
    <3>8. \A operation \in Rendered' : OperationIsValid(operation)'
      BY <2>1, <3>7, SameNodes
    <3> QED BY <2>1, <3>5, <3>8
  <2> QED BY <2>2, <2>3
<1>3. CASE WriteOperations
  BY <1>3, SameNodes DEF WriteOperations, Rendered
<1>4. CASE UNCHANGED gqlVars
  BY <1>4, SameNodes DEF gqlVars, Rendered
<1> QED BY <1>1, <1>2, <1>3, <1>4 DEF GqlNext

(* The operations that are written are valid for the schema: their fields  *)
(* are fields of the model, and what they select are leaves.               *)
THEOREM OperationsValid == GqlSpec => []OperationsAreValid
<1>1. GqlInv => OperationsAreValid
  BY DEF GqlInv, OperationsAreValid, OperationIsValid, Rendered
<1> QED BY <1>1, GqlStart, GqlStep, PTL DEF GqlSpec

-----------------------------------------------------------------------------
(* The merged OpenAPI document.                                            *)

LEMMA HeadAndRest ==
  ASSUME NEW S, NEW s \in Seq(S), s # <<>>
  PROVE  /\ Head(s) \in S
         /\ Tail(s) \in Seq(S)
         /\ {s[i] : i \in DOMAIN s} = {Head(s)} \cup {Tail(s)[i] : i \in DOMAIN Tail(s)}
<1>1. /\ Head(s) = s[1] /\ 1 \in DOMAIN s /\ Head(s) \in S /\ Tail(s) \in Seq(S)
      /\ DOMAIN s = 1 .. Len(s) /\ DOMAIN Tail(s) = 1 .. Len(s) - 1 /\ Len(s) \in Nat
  OBVIOUS
<1>2. \A i \in 1 .. Len(s) - 1 : Tail(s)[i] = s[i + 1] /\ i + 1 \in 1 .. Len(s)
  BY <1>1
<1>3. \A i \in 1 .. Len(s) : i # 1 => i - 1 \in 1 .. Len(s) - 1 /\ Tail(s)[i - 1] = s[i]
  BY <1>1, <1>2
<1>4. ASSUME NEW x \in {s[i] : i \in DOMAIN s}
      PROVE  x \in {Head(s)} \cup {Tail(s)[i] : i \in DOMAIN Tail(s)}
  BY <1>1, <1>3
<1>5. ASSUME NEW x \in {Head(s)} \cup {Tail(s)[i] : i \in DOMAIN Tail(s)}
      PROVE  x \in {s[i] : i \in DOMAIN s}
  BY <1>1, <1>2
<1> QED BY <1>1, <1>4, <1>5

ApiSpec == ApiInit /\ [][ApiNext]_apiVars

(* What refers to a component.                                             *)
FromPaths(x, paths) ==
  \E p \in DOMAIN paths : \E m \in DOMAIN paths[p] : x \in paths[p][m].refs
FromComponents(x, components) ==
  \E g \in DOMAIN components : \E n \in DOMAIN components[g] : x \in components[g][n].refs

LEMMA ReferencesFrom ==
  ASSUME NEW d, NEW x
  PROVE  x \in References(d) <=> FromPaths(x, d.paths) \/ FromComponents(x, d.components)
<1> DEFINE A == UNION {UNION {d.paths[p][m].refs : m \in DOMAIN d.paths[p]} : p \in DOMAIN d.paths}
           B == UNION {UNION {d.components[g][n].refs : n \in DOMAIN d.components[g]}
                         : g \in DOMAIN d.components}
<1>1. x \in A <=> \E p \in DOMAIN d.paths : x \in UNION {d.paths[p][m].refs : m \in DOMAIN d.paths[p]}
  OBVIOUS
<1>2. x \in A <=> FromPaths(x, d.paths)
  BY <1>1 DEF FromPaths
<1>3. x \in B <=> \E g \in DOMAIN d.components :
                    x \in UNION {d.components[g][n].refs : n \in DOMAIN d.components[g]}
  OBVIOUS
<1>4. x \in B <=> FromComponents(x, d.components)
  BY <1>3 DEF FromComponents
<1> QED BY <1>2, <1>4 DEF References

LEMMA NamedIs ==
  ASSUME NEW g, NEW refs, NEW n
  PROVE  n \in Named(g, refs) <=> \E r \in refs : r[1] = g /\ r[2] = n
BY DEF Named

LEMMA OverIs ==
  ASSUME NEW f, NEW g
  PROVE  /\ DOMAIN Over(f, g) = DOMAIN f \cup DOMAIN g
         /\ \A x \in DOMAIN f : Over(f, g)[x] = f[x]
         /\ \A x \in DOMAIN g \ DOMAIN f : Over(f, g)[x] = g[x]
BY DEF Over

LEMMA FirstOver ==
  ASSUME NEW f, NEW g, NEW x \in DOMAIN f
  PROVE  x \in DOMAIN Over(f, g) /\ Over(f, g)[x] = f[x]
BY DEF Over

(* What is there when one thing has been merged over the other.            *)
LEMMA HasOver ==
  ASSUME NEW f, NEW g, NEW r
  PROVE  Has(Over(f, g), r) <=> IF r[1] \in DOMAIN f THEN Has(f, r) ELSE Has(g, r)
<1> DEFINE o == Over(f, g)
<1>1. /\ DOMAIN o = DOMAIN f \cup DOMAIN g
      /\ r[1] \in DOMAIN f => o[r[1]] = f[r[1]]
      /\ r[1] \in DOMAIN g \ DOMAIN f => o[r[1]] = g[r[1]]
  BY DEF Over
<1> HIDE DEF o
<1>2. Has(o, r) <=> IF r[1] \in DOMAIN f THEN Has(f, r) ELSE Has(g, r)
  BY <1>1 DEF Has
<1> QED BY <1>2 DEF o

LEMMA HasMerged ==
  ASSUME NEW d, NEW file, NEW r
  PROVE  Has(MergedGroups(d, file), r) <=> Has(d.components, r) \/ Has(file, r)
<1> DEFINE Group(f, g) == IF g \in DOMAIN f THEN f[g] ELSE <<>>
           M == MergedGroups(d, file)
           a == Group(d.components, r[1])
           b == Group(file, r[1])
<1>1. DOMAIN <<>> = {}
  OBVIOUS
<1>2. Has(d.components, r) \/ Has(file, r) <=> r[2] \in DOMAIN a \cup DOMAIN b
  BY <1>1 DEF Has
<1>3. CASE r[1] \in DOMAIN M
  <2>1. M[r[1]] = Over(a, b)
    BY <1>3 DEF MergedGroups
  <2> HIDE DEF a, b, M
  <2>2. DOMAIN Over(a, b) = DOMAIN a \cup DOMAIN b
    BY OverIs
  <2>3. Has(M, r) <=> r[2] \in DOMAIN a \cup DOMAIN b
    BY <2>1, <2>2, <1>3 DEF Has
  <2> QED BY <2>3, <1>2 DEF M
<1>4. CASE r[1] \notin DOMAIN M
  <2>1. a = <<>> /\ b = <<>>
    BY <1>4 DEF MergedGroups
  <2> QED BY <2>1, <1>1, <1>2, <1>4 DEF Has
<1> QED BY <1>3, <1>4

(* The schemas' names, of a document.                                      *)
Names(d) == DOMAIN SchemasOf(d)

LEMMA HasSchema ==
  ASSUME NEW d, NEW r, r[1] = "schemas"
  PROVE  Has(d.components, r) <=> r[2] \in Names(d)
<1>1. DOMAIN <<>> = {}
  OBVIOUS
<1> QED BY <1>1 DEF Has, Names, SchemasOf

LEMMA PrefixedIs ==
  ASSUME NEW prefix \in Seq(STRING), NEW d \in Documents
  PROVE  /\ \A q : q \in DOMAIN Prefixed(prefix, d.paths) <=> \E p \in DOMAIN d.paths : q = prefix \o p
         /\ \A p \in DOMAIN d.paths : Prefixed(prefix, d.paths)[prefix \o p] = d.paths[p]
<1> DEFINE paths == d.paths
<1>0. DOMAIN paths \subseteq Seq(STRING)
  BY DocumentsAssumption
<1>1. DOMAIN Prefixed(prefix, paths) = {prefix \o p : p \in DOMAIN paths}
  BY DEF Prefixed
<1>2. ASSUME NEW p \in DOMAIN paths PROVE Prefixed(prefix, paths)[prefix \o p] = paths[p]
  <2> DEFINE q == prefix \o p
  <2>1. /\ p \in Seq(STRING)
        /\ q \in Seq(STRING)
        /\ Len(q) = Len(prefix) + Len(p)
        /\ \A i \in 1 .. Len(p) : q[Len(prefix) + i] = p[i]
    BY <1>0, <1>2
  <2>2. SubSeq(q, Len(prefix) + 1, Len(q)) = p
    BY <2>1
  <2> QED BY <1>1, <2>2 DEF Prefixed
<1> QED BY <1>1, <1>2

-----------------------------------------------------------------------------
IsCommand(c) ==
  /\ c.documents \in Seq(Documents)
  /\ c.documents # <<>>
  /\ c.components \in Seq(Shared)
  /\ c.names \in Seq(STRING)
  /\ c.name # "merge" => Len(c.documents) = 1

(* Where a component of the inputs is.                                     *)
Own(i, r) == Has(TheCommand.documents[i].components, r)
InFiles(r) == \E i \in DOMAIN TheCommand.components : Has(TheCommand.components[i], r)
InFirst(r) == Own(1, r) \/ (InFiles(r) /\ r[1] \notin DOMAIN TheCommand.documents[1].components)

(* One document's operations, in d under its prefix as they are there, but *)
(* where a document between has the path.                                  *)
TakenBy(j, path) ==
  path \in {PrefixOf(TheCommand, j) \o p : p \in DOMAIN TheCommand.documents[j].paths}
PathsKept(i, d, until) ==
  \A p \in DOMAIN TheCommand.documents[i].paths :
    (\A j \in i + 1 .. until : ~ TakenBy(j, PrefixOf(TheCommand, i) \o p)) =>
      /\ PrefixOf(TheCommand, i) \o p \in DOMAIN d.paths
      /\ d.paths[PrefixOf(TheCommand, i) \o p] = TheCommand.documents[i].paths[p]
(* Its schemas, but those that a document between redefines.               *)
SchemasKept(i, d, until) ==
  \A n \in Names(TheCommand.documents[i]) :
    (\A j \in i + 1 .. until : n \notin Names(TheCommand.documents[j]))
      => n \in Names(d) /\ SchemasOf(d)[n] = SchemasOf(TheCommand.documents[i])[n]
(* What OperationsAreKept says of a document's paths and schemas.          *)
OperationsThere(i, d) ==
  \A p \in DOMAIN TheCommand.documents[i].paths :
    \/ Overtaken(i, PrefixOf(TheCommand, i) \o p)
    \/ /\ PrefixOf(TheCommand, i) \o p \in DOMAIN d.paths
       /\ d.paths[PrefixOf(TheCommand, i) \o p] = TheCommand.documents[i].paths[p]
SchemasLast(i, d) ==
  \A n \in Names(TheCommand.documents[i]) \cap Names(d) :
    LastOfItsName(i, {n}) => SchemasOf(d)[n] = SchemasOf(TheCommand.documents[i])[n]
MeaningKept(i, d) ==
  \A p \in DOMAIN TheCommand.documents[i].paths :
    ~ Overtaken(i, PrefixOf(TheCommand, i) \o p) =>
      \A m \in DOMAIN TheCommand.documents[i].paths[p] :
        LET meant == Meaning(TheCommand.documents[i].paths[p][m].refs, SchemasOf(TheCommand.documents[i])) IN
          LastOfItsName(i, DOMAIN meant) =>
            \A n \in DOMAIN meant : n \in Names(d) /\ SchemasOf(d)[n] = meant[n]
DocumentKept(i, d) == OperationsThere(i, d) /\ SchemasLast(i, d) /\ MeaningKept(i, d)

Gathering ==
  stage = "components" =>
    /\ todo \in Seq({TheCommand.components[i] : i \in DOMAIN TheCommand.components})
    /\ TheCommand.name = "merge" => document.security = TheCommand.documents[1].security
    /\ \A r : Has(document.components, r) \/ (\E i \in DOMAIN todo : Has(todo[i], r))
                <=> (TheCommand.name # "merge" /\ Own(1, r)) \/ InFiles(r)
Merged == Len(TheCommand.documents) - Len(todo)
Merging ==
  stage = "paths" =>
    /\ TheCommand.name = "merge"
    /\ document.security = TheCommand.documents[1].security
    /\ todo \in Seq(Documents)
    /\ Len(todo) <= Len(TheCommand.documents)
    /\ \A j \in DOMAIN todo : todo[j] = TheCommand.documents[Merged + j]
    /\ \A r : Has(document.components, r)
                <=> InFirst(r) \/ (r[1] = "schemas" /\ \E i \in 1 .. Merged : Own(i, r))
    /\ \A i \in 1 .. Merged : PathsKept(i, document, Merged) /\ SchemasKept(i, document, Merged)
Gathered == stage = "shake" => \A r : Has(document.components, r) <=> Survives(r)
RefsLead ==
  stage \in {"validate", "write", "client", "done"} =>
    \A r \in Refers(document) : Has(document.components, r) <=> Survives(r)
MergeIsKept ==
  stage \notin {"idle", "components", "paths", "failed"} /\ TheCommand.name = "merge" =>
    /\ document.security = TheCommand.documents[1].security
    /\ \A i \in DOMAIN TheCommand.documents : DocumentKept(i, document)

ApiInv ==
  /\ DOMAIN document = DOMAIN Blank
  /\ stage # "idle" => IsCommand(TheCommand)
  /\ Gathering
  /\ Merging
  /\ Gathered
  /\ RefsLead
  /\ MergeIsKept

LEMMA ApiStart == ApiInit => ApiInv
BY DEF ApiInit, ApiInv, Gathering, Merging, Gathered, RefsLead, MergeIsKept

(* The command stays, and what is read of it.                              *)
LEMMA SameCommand ==
  ASSUME UNCHANGED command
  PROVE  /\ TheCommand' = TheCommand
         /\ \A r : /\ Survives(r)' <=> Survives(r)
                   /\ InFiles(r)' <=> InFiles(r)
                   /\ InFirst(r)' <=> InFirst(r)
                   /\ \A i : Own(i, r)' <=> Own(i, r)
<1>1. TheCommand' = TheCommand
  BY DEF TheCommand
<1>2. \A r, i : Own(i, r)' <=> Own(i, r)
  BY <1>1 DEF Own, Has
<1>3. \A r : InFiles(r)' <=> InFiles(r)
  BY <1>1 DEF InFiles, Has
<1>4. \A r : InFirst(r)' <=> InFirst(r)
  BY <1>1, <1>2, <1>3 DEF InFirst
<1>5. \A r : Survives(r)' <=> Survives(r)
  BY <1>1 DEF Survives, Has
<1> QED BY <1>1, <1>2, <1>3, <1>4, <1>5

(* What is said of the next document is said of it under the same command. *)
LEMMA NextDocument ==
  ASSUME UNCHANGED command
  PROVE  \A i : /\ DocumentKept(i, document)' <=> DocumentKept(i, document')
                /\ \A k : /\ PathsKept(i, document, k)' <=> PathsKept(i, document', k)
                          /\ SchemasKept(i, document, k)' <=> SchemasKept(i, document', k)
<1>1. TheCommand' = TheCommand
  BY DEF TheCommand
<1>2. \A i, names : LastOfItsName(i, names)' <=> LastOfItsName(i, names)
  BY <1>1 DEF LastOfItsName
<1>3. \A i, path : Overtaken(i, path)' <=> Overtaken(i, path)
  BY <1>1 DEF Overtaken
<1>4. \A i : OperationsThere(i, document)' <=> OperationsThere(i, document')
  BY <1>1, <1>3 DEF OperationsThere
<1>5. \A i : SchemasLast(i, document)' <=> SchemasLast(i, document')
  BY <1>1, <1>2 DEF SchemasLast, Names, SchemasOf
<1>6. \A i : MeaningKept(i, document)' <=> MeaningKept(i, document')
  BY <1>1, <1>2, <1>3 DEF MeaningKept, Names, SchemasOf
<1>7. \A i, k : PathsKept(i, document, k)' <=> PathsKept(i, document', k)
  BY <1>1 DEF PathsKept, TakenBy
<1>8. \A i, k : SchemasKept(i, document, k)' <=> SchemasKept(i, document', k)
  BY <1>1 DEF SchemasKept, Names, SchemasOf
<1> QED BY <1>4, <1>5, <1>6, <1>7, <1>8 DEF DocumentKept

LEMMA SameDocument ==
  ASSUME UNCHANGED <<command, document>>
  PROVE  \A i : /\ DocumentKept(i, document)' <=> DocumentKept(i, document)
                /\ \A k : /\ PathsKept(i, document, k)' <=> PathsKept(i, document, k)
                          /\ SchemasKept(i, document, k)' <=> SchemasKept(i, document, k)
BY NextDocument

LEMMA SameComponents ==
  /\ \A r : Has(document.components, r)' <=> Has(document'.components, r)
  /\ Refers(document)' = Refers(document')
BY DEF Has, Refers, References, UsedSchemes, SchemeNames

(* How a document's schemas refer.                                         *)
LEMMA SchemasRefer ==
  ASSUME NEW d, NEW n \in Names(d)
  PROVE  \A x \in SchemasOf(d)[n].refs : FromComponents(x, d.components)
<1>1. DOMAIN <<>> = {}
  OBVIOUS
<1>2. "schemas" \in DOMAIN d.components /\ n \in DOMAIN d.components["schemas"]
      /\ SchemasOf(d) = d.components["schemas"]
  BY <1>1 DEF Names, SchemasOf
<1> QED BY <1>2 DEF FromComponents

(* A document that another one is merged into.                             *)
LEMMA DocumentMerged ==
  ASSUME NEW d, NEW next \in Documents, NEW C, DOMAIN C = {"schemas"}, C["schemas"] = MergedSchemas(d, next),
         NEW e, e.components = Over(C, d.components)
  PROVE  /\ SchemasOf(e) = Over(SchemasOf(next), SchemasOf(d))
         /\ \A r : Has(e.components, r)
                     <=> Has(d.components, r) \/ (r[1] = "schemas" /\ Has(next.components, r))
<1> DEFINE S == MergedSchemas(d, next)
<1>1. S = Over(SchemasOf(next), SchemasOf(d))
  BY DEF MergedSchemas
<1>0. DOMAIN S = DOMAIN SchemasOf(next) \cup DOMAIN SchemasOf(d)
  BY <1>1, OverIs
<1> HIDE DEF S
<1>2. "schemas" \in DOMAIN e.components /\ e.components["schemas"] = S
  BY FirstOver DEF S
<1>3. SchemasOf(e) = S
  BY <1>2 DEF SchemasOf
<1>4. Names(e) = Names(next) \cup Names(d)
  BY <1>0, <1>3 DEF Names
<1>5. ASSUME NEW r
      PROVE  Has(e.components, r) <=> Has(d.components, r) \/ (r[1] = "schemas" /\ Has(next.components, r))
  <2>1. CASE r[1] = "schemas"
    BY <2>1, <1>4, HasSchema
  <2>2. CASE r[1] # "schemas"
    BY <2>2, HasOver
  <2> QED BY <2>1, <2>2
<1> QED BY <1>1, <1>3, <1>5

(* A document that is shaken.                                              *)
LEMMA DocumentShaken ==
  ASSUME NEW d, DOMAIN d = DOMAIN Blank
  PROVE  /\ DOMAIN Shaken(d) = DOMAIN Blank
         /\ Shaken(d).paths = d.paths
         /\ Shaken(d).security = d.security
         /\ References(Shaken(d)) \subseteq References(d)
         /\ UsedSchemes(Shaken(d)) = UsedSchemes(d)
         /\ \A r : Has(Shaken(d).components, r) <=>
                     /\ Has(d.components, r)
                     /\ r[1] = "schemas" => r[2] \in Named("schemas", References(d))
                     /\ r[1] = "securitySchemes" => r[2] \in Named("securitySchemes", UsedSchemes(d))
         /\ Names(Shaken(d)) = Names(d) \cap Named("schemas", References(d))
         /\ \A n \in Names(Shaken(d)) : SchemasOf(Shaken(d))[n] = SchemasOf(d)[n]
<1> DEFINE C == d.components
           R == References(d)
           U == UsedSchemes(d)
           K == [g \in DOMAIN C |->
                   CASE g = "schemas" -> Kept(C, g, R)
                     [] g = "securitySchemes" -> Kept(C, g, U)
                     [] OTHER -> C[g]]
<1>1. /\ DOMAIN Shaken(d) = DOMAIN d
      /\ Shaken(d).paths = d.paths
      /\ Shaken(d).security = d.security
      /\ Shaken(d).components = K
  BY DEF Shaken, Blank
<1>2. UsedSchemes(Shaken(d)) = UsedSchemes(d)
  BY <1>1 DEF UsedSchemes
<1>3. \A g \in DOMAIN C :
        /\ g = "schemas" => K[g] = Kept(C, g, R)
        /\ g = "securitySchemes" => K[g] = Kept(C, g, U)
        /\ g \notin {"schemas", "securitySchemes"} => K[g] = C[g]
  OBVIOUS
<1>4. DOMAIN K = DOMAIN C
  OBVIOUS
<1>5. DOMAIN <<>> = {}
  OBVIOUS
<1> HIDE DEF K, R, U
<1>7. \A g \in DOMAIN C :
        /\ \A n \in DOMAIN K[g] : n \in DOMAIN C[g] /\ K[g][n] = C[g][n]
        /\ \A n \in DOMAIN C[g] : n \in DOMAIN K[g] <=>
             /\ g = "schemas" => n \in Named("schemas", R)
             /\ g = "securitySchemes" => n \in Named("securitySchemes", U)
  <2> SUFFICES ASSUME NEW g \in DOMAIN C
               PROVE  /\ \A n \in DOMAIN K[g] : n \in DOMAIN C[g] /\ K[g][n] = C[g][n]
                      /\ \A n \in DOMAIN C[g] : n \in DOMAIN K[g] <=>
                           /\ g = "schemas" => n \in Named("schemas", R)
                           /\ g = "securitySchemes" => n \in Named("securitySchemes", U)
    OBVIOUS
  <2>1. ASSUME NEW used, K[g] = Kept(C, g, used)
        PROVE  /\ DOMAIN K[g] = DOMAIN C[g] \cap Named(g, used)
               /\ \A n \in DOMAIN K[g] : K[g][n] = C[g][n]
    <3> DEFINE k == Kept(C, g, used)
    <3>1. DOMAIN k = DOMAIN C[g] \cap Named(g, used) /\ \A n \in DOMAIN k : k[n] = C[g][n]
      BY DEF Kept
    <3> HIDE DEF k
    <3> QED BY <3>1, <2>1 DEF k
  <2>2. CASE g \in {"schemas", "securitySchemes"}
    <3>1. K[g] = Kept(C, g, IF g = "schemas" THEN R ELSE U)
      BY <2>2, <1>3
    <3> QED BY <2>1, <2>2, <3>1
  <2>3. CASE g \notin {"schemas", "securitySchemes"}
    BY <2>3, <1>3
  <2> QED BY <2>2, <2>3
<1>8. \A x : FromComponents(x, K) => FromComponents(x, C)
  BY <1>4, <1>7 DEF FromComponents
<1>9. References(Shaken(d)) \subseteq References(d)
  BY <1>1, <1>8, ReferencesFrom
<1>10. \A r : Has(K, r) <=> /\ Has(C, r)
                            /\ r[1] = "schemas" => r[2] \in Named("schemas", R)
                            /\ r[1] = "securitySchemes" => r[2] \in Named("securitySchemes", U)
  BY <1>4, <1>7 DEF Has
<1>11. /\ Names(Shaken(d)) = Names(d) \cap Named("schemas", R)
       /\ \A n \in Names(Shaken(d)) : SchemasOf(Shaken(d))[n] = SchemasOf(d)[n]
  <2>1. CASE "schemas" \in DOMAIN C
    <3>1. SchemasOf(Shaken(d)) = K["schemas"] /\ SchemasOf(d) = C["schemas"]
      BY <2>1, <1>1, <1>4 DEF SchemasOf
    <3> QED BY <2>1, <3>1, <1>7 DEF Names
  <2>2. CASE "schemas" \notin DOMAIN C
    <3>1. SchemasOf(Shaken(d)) = <<>> /\ SchemasOf(d) = <<>>
      BY <2>2, <1>1, <1>4 DEF SchemasOf
    <3> QED BY <3>1, <1>5 DEF Names
  <2> QED BY <2>1, <2>2
<1> QED BY <1>1, <1>2, <1>9, <1>10, <1>11 DEF R, U

(* The schemas an operation means: they are closed under references, and   *)
(* are in every set of schemas that is and that has the operation's own.   *)
Among(refs, schemas1) == Named("schemas", refs) \cap DOMAIN schemas1

LEMMA MeaningIs ==
  ASSUME NEW refs, NEW given
  PROVE  LET meant == Meaning(refs, given)
         IN  /\ DOMAIN meant \subseteq DOMAIN given
             /\ Among(refs, given) \subseteq DOMAIN meant
             /\ \A n \in DOMAIN meant : /\ meant[n] = given[n]
                                        /\ Among(given[n].refs, given) \subseteq DOMAIN meant
             /\ \A S \in SUBSET DOMAIN given :
                  Among(refs, given) \subseteq S /\ (\A n \in S : Among(given[n].refs, given) \subseteq S)
                    => DOMAIN meant \subseteq S
BY DEF Meaning, Among

-----------------------------------------------------------------------------
(* The inputs that are read, in each step.                                 *)
LEMMA ApiStarts ==
  ASSUME NEW c, command' = {c}, IsCommand(c), stage' = "components",
         DOMAIN document' = DOMAIN Blank, todo' = c.components,
         c.name = "merge" => document'.security = c.documents[1].security,
         \A r : Has(document'.components, r) <=> c.name # "merge" /\ Has(c.documents[1].components, r)
  PROVE  ApiInv'
<1>1. TheCommand' = c
  BY DEF TheCommand
<1>2. \A r : /\ Own(1, r)' <=> Has(c.documents[1].components, r)
             /\ InFiles(r)' <=> \E i \in DOMAIN c.components : Has(c.components[i], r)
             /\ Has(document.components, r)' <=> Has(document'.components, r)
             /\ \A i : Has(todo[i], r)' <=> Has(c.components[i], r)
  BY <1>1 DEF Own, InFiles, Has
<1>3. Gathering'
  BY <1>1, <1>2 DEF Gathering, IsCommand
<1>4. (stage # "idle" => IsCommand(TheCommand))'
  BY <1>1 DEF IsCommand
<1> QED BY <1>1, <1>3, <1>4 DEF ApiInv, Merging, Gathered, RefsLead, MergeIsKept, Blank

LEMMA MergeKeeps ==
  ASSUME NEW documents \in Documents \X Documents, NEW components \in Seq(Shared),
         NEW way, NEW names \in Seq(STRING), NEW shakes,
         Merge(documents, components, way, names, shakes)
  PROVE  ApiInv'
<1> DEFINE c == [name |-> "merge", documents |-> documents, components |-> components,
                 mode |-> way, names |-> names, shakes |-> shakes]
<1>1. /\ c.documents = documents /\ c.components = components /\ c.names = names /\ c.name = "merge"
      /\ command' = {c} /\ stage' = "components" /\ todo' = components
      /\ document' = [Blank EXCEPT !.security = documents[1].security,
                                   !.components = [g \in {"schemas"} |-> <<>>]]
  BY DEF Merge
<1>2. /\ DOMAIN document' = DOMAIN Blank
      /\ document'.security = documents[1].security
      /\ document'.components = [g \in {"schemas"} |-> <<>>]
  BY <1>1 DEF Blank
<1>3. DOMAIN <<>> = {}
  OBVIOUS
<1>4. documents \in Seq(Documents) /\ documents # <<>>
  <2>1. PICK d \in Documents, e \in Documents : documents = <<d, e>>
    OBVIOUS
  <2> QED BY <2>1
<1> HIDE DEF c
<1>5. \A r : ~ Has(document'.components, r)
  BY <1>2, <1>3 DEF Has
<1>6. IsCommand(c)
  BY <1>1, <1>4 DEF IsCommand
<1> QED BY <1>1, <1>2, <1>5, <1>6, ApiStarts

LEMMA GenerateKeeps ==
  ASSUME NEW kind \in {"schema", "client", "nestjs", "istio"}, NEW d \in Documents,
         NEW components \in Seq(Shared), Generate(kind, d, components)
  PROVE  ApiInv'
<1> DEFINE c == [name |-> kind, documents |-> <<d>>, components |-> components,
                 mode |-> "none", names |-> <<>>, shakes |-> TRUE]
<1>1. /\ c.documents = <<d>> /\ c.components = components /\ c.names = <<>> /\ c.name # "merge"
      /\ command' = {c} /\ stage' = "components" /\ todo' = components /\ document' = d
  BY DEF Generate
<1>2. DOMAIN document' = DOMAIN Blank
  BY <1>1, DocumentsAssumption DEF Blank
<1>3. <<d>> \in Seq(Documents) /\ <<d>> # <<>> /\ Len(<<d>>) = 1 /\ <<>> \in Seq(STRING)
  OBVIOUS
<1> HIDE DEF c
<1>4. IsCommand(c)
  BY <1>1, <1>3 DEF IsCommand
<1>5. c.documents[1] = document'
  BY <1>1
<1> QED BY <1>1, <1>2, <1>4, <1>5, ApiStarts

LEMMA MergeComponentsKeeps ==
  ASSUME ApiInv, MergeComponents
  PROVE  ApiInv'
<1> DEFINE InputFiles == {TheCommand.components[i] : i \in DOMAIN TheCommand.components}
           file == Head(todo)
<1>1. /\ stage = "components" /\ stage' = stage /\ UNCHANGED command /\ todo # <<>>
      /\ todo' = Tail(todo)
      /\ document' = [document EXCEPT !.components = MergedGroups(document, file)]
  BY DEF MergeComponents
<1>2. /\ todo \in Seq(InputFiles)
      /\ TheCommand.name = "merge" => document.security = TheCommand.documents[1].security
      /\ \A r : Has(document.components, r) \/ (\E i \in DOMAIN todo : Has(todo[i], r))
                  <=> (TheCommand.name # "merge" /\ Own(1, r)) \/ InFiles(r)
  BY <1>1 DEF ApiInv, Gathering
<1>3. /\ todo' \in Seq(InputFiles)
      /\ {todo[i] : i \in DOMAIN todo} = {file} \cup {todo'[i] : i \in DOMAIN todo'}
  BY <1>1, <1>2, HeadAndRest
<1>4. /\ DOMAIN document' = DOMAIN Blank
      /\ document'.security = document.security
      /\ document'.components = MergedGroups(document, file)
  BY <1>1 DEF ApiInv, Blank
<1>5. ASSUME NEW r
      PROVE  Has(document'.components, r) \/ (\E i \in DOMAIN todo' : Has(todo'[i], r))
               <=> (TheCommand.name # "merge" /\ Own(1, r)) \/ InFiles(r)
  <2>1. Has(document'.components, r) <=> Has(document.components, r) \/ Has(file, r)
    BY <1>4, HasMerged
  <2>2. (\E i \in DOMAIN todo : Has(todo[i], r)) <=> \E f \in {todo[i] : i \in DOMAIN todo} : Has(f, r)
    OBVIOUS
  <2>3. (\E i \in DOMAIN todo' : Has(todo'[i], r)) <=> \E f \in {todo'[i] : i \in DOMAIN todo'} : Has(f, r)
    OBVIOUS
  <2> HIDE DEF file
  <2>4. (\E i \in DOMAIN todo : Has(todo[i], r)) <=> Has(file, r) \/ \E i \in DOMAIN todo' : Has(todo'[i], r)
    BY <2>2, <2>3, <1>3
  <2> QED BY <2>1, <2>4, <1>2
<1>6. \A r : /\ Has(document.components, r)' <=> Has(document'.components, r)
             /\ \A i : Has(todo[i], r)' <=> Has(todo'[i], r)
  BY DEF Has
<1>7. Gathering'
  BY <1>1, <1>2, <1>3, <1>4, <1>5, <1>6, SameCommand DEF Gathering
<1>8. (stage # "idle" => IsCommand(TheCommand))'
  BY <1>1, SameCommand DEF ApiInv, IsCommand
<1> QED BY <1>1, <1>4, <1>7, <1>8 DEF ApiInv, Merging, Gathered, RefsLead, MergeIsKept, Blank

LEMMA MergeFirstComponentsKeeps ==
  ASSUME ApiInv, MergeFirstComponents
  PROVE  ApiInv'
<1> DEFINE first == TheCommand.documents[1]
<1>1. stage = "components" /\ todo = <<>> /\ UNCHANGED command
  BY DEF MergeFirstComponents
<1>2. /\ IsCommand(TheCommand)
      /\ TheCommand.name = "merge" => document.security = first.security
      /\ \A r : Has(document.components, r) <=> (TheCommand.name # "merge" /\ Own(1, r)) \/ InFiles(r)
  <2>1. DOMAIN todo = {}
    BY <1>1
  <2> QED BY <1>1, <2>1 DEF ApiInv, Gathering
<1>3. IsCommand(TheCommand)'
  BY <1>1, <1>2, SameCommand DEF IsCommand
<1>4. CASE TheCommand.name = "merge"
  <2>1. /\ document' = [document EXCEPT !.components = Over(first.components, @)]
        /\ todo' = TheCommand.documents /\ stage' = "paths"
    BY <1>4 DEF MergeFirstComponents
  <2>2. /\ DOMAIN document' = DOMAIN Blank
        /\ document'.security = document.security
        /\ document'.components = Over(first.components, document.components)
    BY <2>1 DEF ApiInv, Blank
  <2>3. \A r : Has(document'.components, r) <=> InFirst(r)
    <3> SUFFICES ASSUME NEW r PROVE Has(document'.components, r) <=> InFirst(r)
      OBVIOUS
    <3>1. Has(first.components, r) => r[1] \in DOMAIN first.components
      BY DEF Has
    <3>2. Has(document'.components, r)
            <=> IF r[1] \in DOMAIN first.components THEN Has(first.components, r) ELSE Has(document.components, r)
      BY <2>2, HasOver
    <3> QED BY <1>2, <1>4, <3>1, <3>2 DEF InFirst, Own
  <2>4. Merging'
    <3>1. todo' \in Seq(Documents) /\ Len(TheCommand.documents) \in Nat
      BY <1>2, <2>1 DEF IsCommand
    <3>2. Merged' = 0
      BY <1>1, <2>1, <3>1, SameCommand DEF Merged
    <3>3. \A j \in DOMAIN todo' : todo'[j] = TheCommand.documents[0 + j]
      BY <2>1, <3>1
    <3>4. \A r : Has(document.components, r)' <=> InFirst(r)'
      BY <1>1, <2>3, SameCommand, SameComponents
    <3>5. document'.security = TheCommand.documents[1].security
      BY <1>2, <1>4, <2>2
    <3> QED BY <1>1, <1>4, <2>1, <3>1, <3>2, <3>3, <3>4, <3>5, SameCommand DEF Merging
  <2> QED BY <1>3, <2>1, <2>2, <2>4 DEF ApiInv, Gathering, Gathered, RefsLead, MergeIsKept, Blank
<1>5. CASE TheCommand.name # "merge"
  <2>1. UNCHANGED document /\ stage' = "shake"
    BY <1>5 DEF MergeFirstComponents
  <2>2. \A r : Has(document'.components, r) <=> Survives(r)
    BY <1>2, <1>5, <2>1 DEF Survives, Own, InFiles
  <2>3. Gathered'
    BY <1>1, <2>2, SameCommand, SameComponents DEF Gathered
  <2>4. TheCommand'.name # "merge"
    BY <1>1, <1>5, SameCommand
  <2> QED BY <1>3, <2>1, <2>3, <2>4 DEF ApiInv, Gathering, Merging, RefsLead, MergeIsKept, Blank
<1> QED BY <1>4, <1>5

LEMMA PrefixIsSeq ==
  ASSUME IsCommand(TheCommand), NEW i \in DOMAIN TheCommand.documents,
         TheCommand.mode = "custom" => Len(TheCommand.names) = Len(TheCommand.documents)
  PROVE  PrefixOf(TheCommand, i) \in Seq(STRING)
<1>1. /\ TheCommand.documents[i] \in Documents
      /\ TheCommand.mode = "custom" => TheCommand.names[i] \in STRING
  BY DEF IsCommand
<1>2. TheCommand.documents[i].name \in STRING
  BY <1>1, DocumentsAssumption
<1>3. CASE TheCommand.mode = "filename"
  BY <1>2, <1>3 DEF PrefixOf
<1>4. CASE TheCommand.mode = "custom"
  BY <1>1, <1>4 DEF PrefixOf
<1>5. CASE TheCommand.mode \notin {"filename", "custom"}
  <2>1. PrefixOf(TheCommand, i) = <<>>
    BY <1>5 DEF PrefixOf
  <2> QED BY <2>1
<1> QED BY <1>3, <1>4, <1>5

LEMMA MergeDocumentKeeps ==
  ASSUME ApiInv, MergeDocument
  PROVE  ApiInv'
<1> DEFINE c == TheCommand
           k == Merged
           next == Head(todo)
           prefix == PrefixOf(c, k + 1)
<1>1. /\ stage = "paths" /\ stage' = stage /\ todo # <<>> /\ todo' = Tail(todo) /\ UNCHANGED command
      /\ c.mode = "custom" => Len(c.names) = Len(c.documents)
      /\ document' = [document EXCEPT
                        !.paths = Over(Prefixed(PrefixOf(TheCommand, Index), next.paths), @),
                        !.components = Over([g \in {"schemas"} |-> MergedSchemas(document, next)], @)]
  BY DEF MergeDocument
<1>2. /\ IsCommand(c) /\ Merging /\ DOMAIN document = DOMAIN Blank
      /\ document.security = c.documents[1].security
  BY <1>1 DEF ApiInv, Merging
<1>3. /\ todo \in Seq(Documents) /\ Len(todo) <= Len(c.documents)
      /\ \A j \in DOMAIN todo : todo[j] = c.documents[k + j]
      /\ c.name = "merge"
  BY <1>1, <1>2 DEF Merging
<1>4. /\ k \in Nat /\ Index = k + 1 /\ k + 1 \in DOMAIN c.documents /\ next = c.documents[k + 1]
      /\ next \in Documents
      /\ Len(c.documents) \in Nat /\ DOMAIN c.documents = 1 .. Len(c.documents)
  <2>1. /\ Len(todo) \in Nat /\ Len(todo) > 0 /\ Head(todo) = todo[1] /\ 1 \in DOMAIN todo
        /\ Len(c.documents) \in Nat /\ DOMAIN c.documents = 1 .. Len(c.documents)
    BY <1>1, <1>2, <1>3 DEF IsCommand
  <2>2. k \in Nat /\ Index = k + 1 /\ k + 1 \in DOMAIN c.documents
    BY <1>3, <2>1 DEF Merged, Index
  <2>3. next = c.documents[k + 1] /\ c.documents[k + 1] \in Documents
    BY <1>2, <1>3, <2>1, <2>2 DEF IsCommand
  <2> QED BY <2>1, <2>2, <2>3
<1>5. /\ todo' \in Seq(Documents) /\ Len(todo') <= Len(c.documents)
      /\ Len(c.documents) - Len(todo') = k + 1
      /\ \A j \in DOMAIN todo' : todo'[j] = c.documents[k + 1 + j]
  <2>1. /\ todo' \in Seq(Documents) /\ Len(todo') = Len(todo) - 1 /\ Len(todo) \in Nat
        /\ \A j \in DOMAIN todo' : todo'[j] = todo[j + 1] /\ j + 1 \in DOMAIN todo /\ j \in Nat
    BY <1>1, <1>3
  <2>2. \A j \in DOMAIN todo' : todo'[j] = c.documents[k + (j + 1)]
    BY <2>1, <1>3
  <2>3. \A j \in DOMAIN todo' : k + (j + 1) = k + 1 + j
    BY <2>1, <1>4
  <2>4. \A j \in DOMAIN todo' : todo'[j] = c.documents[k + 1 + j]
    BY <2>2, <2>3
  <2>5. Len(c.documents) - Len(todo') = k + 1 /\ Len(todo') <= Len(c.documents)
    BY <2>1, <1>3, <1>4 DEF Merged
  <2> QED BY <2>1, <2>4, <2>5
<1>6. prefix \in Seq(STRING)
  BY <1>1, <1>2, <1>4, PrefixIsSeq
<1>7. /\ DOMAIN document' = DOMAIN Blank
      /\ document'.security = document.security
      /\ document'.paths = Over(Prefixed(prefix, next.paths), document.paths)
      /\ SchemasOf(document') = Over(SchemasOf(next), SchemasOf(document))
      /\ \A r : Has(document'.components, r)
                  <=> Has(document.components, r) \/ (r[1] = "schemas" /\ Has(next.components, r))
  <2> HIDE DEF next, prefix
  <2> DEFINE C == [g \in {"schemas"} |-> MergedSchemas(document, next)]
  <2>1. /\ DOMAIN document' = DOMAIN Blank
        /\ document'.security = document.security
        /\ document'.paths = Over(Prefixed(prefix, next.paths), document.paths)
        /\ document'.components = Over(C, document.components)
    BY <1>1, <1>2, <1>4 DEF prefix, Blank
  <2>2. DOMAIN C = {"schemas"} /\ C["schemas"] = MergedSchemas(document, next)
    OBVIOUS
  <2> HIDE DEF C
  <2> QED BY <2>1, <2>2, <1>4, DocumentMerged
<1> HIDE DEF next, prefix
<1>8. ASSUME NEW i \in 1 .. k
      PROVE  PathsKept(i, document', k + 1) /\ SchemasKept(i, document', k + 1)
  <2>1. i \in DOMAIN c.documents /\ k + 1 \in i + 1 .. k + 1
        /\ \A j \in i + 1 .. k : j \in i + 1 .. k + 1
    BY <1>4, <1>8
  <2>2. PathsKept(i, document, k) /\ SchemasKept(i, document, k)
    BY <1>1, <1>2 DEF Merging
  <2>3. ASSUME NEW p \in DOMAIN c.documents[i].paths,
               \A j \in i + 1 .. k + 1 : ~ TakenBy(j, PrefixOf(c, i) \o p)
        PROVE  /\ PrefixOf(c, i) \o p \in DOMAIN document'.paths
               /\ document'.paths[PrefixOf(c, i) \o p] = c.documents[i].paths[p]
    <3> DEFINE there == PrefixOf(c, i) \o p
    <3>1. there \in DOMAIN document.paths /\ document.paths[there] = c.documents[i].paths[p]
      BY <2>1, <2>2, <2>3 DEF PathsKept
    <3>2. there \notin DOMAIN Prefixed(prefix, next.paths)
      BY <2>1, <2>3, <1>4 DEF Prefixed, TakenBy, prefix
    <3> HIDE DEF there
    <3>3. there \in DOMAIN document'.paths /\ document'.paths[there] = document.paths[there]
      BY <3>1, <3>2, <1>7 DEF Over
    <3> QED BY <3>1, <3>3 DEF there
  <2>4. ASSUME NEW n \in Names(c.documents[i]),
               \A j \in i + 1 .. k + 1 : n \notin Names(c.documents[j])
        PROVE  n \in Names(document') /\ SchemasOf(document')[n] = SchemasOf(c.documents[i])[n]
    <3>1. n \notin Names(next)
      BY <2>1, <2>4, <1>4
    <3>2. n \in Names(document) /\ SchemasOf(document)[n] = SchemasOf(c.documents[i])[n]
      BY <2>1, <2>2, <2>4 DEF SchemasKept
    <3> QED BY <3>1, <3>2, <1>7 DEF Over, Names
  <2> QED BY <2>3, <2>4 DEF PathsKept, SchemasKept
<1>9. PathsKept(k + 1, document', k + 1) /\ SchemasKept(k + 1, document', k + 1)
  <2>1. ASSUME NEW p \in DOMAIN next.paths
        PROVE  /\ prefix \o p \in DOMAIN document'.paths
               /\ document'.paths[prefix \o p] = next.paths[p]
    <3>1. /\ prefix \o p \in DOMAIN Prefixed(prefix, next.paths)
          /\ Prefixed(prefix, next.paths)[prefix \o p] = next.paths[p]
      BY <1>4, <1>6, PrefixedIs
    <3> QED BY <3>1, <1>7, FirstOver
  <2>2. ASSUME NEW n \in Names(next)
        PROVE  n \in Names(document') /\ SchemasOf(document')[n] = SchemasOf(next)[n]
    BY <1>7, FirstOver DEF Names
  <2> QED BY <2>1, <2>2, <1>4 DEF PathsKept, SchemasKept, prefix
<1>10. \A i \in 1 .. k + 1 : PathsKept(i, document', k + 1) /\ SchemasKept(i, document', k + 1)
  BY <1>4, <1>8, <1>9
<1>11. \A r : Has(document'.components, r)
                <=> InFirst(r) \/ (r[1] = "schemas" /\ \E i \in 1 .. k + 1 : Own(i, r))
  <2> SUFFICES ASSUME NEW r
               PROVE  Has(document'.components, r)
                        <=> InFirst(r) \/ (r[1] = "schemas" /\ \E i \in 1 .. k + 1 : Own(i, r))
    OBVIOUS
  <2>1. Has(document.components, r) <=> InFirst(r) \/ (r[1] = "schemas" /\ \E i \in 1 .. k : Own(i, r))
    BY <1>1, <1>2 DEF Merging
  <2>2. Has(next.components, r) <=> Own(k + 1, r)
    BY <1>4 DEF Own
  <2>3. (\E i \in 1 .. k + 1 : Own(i, r)) <=> (\E i \in 1 .. k : Own(i, r)) \/ Own(k + 1, r)
    BY <1>4
  <2> QED BY <2>1, <2>2, <2>3, <1>7
<1>12. Merged' = k + 1
  BY <1>1, <1>5, SameCommand DEF Merged
<1>13. Merging'
  <2>1. (\A i \in 1 .. Merged : PathsKept(i, document, Merged) /\ SchemasKept(i, document, Merged))'
    <3>1. \A i : /\ PathsKept(i, document, Merged)' <=> PathsKept(i, document', Merged')
                 /\ SchemasKept(i, document, Merged)' <=> SchemasKept(i, document', Merged')
      <4>1. TheCommand' = TheCommand
        BY <1>1, SameCommand
      <4>2. \A i : PathsKept(i, document, Merged)' <=> PathsKept(i, document', Merged')
        BY <4>1 DEF PathsKept, TakenBy
      <4>3. \A i : SchemasKept(i, document, Merged)' <=> SchemasKept(i, document', Merged')
        BY <4>1 DEF SchemasKept, Names, SchemasOf
      <4> QED BY <4>2, <4>3
    <3> HIDE DEF k
    <3> QED BY <1>10, <1>12, <3>1
  <2>2. \A r : /\ Has(document.components, r)' <=> Has(document'.components, r)
               /\ InFirst(r)' <=> InFirst(r)
               /\ \A i : Own(i, r)' <=> Own(i, r)
    BY <1>1, SameCommand, SameComponents
  <2>3. (\A r : Has(document.components, r)
                  <=> InFirst(r) \/ (r[1] = "schemas" /\ \E i \in 1 .. Merged : Own(i, r)))'
    <3> HIDE DEF k
    <3> QED BY <1>11, <1>12, <2>2
  <2>4. TheCommand' = c
    BY <1>1, SameCommand
  <2> HIDE DEF k
  <2> QED BY <1>1, <1>2, <1>3, <1>5, <1>7, <1>12, <2>1, <2>3, <2>4 DEF Merging
<1>14. IsCommand(TheCommand)'
  BY <1>1, <1>2, SameCommand DEF IsCommand
<1> QED BY <1>1, <1>7, <1>13, <1>14 DEF ApiInv, Gathering, Gathered, RefsLead, MergeIsKept, Blank

LEMMA EndMergeKeeps ==
  ASSUME ApiInv, EndMerge
  PROVE  ApiInv'
<1> DEFINE c == TheCommand
<1>1. stage = "paths" /\ todo = <<>> /\ stage' \in {"shake", "write"} /\ UNCHANGED <<command, document>>
  BY DEF EndMerge
<1>2. IsCommand(c) /\ Merging /\ c.name = "merge" /\ document.security = c.documents[1].security
  BY <1>1 DEF ApiInv, Merging
<1>3. Merged = Len(c.documents) /\ DOMAIN c.documents = 1 .. Len(c.documents) /\ Len(c.documents) \in Nat
  BY <1>1, <1>2 DEF Merged, IsCommand
<1>4. \A r : Has(document.components, r) <=> Survives(r)
  BY <1>1, <1>2, <1>3 DEF Merging, Survives, InFirst, Own, InFiles
<1>5. ASSUME NEW i \in DOMAIN c.documents PROVE DocumentKept(i, document)
  <2>1. PathsKept(i, document, Len(c.documents)) /\ SchemasKept(i, document, Len(c.documents))
    BY <1>1, <1>2, <1>3, <1>5 DEF Merging
  <2>2. \A j \in i + 1 .. Len(c.documents) : j \in DOMAIN c.documents /\ j > i
    BY <1>3, <1>5
  <2>3. OperationsThere(i, document)
    <3>1. \A path : (\E j \in i + 1 .. Len(c.documents) : TakenBy(j, path)) => Overtaken(i, path)
      BY <2>2 DEF TakenBy, Overtaken
    <3> QED BY <2>1, <3>1 DEF PathsKept, OperationsThere
  <2>4. ASSUME NEW n \in Names(c.documents[i]), NEW names, n \in names, LastOfItsName(i, names)
        PROVE  n \in Names(document) /\ SchemasOf(document)[n] = SchemasOf(c.documents[i])[n]
    <3>1. \A j \in i + 1 .. Len(c.documents) : n \notin Names(c.documents[j])
      BY <2>2, <2>4 DEF LastOfItsName, Names
    <3> QED BY <3>1, <2>1 DEF SchemasKept
  <2>5. SchemasLast(i, document)
    BY <2>4 DEF SchemasLast
  <2>6. MeaningKept(i, document)
    <3>1. ASSUME NEW p \in DOMAIN c.documents[i].paths, NEW m \in DOMAIN c.documents[i].paths[p],
                 LastOfItsName(i, DOMAIN Meaning(c.documents[i].paths[p][m].refs, SchemasOf(c.documents[i]))),
                 NEW n \in DOMAIN Meaning(c.documents[i].paths[p][m].refs, SchemasOf(c.documents[i]))
          PROVE  /\ n \in Names(document)
                 /\ SchemasOf(document)[n]
                      = Meaning(c.documents[i].paths[p][m].refs, SchemasOf(c.documents[i]))[n]
      <4>1. /\ n \in Names(c.documents[i])
            /\ Meaning(c.documents[i].paths[p][m].refs, SchemasOf(c.documents[i]))[n]
                 = SchemasOf(c.documents[i])[n]
        BY <3>1, MeaningIs DEF Names
      <4> QED BY <4>1, <3>1, <2>4
    <3> QED BY <3>1 DEF MeaningKept
  <2> QED BY <2>3, <2>5, <2>6 DEF DocumentKept
<1>6. Gathered'
  BY <1>1, <1>4, SameCommand, SameComponents DEF Gathered
<1>7. RefsLead'
  BY <1>1, <1>4, SameCommand, SameComponents DEF RefsLead
<1>8. MergeIsKept'
  BY <1>1, <1>2, <1>5, SameCommand, SameDocument DEF MergeIsKept
<1>9. IsCommand(TheCommand)'
  BY <1>1, <1>2, SameCommand DEF IsCommand
<1>10. DOMAIN document' = DOMAIN Blank
  BY <1>1 DEF ApiInv
<1> QED BY <1>1, <1>6, <1>7, <1>8, <1>9, <1>10 DEF ApiInv, Gathering, Merging, Blank

(* What an operation means is referred to, from where it is.               *)
LEMMA MeaningIsReferred ==
  ASSUME NEW d, NEW refs, NEW given, refs \subseteq References(d),
         \A k \in DOMAIN Meaning(refs, given) :
           k \in Names(d) /\ SchemasOf(d)[k] = Meaning(refs, given)[k]
  PROVE  DOMAIN Meaning(refs, given) \subseteq Named("schemas", References(d))
<1> DEFINE M == Meaning(refs, given)
           R == Named("schemas", References(d))
           S == DOMAIN M \cap R
<1>1. /\ DOMAIN M \subseteq DOMAIN given
      /\ Among(refs, given) \subseteq DOMAIN M
      /\ \A k \in DOMAIN M : M[k] = given[k] /\ Among(given[k].refs, given) \subseteq DOMAIN M
      /\ \A T \in SUBSET DOMAIN given :
           Among(refs, given) \subseteq T /\ (\A k \in T : Among(given[k].refs, given) \subseteq T)
             => DOMAIN M \subseteq T
  BY MeaningIs
<1> HIDE DEF M
<1>2. \A k \in DOMAIN M : k \in Names(d) /\ SchemasOf(d)[k] = M[k]
  BY DEF M
<1>3. \A k \in DOMAIN M : M[k].refs \subseteq References(d)
  <2> SUFFICES ASSUME NEW k \in DOMAIN M, NEW x \in M[k].refs PROVE x \in References(d)
    OBVIOUS
  <2>1. FromComponents(x, d.components)
    BY <1>2, SchemasRefer
  <2> QED BY <2>1, ReferencesFrom
<1>4. ASSUME NEW some, some \subseteq References(d) PROVE Among(some, given) \subseteq R
  BY <1>4, NamedIs DEF Among
<1> HIDE DEF R
<1>5. S \in SUBSET DOMAIN given /\ Among(refs, given) \subseteq S
  BY <1>1, <1>4
<1>6. \A k \in S : Among(given[k].refs, given) \subseteq S
  BY <1>1, <1>3, <1>4
<1>7. DOMAIN M \subseteq S
  BY <1>1, <1>5, <1>6
<1> QED BY <1>7 DEF M, R

(* Shaking leaves what is there of a document's operations and schemas.    *)
LEMMA DocumentStays ==
  ASSUME NEW d, DOMAIN d = DOMAIN Blank, NEW i, DocumentKept(i, d)
  PROVE  DocumentKept(i, Shaken(d))
<1>1. /\ Names(Shaken(d)) = Names(d) \cap Named("schemas", References(d))
      /\ \A k \in Names(Shaken(d)) : SchemasOf(Shaken(d))[k] = SchemasOf(d)[k]
      /\ Shaken(d).paths = d.paths
  BY DocumentShaken
<1>2. OperationsThere(i, Shaken(d))
  BY <1>1 DEF DocumentKept, OperationsThere
<1>3. SchemasLast(i, Shaken(d))
  BY <1>1 DEF DocumentKept, SchemasLast
<1>4. ASSUME NEW p \in DOMAIN TheCommand.documents[i].paths,
             ~ Overtaken(i, PrefixOf(TheCommand, i) \o p),
             NEW m \in DOMAIN TheCommand.documents[i].paths[p],
             NEW refs, refs = TheCommand.documents[i].paths[p][m].refs,
             NEW given, given = SchemasOf(TheCommand.documents[i]),
             LastOfItsName(i, DOMAIN Meaning(refs, given)),
             NEW n \in DOMAIN Meaning(refs, given)
      PROVE  n \in Names(Shaken(d)) /\ SchemasOf(Shaken(d))[n] = Meaning(refs, given)[n]
  <2>1. refs \subseteq References(d)
    <3>1. \A x \in refs : FromPaths(x, d.paths)
      BY <1>4, SMTT(30) DEF DocumentKept, OperationsThere, FromPaths
    <3> QED BY <3>1, ReferencesFrom, SMTT(30)
  <2>2. \A k \in DOMAIN Meaning(refs, given) :
           k \in Names(d) /\ SchemasOf(d)[k] = Meaning(refs, given)[k]
    BY <1>4, SMTT(30) DEF DocumentKept, MeaningKept
  <2>3. n \in Names(d) \cap Named("schemas", References(d))
    BY <1>4, <2>1, <2>2, MeaningIsReferred
  <2>4. n \in Names(Shaken(d)) /\ SchemasOf(Shaken(d))[n] = SchemasOf(d)[n]
    BY <1>1, <2>3
  <2>5. SchemasOf(d)[n] = Meaning(refs, given)[n]
    BY <1>4, <2>2
  <2> QED BY <2>4, <2>5
<1>5. MeaningKept(i, Shaken(d))
  BY <1>4, SMTT(30) DEF MeaningKept
<1> QED BY <1>2, <1>3, <1>5 DEF DocumentKept

LEMMA TreeShakeKeeps ==
  ASSUME ApiInv, TreeShake
  PROVE  ApiInv'
<1>1. /\ stage = "shake" /\ stage' \in {"validate", "write"} /\ UNCHANGED command
      /\ document' = Shaken(document)
  BY DEF TreeShake
<1>2. /\ DOMAIN document = DOMAIN Blank /\ IsCommand(TheCommand)
      /\ \A r : Has(document.components, r) <=> Survives(r)
  BY <1>1 DEF ApiInv, Gathered
<1>3. /\ DOMAIN document' = DOMAIN Blank
      /\ document'.security = document.security
  BY <1>1, <1>2, DocumentShaken
<1>4. ASSUME NEW r \in Refers(document')
      PROVE  Has(document'.components, r) <=> Survives(r)
  <2>1. /\ References(document') \subseteq References(document)
        /\ UsedSchemes(document') = UsedSchemes(document)
        /\ Has(document'.components, r) <=>
             /\ Has(document.components, r)
             /\ r[1] = "schemas" => r[2] \in Named("schemas", References(document))
             /\ r[1] = "securitySchemes" => r[2] \in Named("securitySchemes", UsedSchemes(document))
    BY <1>1, <1>2, DocumentShaken
  <2>2. CASE r \in References(document') /\ r[1] # "securitySchemes"
    <3>1. r[1] = "schemas" => r[2] \in Named("schemas", References(document))
      BY <2>1, <2>2, NamedIs
    <3> QED BY <1>2, <2>1, <2>2, <3>1
  <2>3. CASE r \in UsedSchemes(document')
    <3>1. r[1] = "securitySchemes"
      BY <2>3 DEF UsedSchemes
    <3>2. r[2] \in Named("securitySchemes", UsedSchemes(document))
      BY <2>1, <2>3, <3>1, NamedIs
    <3> QED BY <1>2, <2>1, <3>1, <3>2
  <2> QED BY <2>2, <2>3 DEF Refers
<1>5. RefsLead'
  BY <1>1, <1>4, SameCommand, SameComponents DEF RefsLead
<1>6. MergeIsKept'
  <2>1. ASSUME TheCommand.name = "merge"
        PROVE  /\ document'.security = TheCommand.documents[1].security
               /\ \A i \in DOMAIN TheCommand.documents : DocumentKept(i, document')
    BY <1>1, <1>2, <1>3, <2>1, DocumentStays DEF ApiInv, MergeIsKept
  <2> QED BY <1>1, <2>1, SameCommand, NextDocument DEF MergeIsKept
<1>7. IsCommand(TheCommand)'
  BY <1>1, <1>2, SameCommand DEF IsCommand
<1> QED BY <1>1, <1>3, <1>5, <1>6, <1>7 DEF ApiInv, Gathering, Merging, Gathered, Blank

(* The steps that change nothing but how far the command is.               *)
LEMMA StageKeeps ==
  ASSUME ApiInv, UNCHANGED <<command, document, todo>>,
         \/ UNCHANGED stage
         \/ stage' = "failed" /\ stage # "idle"
         \/ stage = "validate" /\ stage' = "write"
         \/ stage \in {"write", "client"} /\ stage' \in {"client", "done"}
  PROVE  ApiInv'
<1>1. (stage # "idle" => IsCommand(TheCommand))'
  BY SameCommand DEF ApiInv, IsCommand
<1>2. TheCommand' = TheCommand /\ Merged' = Merged
  BY SameCommand DEF Merged
<1>3. Gathering'
  <2>1. \A r, i : Has(todo[i], r)' <=> Has(todo[i], r)
    BY DEF Has
  <2> QED BY <1>2, <2>1, SameCommand, SameComponents DEF ApiInv, Gathering
<1>4. Merging'
  <2>1. \A i : /\ PathsKept(i, document, Merged)' <=> PathsKept(i, document, Merged)
               /\ SchemasKept(i, document, Merged)' <=> SchemasKept(i, document, Merged)
    BY <1>2 DEF PathsKept, SchemasKept, TakenBy, Names, SchemasOf
  <2> QED BY <1>2, <2>1, SameCommand, SameComponents DEF ApiInv, Merging
<1>5. Gathered' /\ RefsLead'
  BY SameCommand, SameComponents DEF ApiInv, Gathered, RefsLead
<1>6. MergeIsKept'
  BY <1>2, SameCommand, SameDocument DEF ApiInv, MergeIsKept
<1> QED BY <1>1, <1>3, <1>4, <1>5, <1>6 DEF ApiInv, Blank

LEMMA OneFileOrNone ==
  ASSUME NEW cs \in {<<>>} \cup {<<c>> : c \in Shared}
  PROVE  cs \in Seq(Shared)
<1>1. CASE cs = <<>>
  BY <1>1
<1>2. ASSUME NEW c \in Shared, cs = <<c>> PROVE cs \in Seq(Shared)
  BY <1>2
<1> QED BY <1>1, <1>2

LEMMA ApiStep == ApiInv /\ [ApiNext]_apiVars => ApiInv'
<1> SUFFICES ASSUME ApiInv, [ApiNext]_apiVars PROVE ApiInv'
  OBVIOUS
<1>1. ASSUME NEW ds \in Documents \X Documents, NEW cs \in {<<>>} \cup {<<c>> : c \in Shared},
             NEW way, NEW shakes, Merge(ds, cs, way, <<>>, shakes)
      PROVE  ApiInv'
  <2>1. cs \in Seq(Shared)
    BY OneFileOrNone
  <2>2. <<>> \in Seq(STRING)
    OBVIOUS
  <2> QED BY <1>1, <2>1, <2>2, MergeKeeps
<1>2. ASSUME NEW ds \in Documents \X Documents, NEW names \in {<<>>} \cup PrefixNames \X PrefixNames,
             Merge(ds, <<>>, "custom", names, TRUE)
      PROVE  ApiInv'
  <2>1. names \in Seq(STRING)
    <3>1. CASE names = <<>>
      BY <3>1
    <3>2. ASSUME NEW a \in PrefixNames, NEW b \in PrefixNames, names = <<a, b>> PROVE names \in Seq(STRING)
      BY <3>2, DocumentsAssumption
    <3> QED BY <3>1, <3>2
  <2>2. <<>> \in Seq(Shared)
    OBVIOUS
  <2> QED BY <1>2, <2>1, <2>2, MergeKeeps
<1>3. ASSUME NEW kind \in {"schema", "client", "nestjs", "istio"}, NEW d \in Documents,
             NEW cs \in {<<>>} \cup {<<c>> : c \in Shared}, Generate(kind, d, cs)
      PROVE  ApiInv'
  <2>1. cs \in Seq(Shared)
    BY OneFileOrNone
  <2> QED BY <1>3, <2>1, GenerateKeeps
<1>4. CASE Refuse
  BY <1>4, StageKeeps DEF Refuse
<1>5. CASE Validate
  BY <1>5, StageKeeps DEF Validate
<1>6. CASE WriteSchema \/ WriteModule \/ WritePolicy \/ WriteClientApi
  BY <1>6, StageKeeps DEF WriteSchema, WriteModule, WritePolicy, WriteClientApi, Write
<1>7. CASE GenerateClient
  BY <1>7, StageKeeps DEF GenerateClient
<1>8. CASE UNCHANGED apiVars
  BY <1>8, StageKeeps DEF apiVars
<1> QED BY <1>1, <1>2, <1>3, <1>4, <1>5, <1>6, <1>7, <1>8, MergeComponentsKeeps, MergeFirstComponentsKeeps,
           MergeDocumentKeeps, EndMergeKeeps, TreeShakeKeeps DEF ApiNext

LEMMA AlwaysApiInv == ApiSpec => []ApiInv
BY ApiStart, ApiStep, PTL DEF ApiSpec

(* A reference of what is written leads to a component exactly when the    *)
(* merge keeps what it names (see Survives): the first document's, the     *)
(* shared ones in groups it has not, and the schemas of every document.    *)
THEOREM ReferencesLeadToTheKept == ApiSpec => []ReferencesLead
<1>1. ApiInv => ReferencesLead
  BY SMTT(30) DEF ApiInv, RefsLead, ReferencesLead
<1> QED BY <1>1, AlwaysApiInv, PTL

(* A merge keeps every operation that no later document overtakes, under   *)
(* its prefix, secured by what it declares or else by the first document's *)
(* root, and with the schemas it has unless one is redefined; and of the   *)
(* schemas of one name, the last.                                          *)
THEOREM OperationsStay == ApiSpec => []OperationsAreKept
<1>1. ASSUME ApiInv, stage = "done", TheCommand.name = "merge",
             NEW i \in DOMAIN TheCommand.documents
      PROVE  /\ OperationsThere(i, document) /\ SchemasLast(i, document) /\ MeaningKept(i, document)
             /\ document.security = TheCommand.documents[1].security
  BY <1>1 DEF ApiInv, MergeIsKept, DocumentKept
<1>2. ApiInv => OperationsAreKept
  BY <1>1, SMTT(30)
     DEF OperationsThere, SchemasLast, MeaningKept, Names, InForce, OperationsAreKept
<1> QED BY <1>2, AlwaysApiInv, PTL

-----------------------------------------------------------------------------
(* The messages' module and their schemas.                                 *)

TypesSpec == TypesInit /\ [][TypesNext]_typesVars

SchemaGroups == {"commands", "events", "tasks", "models", "aliases"}
Wants == SchemaGroups \X ToSet(sources)
SchemaOf(want) == <<want[1], SchemaName(want[2]), want[2]>>

LEMMA EndingIs ==
  /\ DOMAIN Ending = {"commands", "events", "tasks"}
  /\ Ending["commands"] = "Command" /\ Ending["events"] = "Event" /\ Ending["tasks"] = "Task"
BY DEF Ending

(* Everything that a group asks for is found.                              *)
LEMMA FoundIs ==
  ASSUME NEW list \in Sources, NEW group \in SchemaGroups
  PROVE  /\ Found(group, list) \in Seq(SchemaGroups \X ToSet(list))
         /\ \A d \in ToSet(list) : Finds(group, d) => In(<<group, d>>, Found(group, list))
<1> DEFINE S == ToSet(list)
           I == {i \in DOMAIN list : Finds(group, list[i])}
           P == Picked(list, I)
           F == [k \in DOMAIN P |-> <<group, P[k]>>]
<1>1. list \in Seq(S) /\ I \in SUBSET DOMAIN list
  BY SourcesAssumption
<1>2. P \in Seq(S) /\ \A i \in I : In(list[i], P)
  <2> HIDE DEF S, I
  <2> QED BY <1>1, PickedIs
<1>3. Found(group, list) = F
  BY DEF Found
<1>4. F \in Seq(SchemaGroups \X S)
  <2> HIDE DEF S, P
  <2>1. Len(P) \in Nat /\ DOMAIN P = 1 .. Len(P) /\ \A k \in 1 .. Len(P) : P[k] \in S
    BY <1>2
  <2>2. \A k \in 1 .. Len(P) : <<group, P[k]>> \in SchemaGroups \X S
    BY <2>1
  <2>3. F = [k \in 1 .. Len(P) |-> <<group, P[k]>>]
    BY <2>1
  <2> QED BY <2>1, <2>2, <2>3, IsASeq
<1>5. ASSUME NEW d \in S, Finds(group, d) PROVE In(<<group, d>>, F)
  <2>1. PICK i \in I : list[i] = d
    BY <1>5 DEF ToSet
  <2>2. In(d, P)
    BY <1>2, <2>1
  <2>3. PICK k \in DOMAIN P : P[k] = d
    BY <2>2 DEF In
  <2> HIDE DEF P
  <2>4. k \in DOMAIN F /\ F[k] = <<group, d>>
    BY <2>3
  <2> QED BY <2>4 DEF In
<1> QED BY <1>3, <1>4, <1>5

LEMMA AllFoundIs ==
  ASSUME NEW list \in Sources
  PROVE  /\ AllFound(list) \in Seq(SchemaGroups \X ToSet(list))
         /\ \A group \in SchemaGroups, d \in ToSet(list) :
              Finds(group, d) => In(<<group, d>>, AllFound(list))
<1> DEFINE S == SchemaGroups \X ToSet(list)
           F(group) == Found(group, list)
           A2 == F("commands") \o F("events")
           A3 == A2 \o F("tasks")
           A4 == A3 \o F("models")
           A5 == A4 \o F("aliases")
<1>1. \A group \in SchemaGroups :
        F(group) \in Seq(S) /\ \A d \in ToSet(list) : Finds(group, d) => In(<<group, d>>, F(group))
  BY FoundIs
<1>2. AllFound(list) = A5
  BY DEF AllFound
<1>3. /\ F("commands") \in Seq(S) /\ F("events") \in Seq(S) /\ F("tasks") \in Seq(S)
      /\ F("models") \in Seq(S) /\ F("aliases") \in Seq(S)
  BY <1>1 DEF SchemaGroups
<1> HIDE DEF S, F
<1>4. A2 \in Seq(S) /\ \A x : In(x, F("commands")) \/ In(x, F("events")) => In(x, A2)
  BY <1>3, InConcat
<1> HIDE DEF A2
<1>5. A3 \in Seq(S) /\ \A x : In(x, A2) \/ In(x, F("tasks")) => In(x, A3)
  BY <1>3, <1>4, InConcat
<1> HIDE DEF A3
<1>6. A4 \in Seq(S) /\ \A x : In(x, A3) \/ In(x, F("models")) => In(x, A4)
  BY <1>3, <1>5, InConcat
<1> HIDE DEF A4
<1>7. A5 \in Seq(S) /\ \A x : In(x, A4) \/ In(x, F("aliases")) => In(x, A5)
  BY <1>3, <1>6, InConcat
<1> HIDE DEF A5
<1>8. \A x : \A group \in SchemaGroups : In(x, F(group)) => In(x, A5)
  BY <1>4, <1>5, <1>6, <1>7 DEF SchemaGroups
<1> QED BY <1>1, <1>2, <1>7, <1>8 DEF S

-----------------------------------------------------------------------------
(* What is wanted is still to be made a schema of, or is faulty, or is one *)
(* of the schemas.  Nothing is written before all the schemas are made.    *)
TypesInv ==
  /\ step # "idle" => sources \in Sources
  /\ step = "idle" => schemas = <<>>
  /\ step \in {"idle", "schemas", "failed", "crashed"} => files = <<>>
  /\ pending \in Seq(Wants)
  /\ schemas \in Seq({SchemaOf(want) : want \in Wants})
  /\ step # "idle" =>
       \A want \in Wants : Finds(want[1], want[2]) =>
         In(want, pending) \/ want[2].name \in faulty \/ In(SchemaOf(want), schemas)
  /\ step \in {"export", "done"} => pending = <<>>
  /\ step = "export" => files = [f \in {Output} |-> Embedded]
  /\ step = "done" /\ mode = "messages" =>
       /\ Output \in DOMAIN files /\ files[Output] = Embedded
       /\ \A f \in DOMAIN files \ {Output} : f \in DOMAIN SchemaFiles /\ files[f] = SchemaFiles[f]
  /\ step = "export" => mode = "messages"

LEMMA TypesStart == TypesInit => TypesInv
BY DEF TypesInit, TypesInv

LEMMA SchemaIsMade ==
  ASSUME TypesInv, GenerateJsonSchema
  PROVE  TypesInv'
<1> DEFINE want == Head(pending)
           Made == {SchemaOf(w) : w \in Wants}
<1>1. /\ step = "schemas" /\ pending # <<>> /\ pending' = Tail(pending)
      /\ schemas' = IF want[2].name \in faulty THEN schemas ELSE Append(schemas, SchemaOf(want))
      /\ UNCHANGED <<sources, faulty, broken, mode, files, step>>
  BY DEF GenerateJsonSchema, SchemaOf
<1>2. pending \in Seq(Wants) /\ schemas \in Seq(Made) /\ Wants' = Wants
  BY <1>1 DEF TypesInv, Wants
<1>3. want \in Wants /\ pending' \in Seq(Wants) /\ \A x : In(x, pending) => x = want \/ In(x, pending')
  BY <1>1, <1>2, InTail
<1>4. SchemaOf(want) \in Made
  BY <1>3
<1> HIDE DEF want, Made
<1>5. /\ schemas' \in Seq(Made)
      /\ \A x : In(x, schemas) => In(x, schemas')
      /\ want[2].name \notin faulty => In(SchemaOf(want), schemas')
  BY <1>1, <1>2, <1>4, InAppend
<1>6. \A w \in Wants : Finds(w[1], w[2]) =>
        In(w, pending') \/ w[2].name \in faulty \/ In(SchemaOf(w), schemas')
  BY <1>1, <1>3, <1>5 DEF TypesInv
<1>7. (schemas \in Seq({SchemaOf(w) : w \in Wants}))'
  BY <1>2, <1>5 DEF Made, SchemaOf
<1>8. (\A w \in Wants : Finds(w[1], w[2]) =>
        In(w, pending) \/ w[2].name \in faulty \/ In(SchemaOf(w), schemas))'
  BY <1>1, <1>2, <1>6 DEF In, SchemaOf
<1> QED BY <1>1, <1>2, <1>3, <1>7, <1>8 DEF TypesInv

(* The schemas' own files are in folders of theirs, beside the module.     *)
LEMMA OutputIsApart ==
  ASSUME schemas \in Seq({SchemaOf(want) : want \in Wants})
  PROVE  Output \notin DOMAIN SchemaFiles
<1>1. \A i \in DOMAIN schemas : schemas[i][1] \in SchemaGroups
  <2> SUFFICES ASSUME NEW i \in DOMAIN schemas PROVE schemas[i][1] \in SchemaGroups
    OBVIOUS
  <2>1. schemas[i] \in {SchemaOf(want) : want \in Wants}
    OBVIOUS
  <2> QED BY <2>1 DEF SchemaOf, Wants
<1>2. \A i \in DOMAIN schemas : FileOf(schemas[i]) # Output
  BY <1>1 DEF FileOf, Output, SchemaGroups
<1> QED BY <1>2 DEF SchemaFiles

LEMMA TypesStep == TypesInv /\ [TypesNext]_typesVars => TypesInv'
<1> SUFFICES ASSUME TypesInv, [TypesNext]_typesVars PROVE TypesInv'
  OBVIOUS
<1>1. ASSUME NEW list \in Sources, NEW bad, NEW missing, NEW as, Start(list, bad, missing, as)
      PROVE  TypesInv'
  <2>1. /\ step = "idle" /\ step' = "schemas" /\ sources' = list /\ pending' = AllFound(list)
        /\ schemas' = <<>> /\ files' = <<>>
    BY <1>1 DEF Start, TypesInv
  <2>2. Wants' = SchemaGroups \X ToSet(list)
    BY <2>1 DEF Wants, ToSet
  <2>3. pending' \in Seq(Wants') /\ \A want \in Wants' : Finds(want[1], want[2]) => In(want, pending')
    BY <2>1, <2>2, AllFoundIs
  <2>4. (\A want \in Wants : Finds(want[1], want[2]) => In(want, pending))'
    BY <2>3 DEF In
  <2> QED BY <2>1, <2>3, <2>4 DEF TypesInv
<1>2. ASSUME NEW base, ExportComponents(base) PROVE TypesInv'
  BY <1>2 DEF ExportComponents, TypesInv, Wants, SchemaOf, In
<1>3. CASE GenerateTypes
  <2>1. /\ step = "schemas" /\ pending = <<>> /\ mode = "messages"
        /\ UNCHANGED <<sources, faulty, broken, mode, pending, schemas>>
        /\ \/ step' = "failed" /\ UNCHANGED files
           \/ step' = "export" /\ files' = [f \in {Output} |-> Embedded]
    BY <1>3 DEF GenerateTypes
  <2>2. Embedded' = Embedded
    BY <2>1 DEF Embedded
  <2> QED BY <2>1, <2>2 DEF TypesInv, Wants, SchemaOf, In
<1>4. CASE ExportJsonSchemas
  <2>1. /\ step = "export" /\ step' = "done"
        /\ files' = [f \in DOMAIN files \cup DOMAIN SchemaFiles |->
                       IF f \in DOMAIN SchemaFiles THEN SchemaFiles[f] ELSE files[f]]
        /\ UNCHANGED <<sources, faulty, broken, mode, pending, schemas>>
    BY <1>4 DEF ExportJsonSchemas
  <2>2. Embedded' = Embedded /\ SchemaFiles' = SchemaFiles
    BY <2>1 DEF Embedded, SchemaFiles
  <2>3. files = [f \in {Output} |-> Embedded] /\ Output \notin DOMAIN SchemaFiles
    BY <2>1, OutputIsApart DEF TypesInv
  <2>4. /\ Output \in DOMAIN files' /\ files'[Output] = Embedded
        /\ \A f \in DOMAIN files' \ {Output} : f \in DOMAIN SchemaFiles /\ files'[f] = SchemaFiles[f]
    BY <2>1, <2>3
  <2> QED BY <2>1, <2>2, <2>4 DEF TypesInv, Wants, SchemaOf, In
<1>5. CASE UNCHANGED typesVars
  <2>1. Embedded' = Embedded /\ SchemaFiles' = SchemaFiles
    BY <1>5 DEF typesVars, Embedded, SchemaFiles
  <2> QED BY <1>5, <2>1 DEF typesVars, TypesInv, Wants, SchemaOf, In
<1> QED BY <1>1, <1>2, <1>3, <1>4, <1>5, SchemaIsMade DEF TypesNext

(* The last of a file's schemas, in the module and among them all.         *)
LEMMA LastIsWritten ==
  ASSUME schemas \in Seq({SchemaOf(want) : want \in Wants}),
         NEW i \in DOMAIN Embedded, FileOf(Embedded[i]) \in DOMAIN SchemaFiles,
         \A j \in DOMAIN Embedded : FileOf(Embedded[j]) = FileOf(Embedded[i]) => j <= i
  PROVE  SchemaFiles[FileOf(Embedded[i])] = Embedded[i][3]
<1> DEFINE Made == {SchemaOf(want) : want \in Wants}
           E == {k \in DOMAIN schemas : schemas[k][1] \in DOMAIN Ending}
           f == FileOf(Embedded[i])
           IsLast(m) == m \in DOMAIN schemas /\ FileOf(schemas[m]) = f
                          /\ \A j \in DOMAIN schemas : FileOf(schemas[j]) = f => j <= m
           m == CHOOSE k \in DOMAIN schemas :
                  FileOf(schemas[k]) = f /\ \A j \in DOMAIN schemas : FileOf(schemas[j]) = f => j <= k
<1>1. E \in SUBSET DOMAIN schemas /\ Len(schemas) \in Nat /\ DOMAIN schemas = 1 .. Len(schemas)
  OBVIOUS
<1>2. /\ DOMAIN Embedded = 1 .. Cardinality(E)
      /\ \A k \in 1 .. Cardinality(E) : Kth(E, k) \in E /\ Embedded[k] = schemas[Kth(E, k)]
      /\ \A k \in E : \E l \in 1 .. Cardinality(E) : Kth(E, l) = k
  <2> HIDE DEF E, Made
  <2>1. schemas \in Seq(Made)
    BY DEF Made
  <2>2. Embedded = Picked(schemas, E)
    BY DEF Embedded, E
  <2>3. /\ DOMAIN Picked(schemas, E) = 1 .. Cardinality(E)
        /\ \A k \in 1 .. Cardinality(E) :
             Kth(E, k) \in E /\ Picked(schemas, E)[k] = schemas[Kth(E, k)]
    BY <1>1, <2>1, PickedIs
  <2>4. E \in SUBSET (1 .. Len(schemas))
    BY <1>1
  <2>5. \A k \in E : \E l \in 1 .. Cardinality(E) : Kth(E, l) = k
    BY <1>1, <2>4, KthOf
  <2> QED BY <2>2, <2>3, <2>5
<1>3. \A k \in DOMAIN schemas : k \in E \/ FileOf(schemas[k])[1] \notin DOMAIN Ending
  <2> SUFFICES ASSUME NEW k \in DOMAIN schemas, k \notin E PROVE FileOf(schemas[k])[1] \notin DOMAIN Ending
    OBVIOUS
  <2>1. schemas[k][1] \in {"models", "aliases"}
    <3>1. schemas[k] \in Made
      OBVIOUS
    <3>2. schemas[k][1] \in SchemaGroups
      BY <3>1 DEF SchemaOf, Wants
    <3> QED BY <3>2, EndingIs DEF SchemaGroups
  <2> QED BY <2>1, EndingIs DEF FileOf
<1>4. f[1] \in DOMAIN Ending
  <2>1. Embedded[i] = schemas[Kth(E, i)] /\ Kth(E, i) \in E
    BY <1>2
  <2> QED BY <2>1, EndingIs DEF FileOf
<1> HIDE DEF f
<1>5. \E k \in DOMAIN schemas : IsLast(k)
  <2> DEFINE H == {k \in DOMAIN schemas : FileOf(schemas[k]) = f}
  <2>1. H # {} /\ H \in SUBSET (1 .. Len(schemas))
    BY <1>1 DEF SchemaFiles, f
  <2>2. PICK k \in H : \A j \in H : j <= k
    <3> HIDE DEF H
    <3> QED BY <1>1, <2>1, LastOfIndices
  <2> QED BY <2>2
<1>6. IsLast(m)
  BY <1>5
<1>7. f \in DOMAIN SchemaFiles /\ SchemaFiles[f] = schemas[m][3]
  BY DEF SchemaFiles, f
<1> HIDE DEF m, IsLast
<1>8. m \in E
  BY <1>3, <1>4, <1>6 DEF IsLast
<1>9. PICK l \in 1 .. Cardinality(E) : Kth(E, l) = m
  BY <1>2, <1>8
<1>10. l <= i
  BY <1>2, <1>6, <1>9 DEF IsLast, f
<1> HIDE DEF E
<1>11. Kth(E, l) <= Kth(E, i)
  BY <1>1, <1>2, <1>10, KthOrder
<1>12. Kth(E, i) \in DOMAIN schemas /\ FileOf(schemas[Kth(E, i)]) = f
  BY <1>1, <1>2 DEF f
<1>13. Kth(E, i) <= m
  BY <1>6, <1>12 DEF IsLast
<1>14. m = Kth(E, i)
  BY <1>1, <1>6, <1>9, <1>11, <1>12, <1>13 DEF IsLast
<1> QED BY <1>2, <1>7, <1>14 DEF f

LEMMA EmbeddedApart ==
  ASSUME schemas \in Seq({SchemaOf(want) : want \in Wants}), NEW i \in DOMAIN Embedded
  PROVE  FileOf(Embedded[i]) # Output
<1> DEFINE Made == {SchemaOf(want) : want \in Wants}
           E == {k \in DOMAIN schemas : schemas[k][1] \in DOMAIN Ending}
<1>1. E \in SUBSET DOMAIN schemas
  OBVIOUS
<1>2. \E k \in E : Embedded[i] = schemas[k]
  <2> HIDE DEF E, Made
  <2>1. schemas \in Seq(Made)
    BY DEF Made
  <2>2. Embedded = Picked(schemas, E)
    BY DEF Embedded, E
  <2>3. /\ DOMAIN Picked(schemas, E) = 1 .. Cardinality(E)
        /\ \A k \in 1 .. Cardinality(E) :
             Kth(E, k) \in E /\ Picked(schemas, E)[k] = schemas[Kth(E, k)]
    BY <1>1, <2>1, PickedIs
  <2> QED BY <2>2, <2>3
<1>3. Embedded[i][1] \in DOMAIN Ending
  BY <1>2
<1> QED BY <1>3, EndingIs DEF FileOf, Output

LEMMA MessagesAreEmbedded ==
  ASSUME TypesInv, step = "done", NEW d \in MessageNames, d.name \notin faulty
  PROVE  \E i \in DOMAIN Embedded : Embedded[i][3] = d
<1>1. PICK group \in DOMAIN Ending : Ending[group] = Last(d.name)
  BY EndingIs DEF MessageNames
<1>2. d \in ToSet(sources) /\ Finds(group, d)
  <2>1. group \in {"commands", "events", "tasks"}
    BY <1>1, EndingIs
  <2>2. d \in ToSet(sources) /\ d.kind = "interface"
    BY DEF MessageNames, Wanted
  <2>3. group \in DOMAIN Ending /\ group # "models" /\ group # "aliases"
    BY <1>1, <2>1
  <2>4. Finds(group, d) <=> d.kind = "interface" /\ Last(d.name) = Ending[group]
    BY <2>3 DEF Finds
  <2> QED BY <1>1, <2>2, <2>4
<1> DEFINE want == <<group, d>>
           E == {k \in DOMAIN schemas : schemas[k][1] \in DOMAIN Ending}
<1>3. want \in Wants /\ want[1] = group /\ want[2] = d
  BY <1>1, <1>2, EndingIs DEF Wants, SchemaGroups
<1>4. In(SchemaOf(want), schemas)
  <2>1. ~ In(want, pending)
    BY DEF TypesInv, In
  <2> HIDE DEF want
  <2> QED BY <1>2, <1>3, <2>1 DEF TypesInv
<1>5. PICK i \in DOMAIN schemas : schemas[i] = <<group, SchemaName(d), d>>
  BY <1>4 DEF In, SchemaOf
<1>6. i \in E /\ E \in SUBSET DOMAIN schemas
  BY <1>1, <1>5
<1>7. In(schemas[i], Embedded)
  <2>1. Embedded = Picked(schemas, E)
    BY DEF Embedded
  <2> HIDE DEF E
  <2>2. PICK S : schemas \in Seq(S)
    BY DEF TypesInv
  <2> QED BY <1>6, <2>1, <2>2, PickedIs
<1> QED BY <1>5, <1>7 DEF In

(* A command that fails leaves nothing; one that ends well has the schema  *)
(* of every message both in the module and in its own file.                *)
THEOREM TypesAgree == TypesSpec => []ModuleAndSchemasAgree
<1>1. ASSUME TypesInv PROVE ModuleAndSchemasAgree
  <2>1. step \in {"failed", "crashed"} => files = <<>>
    BY <1>1 DEF TypesInv
  <2>2. CASE step = "done" /\ mode = "messages"
    <3>1. /\ files[Output] = Embedded
          /\ schemas \in Seq({SchemaOf(want) : want \in Wants})
          /\ \A f \in DOMAIN files \ {Output} : f \in DOMAIN SchemaFiles /\ files[f] = SchemaFiles[f]
      BY <1>1, <2>2 DEF TypesInv
    <3>2. \A d \in MessageNames : d.name \notin faulty => \E i \in DOMAIN Embedded : Embedded[i][3] = d
      BY <1>1, <2>2, MessagesAreEmbedded
    <3>3. ASSUME NEW i \in DOMAIN Embedded, FileOf(Embedded[i]) \in DOMAIN files,
                 \A j \in DOMAIN Embedded : FileOf(Embedded[j]) = FileOf(Embedded[i]) => j <= i
          PROVE  files[FileOf(Embedded[i])] = Embedded[i][3]
      <4>1. FileOf(Embedded[i]) # Output
        BY <3>1, EmbeddedApart
      <4> QED BY <3>1, <3>3, <4>1, LastIsWritten
    <3> QED BY <2>1, <2>2, <3>1, <3>2, <3>3 DEF ModuleAndSchemasAgree
  <2> QED BY <2>1, <2>2 DEF ModuleAndSchemasAgree
<1> QED BY <1>1, TypesStart, TypesStep, PTL DEF TypesSpec

-----------------------------------------------------------------------------
(* The diagram of what a message brings about.                             *)

FlowSpec == FlowInit /\ [][FlowNext]_flowVars

-----------------------------------------------------------------------------
(* Where a hop leads, and what is called there.                            *)
Outs(hop) ==
  {i \in DOMAIN Repository.bindings[hop[1]] :
     Repository.bindings[hop[1]][i].dir = "out" /\ Repository.bindings[hop[1]][i].msg = hop[2]}
Leads(hop) == MsgToQueue(hop[1], hop[2]).queues[1]
CallsOn(hop) == CallsOf(Leads(hop), hop[2])
HopOf(call) == <<call.on, MessageOf(call)>>

LEMMA QueueIs ==
  ASSUME Repository \in Repositories, NEW hop \in Hops
  PROVE  /\ Outs(hop) = {} => MsgToQueue(hop[1], hop[2]) = NoQueue
         /\ Outs(hop) # {} =>
              \E i \in Outs(hop) :
                /\ \A j \in Outs(hop) : i <= j
                /\ MsgToQueue(hop[1], hop[2]) = Repository.bindings[hop[1]][i].toQueue
<1> DEFINE bindings == Repository.bindings[hop[1]]
<1>1. hop[1] \in Gateways
  BY DEF Hops
<1>2. bindings \in Seq(BindingsIn(Repository))
  BY <1>1, RepositoriesAssumption
<1>3. Len(bindings) \in Nat /\ Outs(hop) \in SUBSET (1 .. Len(bindings))
  <2>1. Outs(hop) \in SUBSET DOMAIN bindings
    BY DEF Outs
  <2> HIDE DEF bindings
  <2> QED BY <1>2, <2>1
<1> HIDE DEF bindings
<1>4. MsgToQueue(hop[1], hop[2]) =
        IF Outs(hop) = {} THEN NoQueue
        ELSE bindings[CHOOSE i \in Outs(hop) : \A j \in Outs(hop) : i <= j].toQueue
  BY DEF MsgToQueue, Outs, bindings
<1>5. ASSUME Outs(hop) # {} PROVE \E i \in Outs(hop) : \A j \in Outs(hop) : i <= j
  <2> DEFINE out == Outs(hop)
  <2>1. out # {} /\ out \in SUBSET (1 .. Len(bindings)) /\ Len(bindings) \in Nat
    BY <1>3, <1>5
  <2> HIDE DEF out
  <2>2. \E i \in out : \A j \in out : i <= j
    BY <2>1, FirstOfIndices
  <2> QED BY <2>2 DEF out
<1>6. CASE Outs(hop) = {}
  BY <1>4, <1>6
<1>7. CASE Outs(hop) # {}
  <2> DEFINE i == CHOOSE k \in Outs(hop) : \A j \in Outs(hop) : k <= j
  <2>1. i \in Outs(hop) /\ \A j \in Outs(hop) : i <= j
    BY <1>5, <1>7
  <2>2. MsgToQueue(hop[1], hop[2]) = bindings[i].toQueue
    BY <1>4, <1>7
  <2> HIDE DEF i
  <2> QED BY <1>7, <2>1, <2>2 DEF bindings
<1> QED BY <1>6, <1>7

(* What answers a hop, as a relation of bindings and files.                *)
Answered(hop, k, i) ==
  /\ k \in DOMAIN Repository.bindings[hop[1]] /\ i \in DOMAIN Repository.files
  /\ Answers(Repository, hop[1], hop[2], k, i)

LEMMA AnsweredIs ==
  ASSUME NEW hop, NEW k, NEW i
  PROVE  Answered(hop, k, i) <=>
           /\ k \in Outs(hop) /\ i \in DOMAIN Repository.files
           /\ Repository.bindings[hop[1]][k].toQueue.queues[1] = Repository.files[i].class
           /\ hop[2] \in DOMAIN Repository.files[i].handlers
BY SMTT(30) DEF Answered, Answers, Outs

LEMMA RepositoryIs ==
  ASSUME Repository \in Repositories, NEW hop \in Hops
  PROVE  /\ DOMAIN Repository.files \subseteq Nat
         /\ DOMAIN Repository.bindings[hop[1]] \subseteq Nat
         /\ \A i \in DOMAIN Repository.files : \A m \in DOMAIN Repository.files[i].handlers :
              Repository.files[i].handlers[m] \in Seq(CallsIn(Repository))
         /\ \A i \in Outs(hop) :
              /\ Repository.bindings[hop[1]][i].toQueue.queues # <<>>
              /\ Repository.bindings[hop[1]][i].toQueue.queues[1] \in STRING \ Gateways
         /\ \A k, i : Answered(hop, k, i) =>
              /\ \A l \in Outs(hop) : k <= l
              /\ \A j : Answered(hop, k, j) => j = i
<1> DEFINE r == Repository
           g == hop[1]
           m == hop[2]
<1>1. g \in Gateways /\ m \in r.messages
  BY DEF Hops
<1>2. r \in Repositories
  OBVIOUS
<1> HIDE DEF r, g, m
<1>3. /\ r.files \in Seq({r.files[i] : i \in DOMAIN r.files})
      /\ \A i \in DOMAIN r.files : \A n \in DOMAIN r.files[i].handlers :
           r.files[i].handlers[n] \in Seq(CallsIn(r))
      /\ r.bindings[g] \in Seq(BindingsIn(r))
      /\ \A i \in DOMAIN r.bindings[g] :
           r.bindings[g][i].dir = "out" =>
             r.bindings[g][i].toQueue.queues # <<>> /\ r.bindings[g][i].toQueue.queues[1] \notin Gateways
  BY <1>1, <1>2, RepositoriesAssumption
<1>4. \A k \in DOMAIN r.bindings[g], i \in DOMAIN r.files :
        Answers(r, g, m, k, i) =>
          /\ \A l \in DOMAIN r.bindings[g] :
               r.bindings[g][l].dir = "out" /\ r.bindings[g][l].msg = m => k <= l
          /\ \A j \in DOMAIN r.files : Answers(r, g, m, k, j) => j = i
  BY <1>1, <1>2, RepositoriesAssumption
<1>5. DOMAIN r.files \subseteq Nat
  <2> DEFINE fs == r.files
  <2>1. fs \in Seq({fs[i] : i \in DOMAIN fs})
    BY <1>3
  <2> HIDE DEF fs
  <2>2. DOMAIN fs \subseteq Nat
    BY <2>1
  <2> QED BY <2>2 DEF fs
<1>6. DOMAIN r.bindings[g] \subseteq Nat
  BY <1>3
<1>7. \A l \in Outs(hop) : l \in DOMAIN r.bindings[g] /\ r.bindings[g][l].dir = "out" /\ r.bindings[g][l].msg = m
  BY DEF Outs, r, g, m
<1>8. \A k, i : Answered(hop, k, i) <=>
        k \in DOMAIN r.bindings[g] /\ i \in DOMAIN r.files /\ Answers(r, g, m, k, i)
  BY DEF Answered, r, g, m
<1>9. \A k, i : Answered(hop, k, i) =>
        /\ \A l \in Outs(hop) : k <= l
        /\ \A j : Answered(hop, k, j) => j = i
  BY <1>4, <1>7, <1>8
<1>10. \A i \in Outs(hop) :
         /\ r.bindings[g][i].toQueue.queues # <<>>
         /\ r.bindings[g][i].toQueue.queues[1] \in STRING \ Gateways
  <2> SUFFICES ASSUME NEW i \in Outs(hop)
               PROVE  /\ r.bindings[g][i].toQueue.queues # <<>>
                      /\ r.bindings[g][i].toQueue.queues[1] \in STRING \ Gateways
    OBVIOUS
  <2> DEFINE b == r.bindings[g][i]
  <2>1. b.toQueue.queues # <<>> /\ b.toQueue.queues[1] \notin Gateways
    BY <1>3, <1>7
  <2>2. b \in BindingsIn(r)
    BY <1>3, <1>7
  <2> HIDE DEF b
  <2>3. b.toQueue.queues \in Seq(STRING)
    BY <2>2 DEF BindingsIn
  <2>4. b.toQueue.queues[1] \in STRING
    BY <2>1, <2>3
  <2> QED BY <2>1, <2>4 DEF b
<1> QED BY <1>3, <1>5, <1>6, <1>9, <1>10 DEF r, g, m

(* What follows a hop is what is called where it leads.                    *)
LEMMA HandlersAre ==
  ASSUME Repository \in Repositories, NEW hop \in Hops
  PROVE  /\ Outs(hop) # {} =>
              /\ MsgToQueue(hop[1], hop[2]) # NoQueue
              /\ Leads(hop) \in STRING \ Gateways
              /\ CallsOn(hop) \in Seq(CallsIn(Repository))
              /\ \/ Handlers(hop) = {} /\ CallsOn(hop) = <<>>
                 \/ Handlers(hop) = {CallsOn(hop)}
         /\ Outs(hop) = {} => Handlers(hop) = {}
<1> DEFINE fs == Repository.files
           J == {j \in DOMAIN fs : \E k \in Outs(hop) : Answered(hop, k, j)}
           having == {i \in DOMAIN fs : fs[i].class = Leads(hop) /\ hop[2] \in DOMAIN fs[i].handlers}
<1>1. Handlers(hop) = {fs[j].handlers[hop[2]] : j \in J}
  <2> DEFINE K == {j \in DOMAIN fs :
                     /\ hop[2] \in DOMAIN fs[j].handlers
                     /\ \E k \in DOMAIN Repository.bindings[hop[1]] :
                          LET b == Repository.bindings[hop[1]][k] IN
                            /\ b.dir = "out" /\ b.msg = hop[2]
                            /\ b.toQueue.queues # <<>> /\ b.toQueue.queues[1] = fs[j].class}
  <2>1. Handlers(hop) = {fs[j].handlers[hop[2]] : j \in K}
    BY DEF Handlers
  <2>2. ASSUME NEW j \in DOMAIN fs
        PROVE  j \in K <=> j \in J
    <3>1. j \in J <=> \E k \in Outs(hop) :
                        /\ Repository.bindings[hop[1]][k].toQueue.queues[1] = fs[j].class
                        /\ hop[2] \in DOMAIN fs[j].handlers
      BY AnsweredIs
    <3>2. \A k \in Outs(hop) : Repository.bindings[hop[1]][k].toQueue.queues # <<>>
      BY RepositoryIs
    <3>3. \A k : k \in Outs(hop) <=>
            /\ k \in DOMAIN Repository.bindings[hop[1]]
            /\ Repository.bindings[hop[1]][k].dir = "out" /\ Repository.bindings[hop[1]][k].msg = hop[2]
      BY DEF Outs
    <3>4. j \in K <=>
            /\ hop[2] \in DOMAIN fs[j].handlers
            /\ \E k \in DOMAIN Repository.bindings[hop[1]] :
                 /\ Repository.bindings[hop[1]][k].dir = "out" /\ Repository.bindings[hop[1]][k].msg = hop[2]
                 /\ Repository.bindings[hop[1]][k].toQueue.queues # <<>>
                 /\ Repository.bindings[hop[1]][k].toQueue.queues[1] = fs[j].class
      OBVIOUS
    <3> HIDE DEF J, K, fs
    <3> QED BY <3>1, <3>2, <3>3, <3>4
  <2>3. K = J
    <3>1. K \subseteq DOMAIN fs /\ J \subseteq DOMAIN fs
      OBVIOUS
    <3> HIDE DEF K, J
    <3> QED BY <2>2, <3>1
  <2> QED BY <2>1, <2>3
<1>2. ASSUME Outs(hop) = {} PROVE Handlers(hop) = {}
  <2>1. J = {}
    BY <1>2
  <2> HIDE DEF J
  <2> QED BY <1>1, <2>1
<1>3. ASSUME Outs(hop) # {}
      PROVE  /\ MsgToQueue(hop[1], hop[2]) # NoQueue
             /\ Leads(hop) \in STRING \ Gateways
             /\ CallsOn(hop) \in Seq(CallsIn(Repository))
             /\ \/ Handlers(hop) = {} /\ CallsOn(hop) = <<>>
                \/ Handlers(hop) = {CallsOn(hop)}
  <2>1. PICK k \in Outs(hop) : /\ \A j \in Outs(hop) : k <= j
                               /\ MsgToQueue(hop[1], hop[2]) = Repository.bindings[hop[1]][k].toQueue
    BY <1>3, QueueIs
  <2>2. /\ MsgToQueue(hop[1], hop[2]) # NoQueue
        /\ Leads(hop) = Repository.bindings[hop[1]][k].toQueue.queues[1]
        /\ Leads(hop) \in STRING \ Gateways
    <3>1. NoQueue.queues = <<>>
      BY SMTT(30) DEF NoQueue
    <3>2. /\ Repository.bindings[hop[1]][k].toQueue.queues # <<>>
          /\ Repository.bindings[hop[1]][k].toQueue.queues[1] \in STRING \ Gateways
      BY RepositoryIs, SMTT(30)
    <3> QED BY <2>1, <3>1, <3>2 DEF Leads
  <2>3. k \in Nat /\ DOMAIN Repository.bindings[hop[1]] \subseteq Nat
        /\ \A j \in Outs(hop) : j \in DOMAIN Repository.bindings[hop[1]]
    BY RepositoryIs DEF Outs
  <2>4. \A l, i : Answered(hop, l, i) => l = k
    <3> SUFFICES ASSUME NEW l, NEW i, Answered(hop, l, i) PROVE l = k
      OBVIOUS
    <3>1. l \in Outs(hop)
      BY AnsweredIs, SMTT(30)
    <3>2. l <= k /\ k <= l
      BY <2>1, <3>1, RepositoryIs
    <3> QED BY <2>3, <3>1, <3>2
  <2>5. \A i : i \in having <=> Answered(hop, k, i)
    BY <2>2, AnsweredIs
  <2>6. CallsOn(hop) = IF having = {} THEN <<>>
                       ELSE fs[CHOOSE i \in having : \A j \in having : i <= j].handlers[hop[2]]
    BY DEF CallsOn, CallsOf
  <2>7. J = having
    <3>1. \A i : i \in J <=> Answered(hop, k, i)
      BY <2>4, AnsweredIs
    <3> HIDE DEF J, having
    <3> QED BY <2>5, <3>1
  <2>8. CASE having = {}
    <3> HIDE DEF J, having
    <3>1. Handlers(hop) = {} /\ CallsOn(hop) = <<>>
      BY <1>1, <2>6, <2>7, <2>8
    <3> QED BY <2>2, <3>1
  <2>9. CASE having # {}
    <3>1. PICK i \in having : TRUE
      BY <2>9
    <3>2. i \in DOMAIN fs /\ hop[2] \in DOMAIN fs[i].handlers /\ i \in Nat
      BY <3>1, RepositoryIs, SMTT(30)
    <3>3. \A j \in having : j = i
      BY <2>5, <3>1, RepositoryIs
    <3> HIDE DEF J, having
    <3>4. having = {i} /\ i <= i
      BY <3>1, <3>2, <3>3
    <3>5. (CHOOSE l \in having : \A j \in having : l <= j) = i
      BY <3>4
    <3>6. CallsOn(hop) = fs[i].handlers[hop[2]]
      BY <2>6, <2>9, <3>5
    <3>7. Handlers(hop) = {fs[i].handlers[hop[2]]}
      BY <1>1, <2>7, <3>4
    <3>8. fs[i].handlers[hop[2]] \in Seq(CallsIn(Repository))
      BY <3>2, RepositoryIs
    <3> QED BY <2>2, <3>6, <3>7, <3>8
  <2> QED BY <2>8, <2>9
<1> QED BY <1>2, <1>3, SMTT(30)

LEMMA FollowsIs ==
  ASSUME Repository \in Repositories, NEW a \in Hops
  PROVE  /\ \A b : Follows(a, b) <=>
                 /\ Outs(a) # {}
                 /\ \E i \in DOMAIN CallsOn(a) : Followed(CallsOn(a)[i]) /\ b = HopOf(CallsOn(a)[i])
         /\ \A b : Follows(a, b) => b \in Hops
<1>1. \A b : Follows(a, b) <=>
        /\ Outs(a) # {}
        /\ \E i \in DOMAIN CallsOn(a) : Followed(CallsOn(a)[i]) /\ b = HopOf(CallsOn(a)[i])
  <2>1. CASE Outs(a) = {}
    BY <2>1, HandlersAre DEF Follows
  <2>2. CASE Outs(a) # {}
    <3>1. CASE Handlers(a) = {} /\ CallsOn(a) = <<>>
      BY <2>2, <3>1 DEF Follows
    <3>2. CASE Handlers(a) = {CallsOn(a)}
      BY <2>2, <3>2 DEF Follows, HopOf
    <3> QED BY <2>2, <3>1, <3>2, HandlersAre
  <2> QED BY <2>1, <2>2
<1>2. ASSUME NEW b, Follows(a, b) PROVE b \in Hops
  <2>1. Outs(a) # {}
    BY <1>1, <1>2
  <2>2. PICK i \in DOMAIN CallsOn(a) : Followed(CallsOn(a)[i]) /\ b = HopOf(CallsOn(a)[i])
    BY <1>1, <1>2
  <2> DEFINE call == CallsOn(a)[i]
  <2>3. CallsOn(a) \in Seq(CallsIn(Repository))
    BY <2>1, HandlersAre
  <2>4. call \in CallsIn(Repository)
    BY <2>3
  <2> HIDE DEF call
  <2>5. MessageOf(call) \in Repository.messages /\ call.on \in Gateways
    BY <2>2, <2>4 DEF Followed, MessageOf, CallsIn, call
  <2> QED BY <2>2, <2>5 DEF HopOf, Hops, call
<1> QED BY <1>1, <1>2

-----------------------------------------------------------------------------
(* What is reached: the origin and what follows, and nothing else.         *)
LEMMA ReachedIs ==
  ASSUME Repository \in Repositories, origin \subseteq Hops
  PROVE  /\ Reached \subseteq Hops
         /\ origin \subseteq Reached
         /\ \A a \in Reached : \A b : Follows(a, b) => b \in Reached
         /\ \A S \in SUBSET Hops :
              origin \subseteq S /\ (\A a \in S : \A b : Follows(a, b) => b \in S) => Reached \subseteq S
<1> DEFINE after == [a \in Hops |-> {b \in Hops : Follows(a, b)}]
           closed == {S \in SUBSET Hops : origin \subseteq S /\ \A a \in S : after[a] \subseteq S}
<1>1. \A a \in Hops : \A b : Follows(a, b) <=> b \in after[a]
  BY FollowsIs
<1>2. Reached = {h \in Hops : \A S \in closed : h \in S}
  BY DEF Reached
<1> HIDE DEF after
<1>3. \A S \in closed : \A a \in S : \A b : Follows(a, b) => b \in S
  BY <1>1
<1>4. \A a \in Hops : \A b : Follows(a, b) => b \in Hops
  BY FollowsIs
<1>5. \A S \in SUBSET Hops :
        origin \subseteq S /\ (\A a \in S : \A b : Follows(a, b) => b \in S) => S \in closed
  BY <1>1
<1>6. \A S \in closed : origin \subseteq S
  OBVIOUS
<1> HIDE DEF closed
<1> QED BY <1>2, <1>3, <1>4, <1>5, <1>6

-----------------------------------------------------------------------------
(* The walk.  A hop is settled when it is drawn, is about to be entered or *)
(* leads nowhere; a call is left in a frame until the walk makes it.       *)
DrawnAt(h, i) ==
  i \in DOMAIN diagram /\ diagram[i][1] \in Gateways /\ h = <<diagram[i][1], diagram[i][3]>>
IsDrawn(h) == \E i : DrawnAt(h, i)
Left(c, k) == k \in DOMAIN frames /\ In(c, frames[k].calls)
Settled(h) == Outs(h) = {} \/ IsDrawn(h) \/ h \in entering

Parties == Gateways \cup STRING
WalkTypes ==
  /\ diagram \in Seq(Parties \X Parties \X Repository.messages)
  /\ frames \in Seq([processor : STRING, calls : Seq(CallsIn(Repository))])
Walk ==
  /\ \A h, i : DrawnAt(h, i) => h \in Reached /\ Outs(h) # {} /\ diagram[i][2] = Leads(h)
  /\ \A i \in DOMAIN diagram : \A b :
       diagram[i][1] \notin Gateways /\ b = <<diagram[i][2], diagram[i][3]>> =>
         \E j \in 1 .. i - 1 : \E a :
           DrawnAt(a, j) /\ diagram[j][2] = diagram[i][1] /\ Follows(a, b)
  /\ \A k \in DOMAIN frames : \E h, j :
       /\ DrawnAt(h, j) /\ diagram[j][2] = frames[k].processor
       /\ \A c : Left(c, k) => In(c, CallsOn(h))
  /\ entering \subseteq Reached
  /\ \A h \in origin : Settled(h)
  /\ \A h, c : IsDrawn(h) /\ In(c, CallsOn(h)) /\ Followed(c) =>
       Settled(HopOf(c)) \/ \E k : Left(c, k)
FlowInv ==
  /\ flow = "idle" =>
       origin = {} /\ entering = {} /\ frames = <<>> /\ diagram = <<>>
  /\ flow # "idle" => Repository \in Repositories /\ origin \subseteq Hops
  /\ WalkTypes
  /\ flow # "failed" => Walk
  /\ flow \in {"idle", "walking", "done", "failed"}
  /\ flow \in {"done", "failed"} => entering = {}
  /\ flow = "done" => frames = <<>>

LEMMA FlowStart == FlowInit => FlowInv
<1> SUFFICES ASSUME FlowInit PROVE FlowInv
  OBVIOUS
<1>1. \A h, i : ~ DrawnAt(h, i)
  BY DEF FlowInit, DrawnAt
<1>2. WalkTypes
  BY DEF FlowInit, WalkTypes
<1> QED BY <1>1, <1>2 DEF FlowInit, FlowInv, Walk, IsDrawn

(* What depends on the repository alone stays when it does.                *)
LEMMA SameRepository ==
  ASSUME UNCHANGED <<repository, origin>>
  PROVE  /\ Repository' = Repository /\ Hops' = Hops /\ Reached' = Reached
         /\ \A h : Outs(h)' = Outs(h) /\ Leads(h)' = Leads(h) /\ CallsOn(h)' = CallsOn(h)
         /\ \A a, b : Follows(a, b)' = Follows(a, b)
<1>1. Repository' = Repository
  BY DEF Repository
<1>2. Hops' = Hops
  BY <1>1 DEF Hops
<1>3. \A h : Outs(h)' = Outs(h)
  BY <1>1 DEF Outs
<1>4. \A h : Leads(h)' = Leads(h)
  BY <1>1 DEF Leads, MsgToQueue
<1>5. \A h : CallsOn(h)' = CallsOn(h)
  BY <1>1, <1>4 DEF CallsOn, CallsOf, Leads, MsgToQueue
<1>6. \A h : Handlers(h)' = Handlers(h)
  BY <1>1 DEF Handlers
<1>7. \A a, b : Follows(a, b)' = Follows(a, b)
  BY <1>6 DEF Follows
<1>8. Reached' = Reached
  BY <1>2, <1>7 DEF Reached
<1> QED BY <1>1, <1>2, <1>3, <1>4, <1>5, <1>7, <1>8

(* A line of a gateway draws a hop; one of a processor draws none.         *)
LEMMA LineIsDrawn ==
  ASSUME NEW S, diagram \in Seq(S), NEW from, NEW to, NEW m, <<from, to, m>> \in S,
         diagram' = Append(diagram, <<from, to, m>>)
  PROVE  /\ Len(diagram) \in Nat /\ DOMAIN diagram = 1 .. Len(diagram)
         /\ diagram' \in Seq(S)
         /\ DOMAIN diagram' = 1 .. Len(diagram) + 1
         /\ \A i \in DOMAIN diagram : diagram'[i] = diagram[i]
         /\ diagram'[Len(diagram) + 1] = <<from, to, m>>
         /\ \A h, i : DrawnAt(h, i)' <=>
              \/ DrawnAt(h, i)
              \/ i = Len(diagram) + 1 /\ from \in Gateways /\ h = <<from, m>>
<1> DEFINE n == Len(diagram)
<1>1. /\ n \in Nat /\ DOMAIN diagram = 1 .. n
      /\ diagram' \in Seq(S) /\ DOMAIN diagram' = 1 .. n + 1
      /\ \A i \in DOMAIN diagram : diagram'[i] = diagram[i]
      /\ diagram'[n + 1] = <<from, to, m>>
  OBVIOUS
<1> HIDE DEF n
<1>2. ASSUME NEW h, NEW i
      PROVE  DrawnAt(h, i)' <=> DrawnAt(h, i) \/ (i = n + 1 /\ from \in Gateways /\ h = <<from, m>>)
  <2>1. CASE i \in 1 .. n
    <3>1. i # n + 1 /\ i \in DOMAIN diagram /\ i \in DOMAIN diagram' /\ diagram'[i] = diagram[i]
      BY <1>1, <2>1
    <3> QED BY <3>1 DEF DrawnAt
  <2>2. CASE i = n + 1
    <3>1. i \notin DOMAIN diagram /\ i \in DOMAIN diagram'
      BY <1>1, <2>2
    <3>2. diagram'[i][1] = from /\ diagram'[i][3] = m
      BY <1>1, <2>2
    <3> QED BY <2>2, <3>1, <3>2 DEF DrawnAt
  <2>3. CASE i \notin 1 .. n /\ i # n + 1
    <3>1. i \notin DOMAIN diagram /\ i \notin DOMAIN diagram'
      BY <1>1, <2>3
    <3> QED BY <2>3, <3>1 DEF DrawnAt
  <2> QED BY <2>1, <2>2, <2>3
<1> QED BY <1>1, <1>2 DEF n

LEMMA FlowBuild ==
  ASSUME FlowInv, NEW r \in Repositories, NEW g \in Gateways, NEW m \in r.messages,
         BuildDiagram(r, g, m)
  PROVE  FlowInv'
<1>1. /\ frames = <<>> /\ diagram = <<>>
      /\ frames' = <<>> /\ diagram' = <<>> /\ repository' = {r} /\ origin' = {<<g, m>>}
      /\ \/ flow' = "failed" /\ entering' = {}
         \/ flow' = "walking" /\ entering' = {<<g, m>>}
  BY DEF FlowInv, BuildDiagram
<1>2. Repository' = r
  BY <1>1 DEF Repository
<1>3. <<g, m>> \in Hops'
  BY <1>2 DEF Hops
<1>4. (Repository \in Repositories /\ origin \subseteq Hops)'
  BY <1>1, <1>2, <1>3
<1>5. WalkTypes'
  BY <1>1 DEF WalkTypes
<1>6. CASE flow' = "failed" /\ entering' = {}
  BY <1>4, <1>5, <1>6 DEF FlowInv
<1>7. CASE flow' = "walking" /\ entering' = {<<g, m>>}
  <2>1. (origin \subseteq Reached)'
    BY <1>4, ReachedIs, PTL
  <2>2. \A h, i : ~ DrawnAt(h, i)'
    BY <1>1 DEF DrawnAt
  <2>3. (\A h \in origin : Settled(h))'
    BY <1>1, <1>7 DEF Settled
  <2>4. Walk'
    BY <1>1, <1>7, <2>1, <2>2, <2>3 DEF Walk, IsDrawn
  <2> QED BY <1>4, <1>5, <1>7, <2>4 DEF FlowInv
<1> QED BY <1>1, <1>6, <1>7

LEMMA FlowEnter ==
  ASSUME FlowInv, NEW g, NEW m, Enter(g, m)
  PROVE  FlowInv'
<1> DEFINE h == <<g, m>>
           to == MsgToQueue(g, m)
           n == Len(diagram)
           k0 == Len(frames)
<1>1. /\ entering = {h} /\ entering' = {} /\ UNCHANGED <<repository, origin>>
      /\ IF to = NoQueue THEN UNCHANGED <<frames, diagram, flow>>
         ELSE IF to.many \/ Len(frames) = MaxDepth
              THEN flow' = "failed" /\ UNCHANGED <<frames, diagram>>
              ELSE /\ diagram' = Append(diagram, <<g, to.queues[1], m>>)
                   /\ frames' = Append(frames, [processor |-> to.queues[1], calls |-> CallsOf(to.queues[1], m)])
                   /\ UNCHANGED flow
  BY DEF Enter
<1>2. flow = "walking" /\ Repository \in Repositories /\ origin \subseteq Hops /\ WalkTypes /\ Walk
  BY <1>1 DEF FlowInv
<1>3. /\ Repository' = Repository /\ Hops' = Hops /\ Reached' = Reached
      /\ \A x : Outs(x)' = Outs(x) /\ Leads(x)' = Leads(x) /\ CallsOn(x)' = CallsOn(x)
      /\ \A a, b : Follows(a, b)' = Follows(a, b)
  BY <1>1, SameRepository
<1>4. (Repository \in Repositories /\ origin \subseteq Hops)'
  BY <1>1, <1>2, <1>3
<1>5. to = MsgToQueue(h[1], h[2]) /\ to.queues[1] = Leads(h) /\ CallsOf(to.queues[1], m) = CallsOn(h)
  BY DEF Leads, CallsOn
<1>6. h \in Hops /\ h \in Reached /\ g \in Gateways /\ m \in Repository.messages
  <2>1. h \in Hops /\ h \in Reached
    BY <1>1, <1>2, ReachedIs DEF Walk
  <2> QED BY <2>1 DEF Hops
<1> HIDE DEF to, h
<1>7. CASE flow' = "failed" /\ UNCHANGED <<frames, diagram>>
  BY <1>1, <1>2, <1>3, <1>4, <1>7 DEF FlowInv, WalkTypes
<1>8. CASE to = NoQueue
  <2>1. UNCHANGED <<frames, diagram, flow>>
    BY <1>1, <1>8
  <2>2. Outs(h) = {}
    BY <1>2, <1>5, <1>6, <1>8, HandlersAre
  <2>3. (\A x, i : DrawnAt(x, i)' <=> DrawnAt(x, i)) /\ \A c, k : Left(c, k)' <=> Left(c, k)
    BY <2>1 DEF DrawnAt, Left, In
  <2>4. \A x : IsDrawn(x)' <=> IsDrawn(x)
    BY <2>3 DEF IsDrawn
  <2>5. \A x : Settled(x) => Settled(x)'
    BY <1>1, <1>3, <2>2, <2>4 DEF Settled
  <2>6. Walk'
    BY <1>1, <1>2, <1>3, <2>1, <2>3, <2>4, <2>5 DEF Walk
  <2> QED BY <1>1, <1>2, <1>3, <1>4, <2>1, <2>6 DEF FlowInv, WalkTypes
<1>9. CASE /\ to # NoQueue
           /\ diagram' = Append(diagram, <<g, Leads(h), m>>)
           /\ frames' = Append(frames, [processor |-> Leads(h), calls |-> CallsOn(h)])
           /\ UNCHANGED flow
  <2>1. Outs(h) # {} /\ Leads(h) \in STRING /\ CallsOn(h) \in Seq(CallsIn(Repository))
    BY <1>2, <1>5, <1>6, <1>9, HandlersAre, QueueIs
  <2> DEFINE S == Parties \X Parties \X Repository.messages
             F == [processor : STRING, calls : Seq(CallsIn(Repository))]
  <2>2. diagram \in Seq(S) /\ frames \in Seq(F)
    BY <1>2 DEF WalkTypes
  <2>3. <<g, Leads(h), m>> \in S /\ [processor |-> Leads(h), calls |-> CallsOn(h)] \in F
    BY <1>6, <2>1 DEF Parties
  <2> HIDE DEF S, F
  <2>4. /\ n \in Nat /\ DOMAIN diagram = 1 .. n
        /\ diagram' \in Seq(S) /\ DOMAIN diagram' = 1 .. n + 1
        /\ \A i \in DOMAIN diagram : diagram'[i] = diagram[i]
        /\ diagram'[n + 1] = <<g, Leads(h), m>>
        /\ \A x, i : DrawnAt(x, i)' <=> DrawnAt(x, i) \/ (i = n + 1 /\ g \in Gateways /\ x = <<g, m>>)
    <3>1. PICK l : l = Leads(h)
      OBVIOUS
    <3>2. diagram' = Append(diagram, <<g, l, m>>) /\ diagram \in Seq(S) /\ <<g, l, m>> \in S
      BY <1>9, <2>2, <2>3, <3>1
    <3> HIDE DEF h
    <3>3. /\ Len(diagram) \in Nat /\ DOMAIN diagram = 1 .. Len(diagram)
          /\ diagram' \in Seq(S) /\ DOMAIN diagram' = 1 .. Len(diagram) + 1
          /\ \A i \in DOMAIN diagram : diagram'[i] = diagram[i]
          /\ diagram'[Len(diagram) + 1] = <<g, l, m>>
          /\ \A x, i : DrawnAt(x, i)' <=>
               DrawnAt(x, i) \/ (i = Len(diagram) + 1 /\ g \in Gateways /\ x = <<g, m>>)
      BY <3>2, LineIsDrawn, SMTT(30)
    <3> QED BY <3>1, <3>3
  <2>5. /\ k0 \in Nat /\ DOMAIN frames = 1 .. k0
        /\ frames' \in Seq(F) /\ DOMAIN frames' = 1 .. k0 + 1
        /\ \A k \in DOMAIN frames : frames'[k] = frames[k]
        /\ frames'[k0 + 1].processor = Leads(h) /\ frames'[k0 + 1].calls = CallsOn(h)
    BY <1>9, <2>2, <2>3
  <2> HIDE DEF n, k0
  <2>6. \A x, i : DrawnAt(x, i)' <=> DrawnAt(x, i) \/ (i = n + 1 /\ x = h)
    BY <1>6, <2>4 DEF h
  <2>7. \A c, k : Left(c, k)' <=> Left(c, k) \/ (k = k0 + 1 /\ In(c, CallsOn(h)))
    <3> SUFFICES ASSUME NEW c, NEW k
                 PROVE Left(c, k)' <=> Left(c, k) \/ (k = k0 + 1 /\ In(c, CallsOn(h)))
      OBVIOUS
    <3>1. CASE k \in DOMAIN frames
      <4>1. k # k0 + 1 /\ k \in DOMAIN frames' /\ frames'[k] = frames[k]
        BY <2>5, <3>1
      <4> QED BY <3>1, <4>1 DEF Left, In
    <3>2. CASE k = k0 + 1
      <4>1. k \notin DOMAIN frames /\ k \in DOMAIN frames' /\ frames'[k].calls = CallsOn(h)
        BY <2>5, <3>2
      <4> QED BY <3>2, <4>1 DEF Left, In
    <3>3. CASE k \notin DOMAIN frames /\ k # k0 + 1
      <4>1. k \notin DOMAIN frames'
        BY <2>5, <3>3
      <4> QED BY <3>3, <4>1 DEF Left
    <3> QED BY <3>1, <3>2, <3>3
  <2>8. \A x : IsDrawn(x)' <=> IsDrawn(x) \/ x = h
    BY <2>6 DEF IsDrawn
  <2>9. \A x : Settled(x) => Settled(x)'
    BY <1>1, <1>3, <2>8 DEF Settled, h
  <2>10. (\A x, i : DrawnAt(x, i) => x \in Reached /\ Outs(x) # {} /\ diagram[i][2] = Leads(x))'
    <3> SUFFICES ASSUME NEW x, NEW i, DrawnAt(x, i)'
                 PROVE x \in Reached /\ Outs(x) # {} /\ diagram'[i][2] = Leads(x)
      BY <1>3
    <3>1. CASE DrawnAt(x, i)
      <4>1. i \in DOMAIN diagram
        BY <3>1 DEF DrawnAt
      <4> QED BY <1>2, <2>4, <3>1, <4>1 DEF Walk
    <3>2. CASE i = n + 1 /\ x = h
      BY <1>6, <2>1, <2>4, <3>2
    <3> QED BY <2>6, <3>1, <3>2
  <2>11. (\A i \in DOMAIN diagram : \A b :
            diagram[i][1] \notin Gateways /\ b = <<diagram[i][2], diagram[i][3]>> =>
              \E j \in 1 .. i - 1 : \E a :
                DrawnAt(a, j) /\ diagram[j][2] = diagram[i][1] /\ Follows(a, b))'
    <3> SUFFICES ASSUME NEW i \in DOMAIN diagram', NEW b,
                        diagram'[i][1] \notin Gateways, b = <<diagram'[i][2], diagram'[i][3]>>
                 PROVE \E j \in 1 .. i - 1 : \E a :
                         DrawnAt(a, j)' /\ diagram'[j][2] = diagram'[i][1] /\ Follows(a, b)'
      OBVIOUS
    <3>1. i \in DOMAIN diagram
      BY <1>6, <2>4
    <3>2. PICK j \in 1 .. i - 1 :
            \E a : DrawnAt(a, j) /\ diagram[j][2] = diagram[i][1] /\ Follows(a, b)
      BY <1>2, <2>4, <3>1 DEF Walk
    <3>3. j \in DOMAIN diagram
      BY <3>2 DEF DrawnAt
    <3> QED BY <1>3, <2>4, <2>6, <3>1, <3>2, <3>3
  <2>12. (\A k \in DOMAIN frames : \E x, j :
            /\ DrawnAt(x, j) /\ diagram[j][2] = frames[k].processor
            /\ \A c : Left(c, k) => In(c, CallsOn(x)))'
    <3> SUFFICES ASSUME NEW k \in DOMAIN frames'
                 PROVE \E x, j :
                         /\ DrawnAt(x, j)' /\ diagram'[j][2] = frames'[k].processor
                         /\ \A c : Left(c, k)' => In(c, CallsOn(x))
      BY <1>3 DEF In
    <3>1. CASE k \in DOMAIN frames
      <4>1. PICK x, j : /\ DrawnAt(x, j) /\ diagram[j][2] = frames[k].processor
                        /\ \A c : Left(c, k) => In(c, CallsOn(x))
        BY <1>2, <3>1 DEF Walk
      <4>2. j \in DOMAIN diagram
        BY <4>1 DEF DrawnAt
      <4>3. k # k0 + 1
        BY <2>5, <3>1
      <4> QED BY <2>4, <2>5, <2>6, <2>7, <3>1, <4>1, <4>2, <4>3
    <3>2. CASE k = k0 + 1
      <4>1. \A c : ~ Left(c, k)
        BY <2>5, <3>2 DEF Left
      <4> PICK x, j : x = h /\ j = n + 1
        OBVIOUS
      <4>2. DrawnAt(x, j)'
        BY <2>6
      <4>3. diagram'[j][2] = frames'[k].processor
        <5>1. diagram'[j][2] = Leads(h)
          BY <2>4
        <5> QED BY <2>5, <3>2, <5>1
      <4>4. \A c : Left(c, k)' => In(c, CallsOn(x))
        BY <2>7, <4>1
      <4> QED BY <4>2, <4>3, <4>4
    <3> QED BY <2>5, <3>1, <3>2
  <2>13. (\A x, c : IsDrawn(x) /\ In(c, CallsOn(x)) /\ Followed(c) =>
            Settled(HopOf(c)) \/ \E k : Left(c, k))'
    <3> SUFFICES ASSUME NEW x, NEW c, IsDrawn(x)', In(c, CallsOn(x)), Followed(c)
                 PROVE Settled(HopOf(c))' \/ \E k : Left(c, k)'
      BY <1>3 DEF In, Followed
    <3>1. CASE IsDrawn(x)
      BY <1>2, <2>7, <2>9, <3>1 DEF Walk
    <3>2. CASE x = h
      BY <2>7, <3>2
    <3> QED BY <2>8, <3>1, <3>2
  <2>14. (\A x \in origin : Settled(x))' /\ (entering \subseteq Reached)'
    BY <1>1, <1>2, <2>9 DEF Walk
  <2>15. Walk'
    BY <2>10, <2>11, <2>12, <2>13, <2>14 DEF Walk
  <2> QED BY <1>1, <1>2, <1>3, <1>4, <1>9, <2>4, <2>5, <2>15 DEF FlowInv, WalkTypes, S, F
<1> QED BY <1>1, <1>5, <1>7, <1>8, <1>9 DEF h

LEMMA FlowCall ==
  ASSUME FlowInv, NextCall
  PROVE  FlowInv'
<1> DEFINE n == Len(diagram)
           k0 == Len(frames)
           top == frames[k0]
           call == Head(top.calls)
           S == Parties \X Parties \X Repository.messages
           F == [processor : STRING, calls : Seq(CallsIn(Repository))]
<1>1. /\ flow = "walking" /\ entering = {} /\ frames # <<>> /\ top.calls # <<>>
      /\ frames' = [frames EXCEPT ![k0].calls = Tail(@)]
      /\ UNCHANGED <<repository, origin, flow>>
      /\ IF Followed(call)
         THEN /\ diagram' = Append(diagram, <<top.processor, call.on, MessageOf(call)>>)
              /\ entering' = {HopOf(call)}
         ELSE UNCHANGED <<diagram, entering>>
  BY DEF NextCall, Top, HopOf
<1>2. Repository \in Repositories /\ origin \subseteq Hops /\ Walk /\ diagram \in Seq(S) /\ frames \in Seq(F)
  BY <1>1 DEF FlowInv, WalkTypes
<1>3. /\ Repository' = Repository /\ Hops' = Hops /\ Reached' = Reached
      /\ \A x : Outs(x)' = Outs(x) /\ Leads(x)' = Leads(x) /\ CallsOn(x)' = CallsOn(x)
      /\ \A a, b : Follows(a, b)' = Follows(a, b)
  BY <1>1, SameRepository
<1>4. (Repository \in Repositories /\ origin \subseteq Hops)'
  BY <1>1, <1>2, <1>3
<1> HIDE DEF S
<1>5. /\ k0 \in Nat /\ k0 \in DOMAIN frames /\ DOMAIN frames = 1 .. k0
      /\ top.processor \in STRING /\ top.calls \in Seq(CallsIn(Repository))
  <2> HIDE DEF F
  <2>1. k0 \in Nat /\ k0 \in DOMAIN frames /\ DOMAIN frames = 1 .. k0 /\ top \in F
    BY <1>1, <1>2
  <2> HIDE DEF top, k0
  <2> QED BY <2>1 DEF F
<1>6. /\ frames' \in Seq(F) /\ DOMAIN frames' = DOMAIN frames
      /\ \A k \in DOMAIN frames : frames'[k].processor = frames[k].processor
      /\ \A k \in DOMAIN frames : k # k0 => frames'[k].calls = frames[k].calls
      /\ frames'[k0].calls = Tail(top.calls)
  <2>1. /\ DOMAIN frames' = DOMAIN frames
        /\ \A k \in DOMAIN frames : k # k0 => frames'[k] = frames[k]
        /\ frames'[k0] = [top EXCEPT !.calls = Tail(@)]
    BY <1>1, <1>5
  <2>2. top \in F /\ \A k \in DOMAIN frames : frames[k] \in F
    <3> HIDE DEF F
    <3> QED BY <1>2, <1>5
  <2>3. Tail(top.calls) \in Seq(CallsIn(Repository))
    <3> DEFINE cs == top.calls
    <3>1. cs \in Seq(CallsIn(Repository)) /\ cs # <<>>
      BY <1>1, <1>5
    <3> HIDE DEF cs
    <3>2. Tail(cs) \in Seq(CallsIn(Repository))
      BY <3>1
    <3> QED BY <3>2 DEF cs
  <2> HIDE DEF top, k0
  <2>4. /\ frames'[k0] \in F /\ frames'[k0].processor = top.processor
        /\ frames'[k0].calls = Tail(top.calls)
    BY <2>1, <2>2, <2>3 DEF F
  <2>5. \A k \in DOMAIN frames' : frames'[k] \in F
    BY <2>1, <2>2, <2>4
  <2>6. frames' = [k \in 1 .. k0 |-> frames'[k]]
    BY <1>1, <1>5
  <2>7. frames' \in Seq(F)
    <3> DEFINE f == frames'
    <3>1. k0 \in Nat /\ f = [k \in 1 .. k0 |-> f[k]] /\ \A k \in 1 .. k0 : f[k] \in F
      BY <1>5, <2>1, <2>5, <2>6
    <3> HIDE DEF f, F
    <3>2. [k \in 1 .. k0 |-> f[k]] \in Seq(F)
      BY <3>1, IsASeq
    <3> QED BY <3>1, <3>2 DEF f
  <2> QED BY <2>1, <2>4, <2>7 DEF top
<1>7. In(call, top.calls) /\ \A c : In(c, top.calls) => c = call \/ In(c, Tail(top.calls))
  <2> DEFINE cs == top.calls
  <2>1. cs \in Seq(CallsIn(Repository)) /\ cs # <<>>
    BY <1>1, <1>5
  <2> HIDE DEF cs
  <2>2. 1 \in DOMAIN cs /\ cs[1] = Head(cs)
    BY <2>1
  <2>3. In(Head(cs), cs)
    BY <2>2 DEF In
  <2> QED BY <2>1, <2>3, InTail DEF cs
<1>8. \A c : In(c, Tail(top.calls)) => In(c, top.calls)
  <2> DEFINE cs == top.calls
  <2>1. cs \in Seq(CallsIn(Repository)) /\ cs # <<>>
    BY <1>1, <1>5
  <2> HIDE DEF cs
  <2>2. ASSUME NEW i \in DOMAIN Tail(cs) PROVE i + 1 \in DOMAIN cs /\ cs[i + 1] = Tail(cs)[i]
    BY <2>1, <2>2
  <2>3. \A c : In(c, Tail(cs)) => In(c, cs)
    BY <2>2 DEF In
  <2> QED BY <2>3 DEF cs
<1>9. Left(call, k0)
  BY <1>5, <1>7 DEF Left
<1> HIDE DEF top, call, k0, F
<1>10. \A c, k : (Left(c, k)' => Left(c, k)) /\ (Left(c, k) => c = call \/ Left(c, k)')
  <2> SUFFICES ASSUME NEW c, NEW k
               PROVE (Left(c, k)' => Left(c, k)) /\ (Left(c, k) => c = call \/ Left(c, k)')
    OBVIOUS
  <2>1. CASE k \in DOMAIN frames /\ k # k0
    BY <1>6, <2>1 DEF Left, In
  <2>2. CASE k = k0
    <3>1. (Left(c, k) <=> In(c, top.calls)) /\ (Left(c, k)' <=> In(c, Tail(top.calls)))
      BY <1>5, <1>6, <2>2 DEF Left, In, top
    <3> QED BY <1>7, <1>8, <3>1
  <2>3. CASE k \notin DOMAIN frames
    BY <1>6, <2>3 DEF Left
  <2> QED BY <2>1, <2>2, <2>3
<1>11. PICK h, j0 : /\ DrawnAt(h, j0) /\ diagram[j0][2] = top.processor
                    /\ \A c : Left(c, k0) => In(c, CallsOn(h))
  BY <1>2, <1>5 DEF Walk, top
<1>12. h \in Reached /\ h \in Hops /\ Outs(h) # {} /\ top.processor = Leads(h) /\ top.processor \notin Gateways
  <2>1. h \in Reached /\ Outs(h) # {} /\ top.processor = Leads(h)
    BY <1>2, <1>11 DEF Walk
  <2>2. h \in Hops
    BY <1>2, <2>1, ReachedIs
  <2> QED BY <1>2, <2>1, <2>2, HandlersAre
<1>13. Followed(call) => Follows(h, HopOf(call)) /\ HopOf(call) \in Reached
  <2>1. In(call, CallsOn(h))
    BY <1>9, <1>11
  <2>2. Followed(call) => Follows(h, HopOf(call))
    BY <1>2, <1>12, <2>1, FollowsIs DEF In
  <2> QED BY <1>2, <1>12, <2>2, ReachedIs
<1>14. CASE ~ Followed(call)
  <2>1. UNCHANGED <<diagram, entering>>
    BY <1>1, <1>14
  <2>2. (\A x, i : DrawnAt(x, i)' <=> DrawnAt(x, i)) /\ (\A x : IsDrawn(x)' <=> IsDrawn(x))
    BY <2>1 DEF DrawnAt, IsDrawn
  <2>3. \A x : Settled(x)' <=> Settled(x)
    BY <1>3, <2>1, <2>2 DEF Settled
  <2>4. (\A k \in DOMAIN frames : \E x, j :
            /\ DrawnAt(x, j) /\ diagram[j][2] = frames[k].processor
            /\ \A c : Left(c, k) => In(c, CallsOn(x)))'
    <3> SUFFICES ASSUME NEW k \in DOMAIN frames
                 PROVE \E x, j :
                         /\ DrawnAt(x, j)' /\ diagram'[j][2] = frames'[k].processor
                         /\ \A c : Left(c, k)' => In(c, CallsOn(x))
      BY <1>3, <1>6 DEF In
    <3>1. PICK x, j : /\ DrawnAt(x, j) /\ diagram[j][2] = frames[k].processor
                      /\ \A c : Left(c, k) => In(c, CallsOn(x))
      BY <1>2 DEF Walk
    <3> QED BY <1>6, <1>10, <2>1, <2>2, <3>1
  <2>5. (\A x, c : IsDrawn(x) /\ In(c, CallsOn(x)) /\ Followed(c) =>
            Settled(HopOf(c)) \/ \E k : Left(c, k))'
    <3> SUFFICES ASSUME NEW x, NEW c, IsDrawn(x)', In(c, CallsOn(x)), Followed(c)
                 PROVE Settled(HopOf(c))' \/ \E k : Left(c, k)'
      BY <1>3 DEF In, Followed
    <3> QED BY <1>2, <1>10, <1>14, <2>2, <2>3 DEF Walk
  <2>6. Walk'
    BY <1>2, <1>3, <1>1, <2>1, <2>2, <2>3, <2>4, <2>5 DEF Walk
  <2> QED BY <1>1, <1>2, <1>3, <1>4, <1>6, <2>1, <2>6 DEF FlowInv, WalkTypes, S, F
<1>15. CASE Followed(call)
  <2>1. HopOf(call)[1] \in Gateways /\ HopOf(call)[2] \in Repository.messages
        /\ HopOf(call) = <<call.on, MessageOf(call)>>
    <3>1. HopOf(call) \in Hops /\ HopOf(call) = <<call.on, MessageOf(call)>>
      BY <1>2, <1>13, <1>15, ReachedIs DEF HopOf
    <3> QED BY <3>1 DEF Hops
  <2>2. <<top.processor, call.on, MessageOf(call)>> \in S
    BY <1>5, <2>1 DEF S, Parties
  <2>3. /\ n \in Nat /\ DOMAIN diagram = 1 .. n
        /\ diagram' \in Seq(S) /\ DOMAIN diagram' = 1 .. n + 1
        /\ \A i \in DOMAIN diagram : diagram'[i] = diagram[i]
        /\ diagram'[n + 1] = <<top.processor, call.on, MessageOf(call)>>
        /\ \A x, i : DrawnAt(x, i)' <=>
             DrawnAt(x, i) \/ (i = n + 1 /\ top.processor \in Gateways /\ x = <<top.processor, MessageOf(call)>>)
    BY <1>1, <1>2, <1>15, <2>2, LineIsDrawn
  <2> HIDE DEF n
  <2>4. (\A x, i : DrawnAt(x, i)' <=> DrawnAt(x, i)) /\ (\A x : IsDrawn(x)' <=> IsDrawn(x))
    BY <1>12, <2>3 DEF IsDrawn
  <2>5. \A x : Settled(x) => Settled(x)'
    BY <1>1, <1>3, <2>4 DEF Settled
  <2>6. (\A x, i : DrawnAt(x, i) => x \in Reached /\ Outs(x) # {} /\ diagram[i][2] = Leads(x))'
    <3> SUFFICES ASSUME NEW x, NEW i, DrawnAt(x, i)
                 PROVE x \in Reached /\ Outs(x) # {} /\ diagram'[i][2] = Leads(x)
      BY <1>3, <2>4
    <3>1. i \in DOMAIN diagram
      BY DEF DrawnAt
    <3> QED BY <1>2, <2>3, <3>1 DEF Walk
  <2>7. (\A i \in DOMAIN diagram : \A b :
            diagram[i][1] \notin Gateways /\ b = <<diagram[i][2], diagram[i][3]>> =>
              \E j \in 1 .. i - 1 : \E a :
                DrawnAt(a, j) /\ diagram[j][2] = diagram[i][1] /\ Follows(a, b))'
    <3> SUFFICES ASSUME NEW i \in DOMAIN diagram', NEW b,
                        diagram'[i][1] \notin Gateways, b = <<diagram'[i][2], diagram'[i][3]>>
                 PROVE \E j \in 1 .. i - 1 : \E a :
                         DrawnAt(a, j)' /\ diagram'[j][2] = diagram'[i][1] /\ Follows(a, b)'
      OBVIOUS
    <3>1. CASE i \in DOMAIN diagram
      <4>1. PICK j \in 1 .. i - 1 :
              \E a : DrawnAt(a, j) /\ diagram[j][2] = diagram[i][1] /\ Follows(a, b)
        BY <1>2, <2>3, <3>1 DEF Walk
      <4>2. j \in DOMAIN diagram
        BY <4>1 DEF DrawnAt
      <4> QED BY <1>3, <2>3, <2>4, <3>1, <4>1, <4>2
    <3>2. CASE i = n + 1
      <4>1. b = HopOf(call) /\ diagram'[i][1] = top.processor
        BY <2>1, <2>3, <3>2
      <4>2. j0 \in DOMAIN diagram
        BY <1>11 DEF DrawnAt
      <4>3. j0 \in 1 .. i - 1 /\ diagram'[j0] = diagram[j0]
        BY <2>3, <3>2, <4>2
      <4>4. DrawnAt(h, j0)' /\ diagram'[j0][2] = diagram'[i][1] /\ Follows(h, b)'
        BY <1>3, <1>11, <1>13, <1>15, <2>4, <4>1, <4>3
      <4> QED BY <4>3, <4>4
    <3>3. i \in DOMAIN diagram \/ i = n + 1
      BY <2>3
    <3> QED BY <3>1, <3>2, <3>3
  <2>8. (\A k \in DOMAIN frames : \E x, j :
            /\ DrawnAt(x, j) /\ diagram[j][2] = frames[k].processor
            /\ \A c : Left(c, k) => In(c, CallsOn(x)))'
    <3> SUFFICES ASSUME NEW k \in DOMAIN frames
                 PROVE \E x, j :
                         /\ DrawnAt(x, j)' /\ diagram'[j][2] = frames'[k].processor
                         /\ \A c : Left(c, k)' => In(c, CallsOn(x))
      BY <1>3, <1>6 DEF In
    <3>1. PICK x, j : /\ DrawnAt(x, j) /\ diagram[j][2] = frames[k].processor
                      /\ \A c : Left(c, k) => In(c, CallsOn(x))
      BY <1>2 DEF Walk
    <3>2. j \in DOMAIN diagram
      BY <3>1 DEF DrawnAt
    <3> QED BY <1>6, <1>10, <2>3, <2>4, <3>1, <3>2
  <2>9. (\A x, c : IsDrawn(x) /\ In(c, CallsOn(x)) /\ Followed(c) =>
            Settled(HopOf(c)) \/ \E k : Left(c, k))'
    <3> SUFFICES ASSUME NEW x, NEW c, IsDrawn(x)', In(c, CallsOn(x)), Followed(c)
                 PROVE Settled(HopOf(c))' \/ \E k : Left(c, k)'
      BY <1>3 DEF In, Followed
    <3>1. \A y : y = HopOf(call) => Settled(y)'
      BY <1>1, <1>15 DEF Settled, HopOf
    <3>2. c = call => Settled(HopOf(c))'
      BY <3>1
    <3> QED BY <1>2, <1>10, <2>4, <2>5, <3>2 DEF Walk
  <2>10. (\A x \in origin : Settled(x))' /\ (entering \subseteq Reached)'
    BY <1>1, <1>2, <1>3, <1>13, <1>15, <2>5 DEF Walk
  <2>11. Walk'
    BY <2>6, <2>7, <2>8, <2>9, <2>10 DEF Walk
  <2> QED BY <1>1, <1>2, <1>3, <1>4, <1>6, <2>3, <2>11 DEF FlowInv, WalkTypes, S, F
<1> QED BY <1>14, <1>15

LEMMA FlowReturn ==
  ASSUME FlowInv, Return
  PROVE  FlowInv'
<1> DEFINE k0 == Len(frames)
           F == [processor : STRING, calls : Seq(CallsIn(Repository))]
<1>1. /\ flow = "walking" /\ entering = {} /\ frames # <<>> /\ frames[k0].calls = <<>>
      /\ frames' = SubSeq(frames, 1, k0 - 1)
      /\ UNCHANGED <<repository, origin, entering, diagram, flow>>
  BY DEF Return, Top
<1>2. Repository \in Repositories /\ origin \subseteq Hops /\ Walk /\ WalkTypes /\ frames \in Seq(F)
  BY <1>1 DEF FlowInv, WalkTypes
<1>3. /\ Repository' = Repository /\ Hops' = Hops /\ Reached' = Reached
      /\ \A x : Outs(x)' = Outs(x) /\ Leads(x)' = Leads(x) /\ CallsOn(x)' = CallsOn(x)
      /\ \A a, b : Follows(a, b)' = Follows(a, b)
  BY <1>1, SameRepository
<1> HIDE DEF F
<1>4. /\ k0 \in Nat /\ DOMAIN frames = 1 .. k0 /\ frames' \in Seq(F) /\ DOMAIN frames' = 1 .. k0 - 1
      /\ \A k \in 1 .. k0 - 1 : frames'[k] = frames[k]
  <2>1. k0 \in Nat /\ DOMAIN frames = 1 .. k0 /\ k0 # 0
    BY <1>1, <1>2
  <2>2. \A k \in 1 .. k0 - 1 : frames[k] \in F
    BY <1>2, <2>1
  <2>3. frames' = [k \in 1 .. k0 - 1 |-> frames[k]]
    BY <1>1, <1>2, <2>1
  <2>4. k0 - 1 \in Nat
    BY <2>1
  <2>5. frames' \in Seq(F)
    BY <2>2, <2>3, <2>4, IsASeq
  <2> QED BY <2>1, <2>3, <2>5
<1> HIDE DEF k0
<1>5. \A c, k : Left(c, k)' <=> Left(c, k)
  <2> SUFFICES ASSUME NEW c, NEW k PROVE Left(c, k)' <=> Left(c, k)
    OBVIOUS
  <2>1. CASE k \in 1 .. k0 - 1
    BY <1>4, <2>1 DEF Left, In
  <2>2. CASE k = k0
    BY <1>1, <1>4, <2>2 DEF Left, In
  <2>3. CASE k \notin 1 .. k0
    BY <1>4, <2>3 DEF Left
  <2> QED BY <1>4, <2>1, <2>2, <2>3
<1>6. (\A x, i : DrawnAt(x, i)' <=> DrawnAt(x, i)) /\ (\A x : IsDrawn(x)' <=> IsDrawn(x))
  BY <1>1 DEF DrawnAt, IsDrawn
<1>7. \A x : Settled(x)' <=> Settled(x)
  BY <1>1, <1>3, <1>6 DEF Settled
<1>8. (\A k \in DOMAIN frames : \E x, j :
         /\ DrawnAt(x, j) /\ diagram[j][2] = frames[k].processor
         /\ \A c : Left(c, k) => In(c, CallsOn(x)))'
  <2> SUFFICES ASSUME NEW k \in DOMAIN frames'
               PROVE \E x, j :
                       /\ DrawnAt(x, j)' /\ diagram'[j][2] = frames'[k].processor
                       /\ \A c : Left(c, k)' => In(c, CallsOn(x))
    BY <1>3 DEF In
  <2>1. k \in DOMAIN frames /\ frames'[k] = frames[k]
    BY <1>4
  <2>2. PICK x, j : /\ DrawnAt(x, j) /\ diagram[j][2] = frames[k].processor
                    /\ \A c : Left(c, k) => In(c, CallsOn(x))
    BY <1>2, <2>1 DEF Walk
  <2> QED BY <1>1, <1>5, <1>6, <2>1, <2>2
<1>9. (\A x, c : IsDrawn(x) /\ In(c, CallsOn(x)) /\ Followed(c) =>
         Settled(HopOf(c)) \/ \E k : Left(c, k))'
  <2> SUFFICES ASSUME NEW x, NEW c, IsDrawn(x)', In(c, CallsOn(x)), Followed(c)
               PROVE Settled(HopOf(c))' \/ \E k : Left(c, k)'
    BY <1>3 DEF In, Followed
  <2> QED BY <1>2, <1>5, <1>6, <1>7 DEF Walk
<1>10. Walk'
  BY <1>1, <1>2, <1>3, <1>6, <1>7, <1>8, <1>9 DEF Walk
<1> QED BY <1>1, <1>2, <1>3, <1>4, <1>10 DEF FlowInv, WalkTypes, F

LEMMA FlowSame ==
  ASSUME FlowInv, UNCHANGED <<repository, origin, frames, entering, diagram>>,
         flow' = flow \/ (flow = "walking" /\ entering = {} /\ frames = <<>> /\ flow' = "done")
  PROVE  FlowInv'
<1>1. /\ Repository' = Repository /\ Hops' = Hops /\ Reached' = Reached
      /\ \A x : Outs(x)' = Outs(x) /\ Leads(x)' = Leads(x) /\ CallsOn(x)' = CallsOn(x)
      /\ \A a, b : Follows(a, b)' = Follows(a, b)
  BY SameRepository
<1>2. /\ \A h, i : DrawnAt(h, i)' <=> DrawnAt(h, i)
      /\ \A c, k : Left(c, k)' <=> Left(c, k)
  BY DEF DrawnAt, Left, In
<1>3. \A h : IsDrawn(h)' <=> IsDrawn(h)
  BY <1>2 DEF IsDrawn
<1>4. \A h : Settled(h)' <=> Settled(h)
  BY <1>1, <1>3 DEF Settled
<1>5. ASSUME Walk PROVE (\A k \in DOMAIN frames : \E x, j :
         /\ DrawnAt(x, j) /\ diagram[j][2] = frames[k].processor
         /\ \A c : Left(c, k) => In(c, CallsOn(x)))'
  <2> SUFFICES ASSUME NEW k \in DOMAIN frames
               PROVE \E x, j :
                       /\ DrawnAt(x, j)' /\ diagram'[j][2] = frames'[k].processor
                       /\ \A c : Left(c, k)' => In(c, CallsOn(x))
    BY <1>1 DEF In
  <2> QED BY <1>2, <1>5 DEF Walk
<1>6. ASSUME Walk PROVE (\A x, c : IsDrawn(x) /\ In(c, CallsOn(x)) /\ Followed(c) =>
         Settled(HopOf(c)) \/ \E k : Left(c, k))'
  <2> SUFFICES ASSUME NEW x, NEW c, IsDrawn(x)', In(c, CallsOn(x)), Followed(c)
               PROVE Settled(HopOf(c))' \/ \E k : Left(c, k)'
    BY <1>1 DEF In, Followed
  <2> QED BY <1>2, <1>3, <1>4, <1>6 DEF Walk
<1>7. Walk => Walk'
  BY <1>1, <1>2, <1>4, <1>5, <1>6 DEF Walk
<1> QED BY <1>1, <1>7 DEF FlowInv, WalkTypes

LEMMA FlowStep == FlowInv /\ [FlowNext]_flowVars => FlowInv'
<1> SUFFICES ASSUME FlowInv, [FlowNext]_flowVars PROVE FlowInv'
  OBVIOUS
<1>1. CASE EndOfFlow \/ UNCHANGED flowVars
  BY <1>1, FlowSame DEF EndOfFlow, flowVars
<1> QED BY <1>1, FlowBuild, FlowEnter, FlowCall, FlowReturn DEF FlowNext

(* A finished diagram has the hop of every message that can follow, and of *)
(* no other.                                                               *)
THEOREM DiagramIsComplete == FlowSpec => []FlowIsDrawn
<1>1. ASSUME FlowInv, flow = "done" PROVE FlowIsDrawn
  <2>1. /\ Repository \in Repositories /\ origin \subseteq Hops /\ Walk /\ WalkTypes
        /\ frames = <<>> /\ entering = {}
    BY <1>1 DEF FlowInv
  <2>2. /\ Reached \subseteq Hops
        /\ \A S \in SUBSET Hops :
             origin \subseteq S /\ (\A a \in S : \A b : Follows(a, b) => b \in S) => Reached \subseteq S
    BY <2>1, ReachedIs
  <2>3. \A c, k : ~ Left(c, k)
    BY <2>1 DEF Left
  <2> DEFINE S == {h \in Hops : Outs(h) = {} \/ IsDrawn(h)}
  <2>4. \A h \in S : \A b : Follows(h, b) => b \in S
    <3> SUFFICES ASSUME NEW h \in S, NEW b, Follows(h, b) PROVE b \in S
      OBVIOUS
    <3>1. b \in Hops /\ Outs(h) # {}
      BY <2>1, FollowsIs
    <3>2. PICK i \in DOMAIN CallsOn(h) : Followed(CallsOn(h)[i]) /\ b = HopOf(CallsOn(h)[i])
      BY <2>1, FollowsIs
    <3>3. IsDrawn(h) /\ In(CallsOn(h)[i], CallsOn(h))
      BY <3>1 DEF In
    <3>4. Settled(HopOf(CallsOn(h)[i]))
      BY <2>1, <2>3, <3>2, <3>3 DEF Walk
    <3> QED BY <2>1, <3>1, <3>2, <3>4 DEF Settled
  <2>5. origin \subseteq S
    BY <2>1 DEF Walk, Settled
  <2>6. Reached \subseteq S
    <3>1. S \in SUBSET Hops
      OBVIOUS
    <3> HIDE DEF S
    <3> QED BY <2>2, <2>4, <2>5, <3>1
  <2>7. \A h \in Hops : Outs(h) # {} <=>
          \E i \in DOMAIN Repository.bindings[h[1]] :
            LET b == Repository.bindings[h[1]][i] IN
              b.dir = "out" /\ b.msg = h[2] /\ b.toQueue # NoQueue
    <3> SUFFICES ASSUME NEW h \in Hops
                 PROVE Outs(h) # {} <=>
                         \E i \in DOMAIN Repository.bindings[h[1]] :
                           LET b == Repository.bindings[h[1]][i] IN
                             b.dir = "out" /\ b.msg = h[2] /\ b.toQueue # NoQueue
      OBVIOUS
    <3>1. \A i \in Outs(h) : Repository.bindings[h[1]][i].toQueue # NoQueue
      <4>1. NoQueue.queues = <<>>
        BY DEF NoQueue
      <4>2. \A i \in Outs(h) : Repository.bindings[h[1]][i].toQueue.queues # <<>>
        BY <2>1, RepositoryIs
      <4> QED BY <4>1, <4>2
    <3>2. \A i : i \in Outs(h) <=>
            /\ i \in DOMAIN Repository.bindings[h[1]]
            /\ Repository.bindings[h[1]][i].dir = "out" /\ Repository.bindings[h[1]][i].msg = h[2]
      BY DEF Outs
    <3> QED BY <3>1, <3>2
  <2> DEFINE lines == {i \in DOMAIN diagram : diagram[i][1] \in Gateways}
             drawn == {<<diagram[i][1], diagram[i][3]>> : i \in lines}
             due == {h \in Reached : \E i \in DOMAIN Repository.bindings[h[1]] :
                       LET b == Repository.bindings[h[1]][i] IN
                         b.dir = "out" /\ b.msg = h[2] /\ b.toQueue # NoQueue}
  <2>8. \A h : h \in drawn <=> IsDrawn(h)
    BY DEF IsDrawn, DrawnAt
  <2>9. \A h : h \in due <=> h \in Reached /\ Outs(h) # {}
    BY <2>2, <2>7
  <2>10. \A h : IsDrawn(h) <=> h \in Reached /\ Outs(h) # {}
    BY <2>1, <2>6 DEF Walk, IsDrawn
  <2>11. drawn = due
    <3> HIDE DEF drawn, due
    <3> QED BY <2>8, <2>9, <2>10
  <2>12. \A i \in DOMAIN diagram : diagram[i][1] \notin Gateways =>
           \E j \in 1 .. i - 1 :
             /\ diagram[j][2] = diagram[i][1] /\ diagram[j][1] \in Gateways
             /\ Follows(<<diagram[j][1], diagram[j][3]>>, <<diagram[i][2], diagram[i][3]>>)
    <3> SUFFICES ASSUME NEW i \in DOMAIN diagram, diagram[i][1] \notin Gateways
                 PROVE \E j \in 1 .. i - 1 :
                         /\ diagram[j][2] = diagram[i][1] /\ diagram[j][1] \in Gateways
                         /\ Follows(<<diagram[j][1], diagram[j][3]>>, <<diagram[i][2], diagram[i][3]>>)
      OBVIOUS
    <3>1. PICK j \in 1 .. i - 1 : \E a :
            /\ DrawnAt(a, j) /\ diagram[j][2] = diagram[i][1]
            /\ Follows(a, <<diagram[i][2], diagram[i][3]>>)
      BY <2>1 DEF Walk
    <3> QED BY <3>1 DEF DrawnAt
  <2> QED BY <2>11, <2>12 DEF FlowIsDrawn
<1>2. FlowInv => FlowIsDrawn
  BY <1>1 DEF FlowIsDrawn
<1> QED BY <1>2, FlowStart, FlowStep, PTL DEF FlowSpec

-----------------------------------------------------------------------------
(* A call of a logger, and what Sentry is given of it.                     *)

LogsSpec == LogInit /\ [][LogNext]_logVars

(* How often a value is in a sequence; in two, one after the other; and    *)
(* among what filter() keeps of it.                                        *)
LEMMA TimesIs ==
  ASSUME NEW S, NEW s \in Seq(S), NEW x
  PROVE  Times(x, s) \in Nat /\ IsFiniteSet({i \in DOMAIN s : s[i] = x})
<1>1. Len(s) \in Nat /\ DOMAIN s = 1 .. Len(s)
  OBVIOUS
<1>2. IsFiniteSet(DOMAIN s)
  BY <1>1, ToNth
<1>3. {i \in DOMAIN s : s[i] = x} \in SUBSET DOMAIN s
  OBVIOUS
<1>4. IsFiniteSet({i \in DOMAIN s : s[i] = x})
  BY <1>2, <1>3, FS_Subset
<1> QED BY <1>4, FS_CardinalityType DEF Times

LEMMA TimesOfOne ==
  ASSUME NEW x
  PROVE  Times(x, <<x>>) = 1
<1>1. DOMAIN <<x>> = 1 .. 1 /\ <<x>>[1] = x
  OBVIOUS
<1>2. {i \in DOMAIN <<x>> : <<x>>[i] = x} = {1}
  BY <1>1
<1> QED BY <1>2, FS_Singleton DEF Times

LEMMA TimesOfNone ==
  ASSUME NEW s, NEW x, \A i \in DOMAIN s : s[i] # x
  PROVE  Times(x, s) = 0
<1>1. {i \in DOMAIN s : s[i] = x} = {}
  OBVIOUS
<1> QED BY <1>1, FS_EmptySet DEF Times

LEMMA TimesConcat ==
  ASSUME NEW S, NEW s \in Seq(S), NEW t \in Seq(S), NEW x
  PROVE  Times(x, s \o t) = Times(x, s) + Times(x, t)
<1> DEFINE A == {i \in DOMAIN s : s[i] = x}
           B == {i \in DOMAIN t : t[i] = x}
           C == {i \in DOMAIN (s \o t) : (s \o t)[i] = x}
           D == {i \in C : Len(s) < i}
           shift == [i \in B |-> i + Len(s)]
<1>1. /\ s \o t \in Seq(S) /\ Len(s) \in Nat /\ Len(t) \in Nat
      /\ DOMAIN s = 1 .. Len(s) /\ DOMAIN t = 1 .. Len(t) /\ DOMAIN (s \o t) = 1 .. Len(s) + Len(t)
      /\ \A i \in 1 .. Len(s) + Len(t) : (s \o t)[i] = IF i <= Len(s) THEN s[i] ELSE t[i - Len(s)]
  OBVIOUS
<1>2. IsFiniteSet(A) /\ IsFiniteSet(B) /\ IsFiniteSet(C)
  BY <1>1, TimesIs
<1>3. \A i \in B : i + Len(s) \in D
  <2> SUFFICES ASSUME NEW i \in B PROVE i + Len(s) \in D
    OBVIOUS
  <2>1. i \in 1 .. Len(t) /\ t[i] = x
    BY <1>1
  <2>2. /\ i + Len(s) \in 1 .. Len(s) + Len(t) /\ ~ i + Len(s) <= Len(s) /\ Len(s) < i + Len(s)
        /\ i + Len(s) - Len(s) = i
    BY <1>1, <2>1
  <2> QED BY <1>1, <2>1, <2>2
<1>4. \A j \in D : j - Len(s) \in B /\ shift[j - Len(s)] = j
  <2> SUFFICES ASSUME NEW j \in D PROVE j - Len(s) \in B /\ shift[j - Len(s)] = j
    OBVIOUS
  <2>1. j \in 1 .. Len(s) + Len(t) /\ Len(s) < j /\ (s \o t)[j] = x
    BY <1>1
  <2>2. /\ ~ j <= Len(s) /\ j - Len(s) \in 1 .. Len(t) /\ j - Len(s) + Len(s) = j
    BY <1>1, <2>1
  <2>3. t[j - Len(s)] = x
    BY <1>1, <2>1, <2>2
  <2>4. j - Len(s) \in B
    BY <1>1, <2>2, <2>3
  <2> QED BY <2>2, <2>4
<1>5. shift \in Bijection(B, D)
  <2>1. \A i, j \in B : i + Len(s) = j + Len(s) => i = j
    BY <1>1
  <2> QED BY <1>3, <1>4, <2>1 DEF Bijection, Injection, Surjection, IsInjective
<1>6. IsFiniteSet(D) /\ Cardinality(D) = Cardinality(B)
  BY <1>2, <1>5, FS_Bijection DEF ExistsBijection
<1>7. C = A \cup D /\ A \cap D = {}
  <2>1. \A i \in A : i \in C /\ i \notin D
    BY <1>1
  <2>2. \A i \in C : i \notin D => i \in A
    BY <1>1
  <2>3. D \subseteq C
    OBVIOUS
  <2> HIDE DEF A, C, D
  <2> QED BY <2>1, <2>2, <2>3
<1>8. Cardinality(A) \in Nat /\ Cardinality(D) \in Nat
  BY <1>2, <1>6, FS_CardinalityType
<1>9. Cardinality(C) = Cardinality(A) + Cardinality(D)
  <2>1. Cardinality(A \cup D) = Cardinality(A) + Cardinality(D) - Cardinality(A \cap D)
    BY <1>2, <1>6, FS_Union
  <2>2. Cardinality(A \cap D) = 0
    BY <1>7, FS_EmptySet
  <2> HIDE DEF A, C, D
  <2> QED BY <1>7, <1>8, <2>1, <2>2
<1> QED BY <1>6, <1>9 DEF Times

LEMMA TimesPicked ==
  ASSUME NEW S, NEW list \in Seq(S), NEW indices \in SUBSET DOMAIN list, NEW x,
         \A i \in DOMAIN list : list[i] = x => i \in indices
  PROVE  Times(x, Picked(list, indices)) = Times(x, list)
<1> DEFINE c == Cardinality(indices)
           A == {i \in DOMAIN list : list[i] = x}
           B == {k \in 1 .. c : list[Kth(indices, k)] = x}
           kth == [k \in B |-> Kth(indices, k)]
<1>1. Len(list) \in Nat /\ DOMAIN list = 1 .. Len(list)
  OBVIOUS
<1>2. /\ c \in Nat
      /\ \A k \in 1 .. c : Kth(indices, k) \in indices
      /\ \A k, l \in 1 .. c : Kth(indices, k) = Kth(indices, l) => k = l
      /\ \A i \in indices : \E k \in 1 .. c : Kth(indices, k) = i
  BY <1>1, KthOf, ZenonT(30)
<1>3. {k \in DOMAIN Picked(list, indices) : Picked(list, indices)[k] = x} = B
  <2>1. DOMAIN Picked(list, indices) = 1 .. c /\ \A k \in 1 .. c : Picked(list, indices)[k] = list[Kth(indices, k)]
    BY PickedIs
  <2> HIDE DEF c
  <2> QED BY <2>1
<1> HIDE DEF c
<1>4. kth \in Injection(B, A)
  BY <1>2 DEF Injection, IsInjective
<1>5. \A i \in A : \E k \in B : kth[k] = i
  BY <1>2
<1>6. kth \in Bijection(B, A)
  BY <1>4, <1>5 DEF Bijection, Injection, Surjection, IsInjective
<1>7. IsFiniteSet(A)
  BY TimesIs
<1>8. IsFiniteSet(B)
  <2>1. IsFiniteSet(1 .. c) /\ B \in SUBSET (1 .. c)
    BY <1>2, ToNth
  <2> QED BY <2>1, FS_Subset
<1>9. Cardinality(A) = Cardinality(B)
  BY <1>6, <1>8, FS_Bijection DEF ExistsBijection
<1> QED BY <1>3, <1>9 DEF Times

-----------------------------------------------------------------------------
(* Between the call and its end: what Sentry was given before the entry,   *)
(* and what it was given because there is none.                            *)
Called == /\ "params" \in DOMAIN log
          /\ log.params \in Seq(ToSet(log.params))
          /\ Message \notin ToSet(log.params)
Reported ==
  CASE log.level = "error" -> Captured(log.params)
    [] log.level = "warn" -> <<Warning>>
    [] OTHER -> <<>>
(* What it was given, of which the caller is taken with its context.       *)
WasGiven == /\ {"given", "viaNest"} \subseteq DOMAIN log
            /\ log.given \in Seq(ToSet(log.given))
            /\ Message \notin ToSet(log.given)
            /\ log.params = IF reached \notin {"context", "thrown"} /\ log.viaNest /\ log.given # <<>>
                            THEN Tail(log.given) ELSE log.given
LogInv ==
  /\ reached # "idle" => Called /\ WasGiven
  /\ reached \in {"idle", "context", "report"} => captured = <<>>
  /\ reached \in {"idle", "context", "report", "write"} => entry = <<>>
  /\ reached = "write" => captured = Reported
  /\ reached \in {"written", "done"} =>
       captured = IF entry = <<>> THEN Reported \o Captured(log.params) ELSE Reported

LEMMA TailOfParams ==
  ASSUME NEW s, s \in Seq(ToSet(s)), s # <<>>
  PROVE  Tail(s) \in Seq(ToSet(Tail(s))) /\ ToSet(Tail(s)) \subseteq ToSet(s)
<1>1. /\ Len(s) \in Nat /\ DOMAIN s = 1 .. Len(s) /\ Tail(s) \in Seq(ToSet(s))
      /\ DOMAIN Tail(s) = 1 .. Len(s) - 1 /\ \A i \in 1 .. Len(s) - 1 : Tail(s)[i] = s[i + 1]
  OBVIOUS
<1>2. \A i \in 1 .. Len(s) - 1 : i + 1 \in 1 .. Len(s)
  BY <1>1
<1>3. ToSet(Tail(s)) \subseteq ToSet(s)
  BY <1>1, <1>2 DEF ToSet
<1>4. PICK t : t = Tail(s)
  OBVIOUS
<1>5. t \in Seq(ToSet(t))
  <2>1. Len(t) \in Nat /\ DOMAIN t = 1 .. Len(t) /\ t = [i \in 1 .. Len(t) |-> t[i]]
    <3>1. t \in Seq(ToSet(s))
      BY <1>1, <1>4
    <3> QED BY <3>1
  <2>2. \A i \in 1 .. Len(t) : t[i] \in ToSet(t)
    BY <2>1 DEF ToSet
  <2> QED BY <2>1, <2>2, IsASeq
<1> QED BY <1>3, <1>4, <1>5

LEMMA CalledThen ==
  ASSUME LogInv, reached = "context"
  PROVE  /\ WithoutCaller(log) \in Seq(ToSet(WithoutCaller(log)))
         /\ Message \notin ToSet(WithoutCaller(log))
<1>1. log.params \in Seq(ToSet(log.params)) /\ Message \notin ToSet(log.params)
  BY DEF LogInv, Called
<1>2. CASE log.viaNest /\ log.params # <<>>
  BY <1>1, <1>2, TailOfParams DEF WithoutCaller
<1>3. CASE ~ (log.viaNest /\ log.params # <<>>)
  BY <1>1, <1>3 DEF WithoutCaller
<1> QED BY <1>2, <1>3

LEMMA LogStart == LogInit => LogInv
BY DEF LogInit, LogInv

LEMMA LogStep == LogInv /\ [LogNext]_logVars => LogInv'
<1> SUFFICES ASSUME LogInv, [LogNext]_logVars PROVE LogInv'
  OBVIOUS
<1>1. CASE UNCHANGED logVars
  BY <1>1 DEF logVars, LogInv, Called, WasGiven, Reported
<1>2. ASSUME NEW logger, NEW level, NEW parent, NEW params \in Params, NEW viaNest,
             Log(logger, level, parent, params, viaNest)
      PROVE  LogInv'
  <2>1. log'.params = params /\ "params" \in DOMAIN log' /\ reached' = "context" /\ captured' = <<>> /\ entry' = <<>>
    BY <1>2 DEF Log, LogInv
  <2>2. Called'
    BY <2>1, ParamsAssumption DEF Called
  <2>3. WasGiven'
    <3>1. log'.given = params /\ {"given", "viaNest"} \subseteq DOMAIN log'
      BY <1>2 DEF Log
    <3> QED BY <2>1, <3>1, ParamsAssumption DEF WasGiven
  <2> QED BY <2>1, <2>2, <2>3 DEF LogInv
<1>3. CASE GetContext
  <2>1. captured' = <<>> /\ entry' = <<>> /\ reached' \in {"thrown", "report"}
    BY <1>3 DEF GetContext, LogInv
  <2>2. Called'
    <3>1. CASE log' = log
      BY <1>3, <3>1 DEF GetContext, LogInv, Called
    <3>2. CASE log' = [log EXCEPT !.params = WithoutCaller(log)]
      <4>1. reached = "context" /\ "params" \in DOMAIN log
        BY <1>3 DEF GetContext, LogInv, Called
      <4>2. log'.params = WithoutCaller(log) /\ "params" \in DOMAIN log'
        BY <3>2, <4>1
      <4> QED BY <4>1, <4>2, CalledThen DEF Called
    <3> QED BY <1>3, <3>1, <3>2 DEF GetContext
  <2>3. WasGiven'
    <3>1. WasGiven /\ log.params = log.given /\ "params" \in DOMAIN log
      BY <1>3 DEF GetContext, LogInv, WasGiven, Called
    <3>2. CASE log' = log /\ reached' = "thrown"
      BY <3>1, <3>2 DEF WasGiven
    <3>3. CASE log' = [log EXCEPT !.params = WithoutCaller(log)] /\ reached' = "report"
      <4>1. /\ log'.given = log.given /\ log'.viaNest = log.viaNest /\ DOMAIN log' = DOMAIN log
            /\ log'.params = WithoutCaller(log)
        BY <3>1, <3>3 DEF WasGiven
      <4> QED BY <3>1, <3>3, <4>1 DEF WasGiven, WithoutCaller
    <3> QED BY <1>3, <3>2, <3>3 DEF GetContext
  <2> QED BY <2>1, <2>2, <2>3 DEF LogInv
<1>4. CASE Report
  <2>1. /\ captured = <<>> /\ entry = <<>> /\ Called /\ WasGiven /\ log' = log /\ entry' = entry
        /\ reached = "report" /\ reached' = "write"
    BY <1>4 DEF Report, LogInv
  <2>2. Reported' = Reported /\ Called' /\ WasGiven'
    BY <2>1 DEF Reported, Called, WasGiven
  <2>3. captured' = Reported
    BY <1>4, <2>1 DEF Report, Reported
  <2> QED BY <2>1, <2>2, <2>3 DEF LogInv
<1>5. CASE WriteEntry
  <2>1. /\ captured = Reported /\ Called /\ WasGiven /\ log' = log /\ captured' = captured /\ entry' # <<>>
        /\ reached = "write" /\ reached' = "written"
    BY <1>5 DEF WriteEntry, LogInv
  <2>2. Reported' = Reported /\ Called' /\ WasGiven'
    BY <2>1 DEF Reported, Called, WasGiven
  <2> QED BY <2>1, <2>2 DEF LogInv
<1>6. CASE WriteThrows
  <2>1. /\ captured = Reported /\ Called /\ WasGiven /\ log' = log /\ captured' = captured \o Captured(log.params)
        /\ entry' = <<>> /\ reached = "write" /\ reached' = "written"
    BY <1>6 DEF WriteThrows, LogInv
  <2>2. Reported' = Reported /\ Called' /\ WasGiven'
    BY <2>1 DEF Reported, Called, WasGiven
  <2>3. captured' = Reported' \o Captured(log'.params)
    BY <2>1, <2>2
  <2> QED BY <2>1, <2>2, <2>3 DEF LogInv
<1>7. CASE LogToJob
  <2>1. /\ Called /\ WasGiven /\ log' = log /\ captured' = captured /\ entry' = entry
        /\ reached = "written" /\ reached' = "done"
    BY <1>7 DEF LogToJob, LogInv
  <2>2. Reported' = Reported /\ Called' /\ WasGiven'
    BY <2>1 DEF Reported, Called, WasGiven
  <2> QED BY <2>1, <2>2 DEF LogInv
<1> QED BY <1>1, <1>2, <1>3, <1>4, <1>5, <1>6, <1>7 DEF LogNext

(* Counted: what a call's errors and its message come to in what is        *)
(* reported once.                                                          *)
LEMMA CapturedIs ==
  ASSUME Called
  PROVE  LET errors == {p \in ToSet(log.params) : p.kind = "error"} IN
         /\ Captured(log.params) \in Seq(errors \cup {Message, Warning})
         /\ \A e \in errors : Times(e, Captured(log.params)) = Times(e, log.params)
         /\ Times(Message, Captured(log.params)) = IF errors = {} THEN 1 ELSE 0
<1> DEFINE params == log.params
           errors == {p \in ToSet(params) : p.kind = "error"}
           at == {i \in DOMAIN params : params[i].kind = "error"}
           E == Errors(params)
<1>1. /\ params \in Seq(ToSet(params)) /\ Message \notin ToSet(params)
      /\ DOMAIN params = 1 .. Len(params)
  BY DEF Called
<1>2. E = Picked(params, at) /\ Captured(params) = IF E = <<>> THEN <<Message>> ELSE E
  BY DEF Captured, Errors
<1>3. at \in SUBSET DOMAIN params
  OBVIOUS
<1>4. /\ E \in Seq(ToSet(params))
      /\ DOMAIN E = 1 .. Cardinality(at)
      /\ \A k \in 1 .. Cardinality(at) : Kth(at, k) \in at /\ E[k] = params[Kth(at, k)]
      /\ \A i \in at : In(params[i], E)
  <2> HIDE DEF at, E, params
  <2> QED BY <1>1, <1>2, <1>3, PickedIs
<1>5. \A k \in DOMAIN E : E[k] \in errors
  <2>1. \A i \in at : params[i] \in errors
    BY DEF ToSet
  <2> HIDE DEF at, E, errors
  <2> QED BY <1>4, <2>1
<1>6. \A e \in errors : e \in ToSet(params) /\ Times(e, E) = Times(e, params)
  <2> SUFFICES ASSUME NEW e \in errors PROVE e \in ToSet(params) /\ Times(e, E) = Times(e, params)
    OBVIOUS
  <2>1. \A i \in DOMAIN params : params[i] = e => i \in at
    OBVIOUS
  <2>2. e \in ToSet(params)
    OBVIOUS
  <2> HIDE DEF at, E, params
  <2> QED BY <1>1, <1>2, <1>3, <2>1, <2>2, TimesPicked
<1>7. Message \notin errors
  BY <1>1
<1>8. E \in Seq(errors)
  <2>1. Len(E) \in Nat /\ DOMAIN E = 1 .. Len(E) /\ E = [k \in 1 .. Len(E) |-> E[k]]
    <3>1. E \in Seq(ToSet(params))
      BY <1>4
    <3> HIDE DEF E, params
    <3> QED BY <3>1
  <2> HIDE DEF E, errors
  <2> QED BY <1>5, <2>1, IsASeq
<1>9. CASE E = <<>>
  <2>1. errors = {}
    <3>1. \A i \in DOMAIN params : params[i].kind # "error"
      <4>1. \A i \in at : In(params[i], <<>>)
        <5> HIDE DEF E, at, params
        <5> QED BY <1>4, <1>9
      <4>2. \A x : ~ In(x, <<>>)
        BY DEF In
      <4>3. at = {}
        <5> HIDE DEF at, params
        <5> QED BY <4>1, <4>2
      <4> QED BY <4>3
    <3> QED BY <3>1 DEF ToSet
  <2>2. Times(Message, <<Message>>) = 1
    BY TimesOfOne
  <2>3. Captured(params) = <<Message>>
    BY <1>2, <1>9
  <2>4. <<Message>> \in Seq(errors \cup {Message, Warning})
    <3> HIDE DEF errors
    <3> QED OBVIOUS
  <2> HIDE DEF errors, params
  <2> QED BY <2>1, <2>2, <2>3, <2>4 DEF errors, params
<1>10. CASE E # <<>>
  <2>1. errors # {}
    <3>1. 1 \in DOMAIN E
      <4>1. E \in Seq(ToSet(params))
        BY <1>4
      <4> HIDE DEF E, params
      <4> QED BY <4>1, <1>10
    <3> HIDE DEF E, errors
    <3> QED BY <1>5, <3>1
  <2>2. Times(Message, E) = 0
    <3> HIDE DEF E, errors
    <3> QED BY <1>5, <1>7, TimesOfNone
  <2>3. Captured(params) = E
    BY <1>2, <1>10
  <2>4. E \in Seq(errors \cup {Message, Warning})
    <3> HIDE DEF E, errors
    <3> QED BY <1>8
  <2> HIDE DEF errors, params, E
  <2>5. \A e \in errors : Times(e, Captured(params)) = Times(e, params)
    BY <1>6, <2>3
  <2> QED BY <2>1, <2>2, <2>3, <2>4, <2>5 DEF errors, params
<1> QED BY <1>9, <1>10

(* What is left of a call's parameters is what was given less the caller.  *)
LEMMA TimesOfSome ==
  ASSUME NEW S, NEW s \in Seq(S), NEW x
  PROVE  Times(x, s) > 0 <=> x \in ToSet(s)
<1> DEFINE at == {i \in DOMAIN s : s[i] = x}
<1>1. Times(x, s) = Cardinality(at) /\ Cardinality(at) \in Nat /\ IsFiniteSet(at)
  BY TimesIs DEF Times
<1>2. Cardinality(at) = 0 <=> at = {}
  BY <1>1, FS_EmptySet
<1>3. x \in ToSet(s) <=> at # {}
  BY DEF ToSet
<1> QED BY <1>1, <1>2, <1>3

LEMMA LeftIs ==
  ASSUME WasGiven, reached = "done"
  PROVE  /\ \A p : Times(p, log.params) = TimesLeft(p) /\ TimesLeft(p) \in Nat
         /\ ToSet(log.params) \subseteq ToSet(log.given)
         /\ \A p : p \in ToSet(log.params) <=> TimesLeft(p) > 0
<1> DEFINE given == log.given
           S == ToSet(given)
<1>1. given \in Seq(S)
  BY DEF WasGiven
<1>2. CASE log.viaNest /\ given # <<>>
  <2>1. log.params = Tail(given)
    BY <1>2 DEF WasGiven
  <2>2. /\ Tail(given) \in Seq(S) /\ ToSet(Tail(given)) \subseteq S
        /\ Head(given) \in S /\ given = <<Head(given)>> \o Tail(given)
    <3>1. \A s \in Seq(S) : s # <<>> => /\ Tail(s) \in Seq(S) /\ Head(s) \in S
                                       /\ s = <<Head(s)>> \o Tail(s)
      <4> HIDE DEF S
      <4> QED OBVIOUS
    <3> QED BY <1>1, <1>2, <3>1, TailOfParams
  <2>3. ASSUME NEW p PROVE Times(p, log.params) = TimesLeft(p) /\ TimesLeft(p) \in Nat
    <3> DEFINE h == Head(given)
               t == Tail(given)
    <3>1. <<h>> \in Seq(S) /\ t \in Seq(S) /\ given = <<h>> \o t
      BY <2>2
    <3>2. Times(p, <<h>>) = IF h = p THEN 1 ELSE 0
      <4>1. CASE h = p
        BY <4>1, TimesOfOne
      <4>2. CASE h # p
        <5>1. \A i \in DOMAIN <<h>> : <<h>>[i] = h
          OBVIOUS
        <5> QED BY <4>2, <5>1, TimesOfNone
      <4> QED BY <4>1, <4>2
    <3>3. Times(p, t) \in Nat
      BY <3>1, TimesIs
    <3> HIDE DEF t
    <3>4. Times(p, <<h>> \o t) = Times(p, <<h>>) + Times(p, t)
      <4> HIDE DEF S, h
      <4> QED BY <3>1, TimesConcat
    <3>5. TakenForCaller(p) <=> h = p
      BY <1>2 DEF TakenForCaller
    <3>6. Times(p, given) = Times(p, <<h>> \o t)
      BY <3>1, Zenon
    <3> HIDE DEF h, given
    <3>7. TimesLeft(p) = Times(p, given) - (IF h = p THEN 1 ELSE 0)
      BY <3>5 DEF TimesLeft, given
    <3>8. PICK n \in Nat : n = Times(p, t)
      BY <3>3
    <3>9. TimesLeft(p) = n
      BY <3>2, <3>4, <3>6, <3>7, <3>8
    <3> QED BY <3>8, <3>9, <2>1 DEF t, given
  <2>4. \A p : p \in ToSet(log.params) <=> Times(p, log.params) > 0
    BY <2>1, <2>2, TimesOfSome
  <2> QED BY <2>1, <2>2, <2>3, <2>4
<1>3. CASE ~ (log.viaNest /\ given # <<>>)
  <2>1. log.params = given
    BY <1>3 DEF WasGiven
  <2>2. ASSUME NEW p PROVE TimesLeft(p) = Times(p, given) /\ Times(p, given) \in Nat
    <3>1. Times(p, given) \in Nat
      BY <1>1, TimesIs
    <3>2. ~ TakenForCaller(p)
      BY <1>3 DEF TakenForCaller
    <3> QED BY <3>1, <3>2 DEF TimesLeft
  <2>3. \A p : p \in ToSet(given) <=> Times(p, given) > 0
    BY <1>1, TimesOfSome
  <2> HIDE DEF S
  <2> QED BY <2>1, <2>2, <2>3
<1> QED BY <1>2, <1>3

(* At its end a call has had every error that is left, or its message,     *)
(* reported once for its level and once for want of an entry, and nothing  *)
(* else but a warning; what was taken for the caller is not reported.      *)
THEOREM ErrorsReported == LogsSpec => []ErrorsReachSentry
<1>1. LogInv => ErrorsReachSentry
  <2> DEFINE asGiven == {p \in ToSet(log.given) : p.kind = "error"}
             remaining == {e \in asGiven : TimesLeft(e) > 0}
             errors == {p \in ToSet(log.params) : p.kind = "error"}
             S == errors \cup {Message, Warning}
             rounds == (IF log.level = "error" THEN 1 ELSE 0) + (IF entry = <<>> THEN 1 ELSE 0)
             C == Captured(log.params)
  <2> SUFFICES ASSUME LogInv, reached = "done"
               PROVE  /\ \A e \in asGiven : Times(e, captured) = rounds * TimesLeft(e)
                      /\ Times(Message, captured) = IF remaining = {} THEN rounds ELSE 0
                      /\ ToSet(captured) \subseteq remaining \cup {Message, Warning}
    BY DEF ErrorsReachSentry
  <2>0. Called /\ WasGiven
    BY DEF LogInv
  <2>1. captured = IF entry = <<>> THEN Reported \o C ELSE Reported
    BY DEF LogInv
  <2>10. remaining = errors
    BY <2>0, LeftIs
  <2>2. /\ C \in Seq(S)
        /\ \A e \in errors : Times(e, C) = Times(e, log.params)
        /\ Times(Message, C) = IF errors = {} THEN 1 ELSE 0
    BY <2>0, CapturedIs
  <2>3. Reported \in Seq(S) /\ Reported = IF log.level = "error" THEN C
                             ELSE IF log.level = "warn" THEN <<Warning>> ELSE <<>>
    <3> HIDE DEF errors, C
    <3>1. <<Warning>> \in Seq(S) /\ <<>> \in Seq(S)
      OBVIOUS
    <3>2. Reported = IF log.level = "error" THEN C
                     ELSE IF log.level = "warn" THEN <<Warning>> ELSE <<>>
      BY DEF Reported, C
    <3> HIDE DEF S
    <3> QED BY <2>2, <3>1, <3>2
  <2>4. captured \in Seq(S)
    <3> HIDE DEF S, C
    <3> QED BY <2>1, <2>2, <2>3
  <2>5. \A x \in errors \cup {Message} : x # Warning
    BY DEF Message, Warning, AnError, Value
  <2> HIDE DEF errors, S, C
  <2>6. ASSUME NEW x \in errors \cup {Message}
        PROVE  Times(x, captured) = rounds * Times(x, C) /\ Times(x, C) \in Nat
    <3>1. Times(x, C) \in Nat /\ Times(x, Reported) \in Nat
      BY <2>2, <2>3, TimesIs
    <3>2. Times(x, Reported) = IF log.level = "error" THEN Times(x, C) ELSE 0
      <4>1. CASE log.level = "error"
        BY <2>3, <4>1
      <4>2. CASE log.level # "error"
        <5>1. Reported = <<Warning>> \/ Reported = <<>>
          BY <2>3, <4>2
        <5>2. \A i \in DOMAIN Reported : Reported[i] # x
          BY <2>5, <5>1
        <5> QED BY <4>2, <5>2, TimesOfNone
      <4> QED BY <4>1, <4>2
    <3>3. Times(x, captured) = Times(x, Reported) + IF entry = <<>> THEN Times(x, C) ELSE 0
      <4>1. CASE entry = <<>>
        <5>1. captured = Reported \o C
          BY <2>1, <4>1
        <5> QED BY <2>2, <2>3, <4>1, <5>1, TimesConcat, ZenonT(30)
      <4>2. CASE entry # <<>>
        BY <2>1, <3>1, <4>2
      <4> QED BY <4>1, <4>2
    <3>4. PICK n : n = Times(x, C)
      OBVIOUS
    <3>5. /\ n \in Nat
          /\ Times(x, captured) = (IF log.level = "error" THEN n ELSE 0) + (IF entry = <<>> THEN n ELSE 0)
      BY <3>1, <3>2, <3>3, <3>4
    <3>6. (IF log.level = "error" THEN n ELSE 0) + (IF entry = <<>> THEN n ELSE 0) = rounds * n
      BY <3>5
    <3> QED BY <3>4, <3>5, <3>6
  <2>7. \A e \in errors : Times(e, captured) = rounds * Times(e, log.params)
    BY <2>2, <2>6
  <2>8. Times(Message, captured) = IF errors = {} THEN rounds ELSE 0
    <3>1. Times(Message, captured) = rounds * Times(Message, C)
      BY <2>6
    <3>2. rounds \in Nat /\ rounds * 1 = rounds /\ rounds * 0 = 0
      OBVIOUS
    <3> HIDE DEF rounds
    <3> QED BY <2>2, <3>1, <3>2
  <2>9. ToSet(captured) \subseteq S
    BY <2>4 DEF ToSet
  <2>11. ASSUME NEW e \in asGiven PROVE Times(e, captured) = rounds * TimesLeft(e)
    <3>1. Times(e, log.params) = TimesLeft(e) /\ TimesLeft(e) \in Nat
      BY <2>0, LeftIs
    <3>2. CASE e \in errors
      BY <2>7, <3>1, <3>2
    <3>3. CASE e \notin errors
      <4>1. TimesLeft(e) = 0
        <5>1. ~ (TimesLeft(e) > 0)
          BY <2>10, <3>3 DEF remaining
        <5> QED BY <3>1, <5>1
      <4>2. e # Message /\ e # Warning
        BY <2>0 DEF WasGiven, Message, Warning, AnError, Value
      <4>3. e \notin S
        BY <3>3, <4>2 DEF S
      <4>4. Times(e, captured) = 0
        <5>1. \A i \in DOMAIN captured : captured[i] \in S
          BY <2>4
        <5> QED BY <4>3, <5>1, TimesOfNone
      <4>5. rounds \in Nat /\ rounds * 0 = 0
        BY DEF rounds
      <4> HIDE DEF rounds
      <4> QED BY <4>1, <4>4, <4>5
    <3> QED BY <3>2, <3>3
  <2> QED BY <2>8, <2>9, <2>10, <2>11 DEF S
<1> QED BY <1>1, LogStart, LogStep, PTL DEF LogsSpec

=============================================================================
