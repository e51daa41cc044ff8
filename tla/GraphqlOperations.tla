-------------------------- MODULE GraphqlOperations --------------------------
(***************************************************************************)
(* The graphql auto-operations command of the domain tool: from a schema,  *)
(* an operation that finds one record and one that queries many for every  *)
(* query that looks like a nestjs-query resolver (graphql/command.ts,      *)
(* graphql/graphql-parse.ts).                                              *)
(*                                                                         *)
(* The type of a field is a name under wrappers, the outermost first.  The *)
(* id of a query is a word in singular or in plural.                       *)
(***************************************************************************)
EXTENDS Naturals, Sequences, FiniteSets

CONSTANT Schemas \* the schemas there are, each a sequence of nodes

(* As the language has it, a type's name is its own; none of them, nor any *)
(* scalar, is called "name".                                               *)
ASSUME SchemasAssumption ==
  \A schema \in Schemas :
    /\ \A i \in DOMAIN schema :
         /\ "fields" \in DOMAIN schema[i]
         /\ schema[i].kind \in {"type", "scalar"} => schema[i].id # "name"
    /\ \A i, j \in DOMAIN schema :
         schema[i].kind = "type" /\ schema[j].kind = "type" /\ schema[i].id = schema[j].id
           => schema[i] = schema[j]

VARIABLES
  nodes,      \* the parsed schema
  queries,    \* the queries the reduce has still to come to
  operations, \* the operations so far
  progress    \* "idle", "reduce", "done" or "failed"

gqlVars == <<nodes, queries, operations, progress>>

GqlInit ==
  /\ nodes = <<>>
  /\ queries = <<>>
  /\ operations = <<>>
  /\ progress = "idle"

-----------------------------------------------------------------------------
Nodes(kind) == {nodes[i] : i \in {j \in DOMAIN nodes : nodes[j].kind = kind}}
Roots == {"Query", "Mutation", "Subscription"}

(* getTypes, buildTypeList                                                 *)
Models == {n \in Nodes("type") : n.id \notin Roots}
DefaultScalars == {"Int", "Float", "Boolean", "String", "ID"}
ComplexScalars == DefaultScalars \cup {"JSON", "DateTime"}
AllowedScalars == DefaultScalars \cup {n.id : n \in Nodes("scalar")}
AllowedModels == {n.id : n \in Models}

(* getFieldInfo: the type's name, where the wrappers are ones it unwraps;  *)
(* else the kind of what it stopped at, which names no type.               *)
TypeOf(field) ==
  IF field.wrap \in {<<>>, <<"required">>, <<"array", "required">>,
                     <<"required", "array", "required">>}
  THEN field.type ELSE "name"

(* isNestJsQueryManyResolver: the type is a connection and the arguments   *)
(* are these three, in this order.                                         *)
Connections == {n.id : n \in {m \in Models : m.connects # {}}}
IsManyResolver(field) ==
  /\ TypeOf(field) \in Connections
  /\ field.args = <<"paging", "filter", "sorting">>

(* getModelFieldsList                                                      *)
FieldsOf(model, allowed) ==
  {f.id : f \in {g \in model.fields : TypeOf(g) \in allowed}}

(* getRelationModelList and getRelationQueries: the scalars of each field  *)
(* that leads to a model.                                                  *)
\* Mutant: every field of a relation is selected.
RelationsInFull(model) ==
  {<<f.id, {g.id : g \in UNION {n.fields : n \in {m \in Models : m.id = TypeOf(f)}}}>>
     : f \in {g \in model.fields : TypeOf(g) \in AllowedModels}}
Relations(model) ==
  LET related == {f \in model.fields : TypeOf(f) \in AllowedModels}
      leaves(f) == UNION {FieldsOf([m EXCEPT !.fields = {g \in @ : ~ IsManyResolver(g)}],
                                   ComplexScalars)
                            : m \in {n \in Models : n.id = TypeOf(f)}}
  IN  {<<f.id, leaves(f)>> : f \in {g \in related : leaves(g) # {}}}

(* The model that a connection is named after; there may be none.          *)
ModelOf(query) ==
  {m \in Models : \E c \in Models : c.id = TypeOf(query) /\ m.id \in c.connects}

Singular(id) == [id EXCEPT !.plural = FALSE]
FindById(query, model) ==
  [name |-> Singular(query.id), leaves |-> FieldsOf(model, AllowedScalars),
   nested |-> Relations(model)]
QueryMany(query, model) ==
  [name |-> query.id, leaves |-> FieldsOf(model, AllowedScalars), nested |-> {}]

AutoOperations(schema) ==
  /\ progress = "idle"
  /\ nodes' = schema
  /\ queries' = LET roots == {i \in DOMAIN schema : schema[i].id = "Query"}
                IN  IF roots = {} THEN <<>>
                    ELSE schema[CHOOSE i \in roots : \A j \in roots : i <= j].queries
  /\ progress' = "reduce"
  /\ UNCHANGED operations

Render(query, model) ==
  IF FieldsOf(model, AllowedScalars) = {} THEN UNCHANGED operations
  ELSE operations' = operations \o <<FindById(query, model), QueryMany(query, model)>>

(* A query that is not a resolver of this kind is filtered out; a model    *)
(* that is not found throws, and the command writes nothing.               *)
Reduce ==
  /\ progress = "reduce"
  /\ queries # <<>>
  /\ queries' = Tail(queries)
  /\ LET query == Head(queries) IN
       IF ~ IsManyResolver(query) THEN UNCHANGED <<operations, progress>>
       ELSE IF ModelOf(query) = {}
            THEN progress' = "failed" /\ UNCHANGED operations
            ELSE /\ Render(query, CHOOSE m \in ModelOf(query) : TRUE)
                 /\ UNCHANGED progress
  /\ UNCHANGED nodes

WriteOperations ==
  /\ progress = "reduce"
  /\ queries = <<>>
  /\ progress' = "done"
  /\ UNCHANGED <<nodes, queries, operations>>

GqlNext == (\E schema \in Schemas : AutoOperations(schema)) \/ Reduce \/ WriteOperations

-----------------------------------------------------------------------------
Leaf(type) == type \in ComplexScalars \cup {n.id : n \in Nodes("scalar") \cup Nodes("enum")}
SelectsLeaves(model, names) ==
  \A id \in names : \E f \in model.fields : f.id = id /\ Leaf(f.type)

(* What is written is valid for the schema, however its fields are         *)
(* wrapped and its models refer to each other: an operation selects fields *)
(* of its model whose types are leaves, and below a relation at least one  *)
(* field, each a leaf of the model the relation leads to.                  *)
OperationsAreValid ==
  progress = "done" =>
    \A i \in DOMAIN operations :
      \E m \in Models :
        /\ operations[i].leaves # {}
        /\ SelectsLeaves(m, operations[i].leaves)
        /\ \A r \in operations[i].nested :
             \E f \in m.fields : \E n \in Models :
               f.id = r[1] /\ f.type = n.id /\ r[2] # {} /\ SelectsLeaves(n, r[2])

=============================================================================
