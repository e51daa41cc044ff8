------------------------------ MODULE MCParts ------------------------------
(***************************************************************************)
(* Instances of the parts that share no state with the others: the tools'  *)
(* commands, the logger and, of the data grid, its columns manager, its    *)
(* queries and its filters' options.                                       *)
(* A behaviour runs one of them.                                           *)
(***************************************************************************)
EXTENDS ColumnsManager, FilterOptions, GridQueries, OpenApi, GraphqlOperations, PrismaTypeorm,
        MessageTypes, MessageFlow, Telemetry, TLC

CONSTANTS started, done, ann, bob, may, june

VARIABLE part \* the part that runs

vars == <<part, columnsVars, apiVars, gqlVars, prismaVars, flowVars, typesVars, queryVars,
          filterVars, logVars>>

-----------------------------------------------------------------------------
(* Columns: one pinned, one hidden, and a view that has them otherwise.    *)
Column(key, hidden, fixed) == [key |-> key, hidden |-> hidden, fixed |-> fixed]
MCDefault == <<Column("name", FALSE, "left"), Column("state", FALSE, "none"), Column("due", TRUE, "none")>>
MCViews == {<<Column("due", FALSE, "none"), Column("name", FALSE, "left"), Column("state", TRUE, "right")>>}
MCGroupOf == "name" :> "general" @@ "state" :> "general" @@ "due" :> "dates"
MCSearches == "all" :> {"name", "state", "due"} @@ "e" :> {"name", "due"}

-----------------------------------------------------------------------------
(* Documents with a component that is shared, one that refers to itself,   *)
(* one that another document redefines, responses and parameters, and      *)
(* every kind of security.                                                 *)
To(names) == {<<"schemas", n>> : n \in names}
Op(refs, security) == [refs |-> refs, security |-> security]
Def(refs, from) == [refs |-> refs, from |-> from]
Paths(list) == [p \in {list[i][1] : i \in DOMAIN list} |->
                  LET ops == {i \in DOMAIN list : list[i][1] = p}
                  IN  [m \in {list[i][2] : i \in ops} |->
                         list[CHOOSE i \in ops : list[i][2] = m][3]]]
Document(name, security, paths, components) ==
  [name |-> name, security |-> security, paths |-> paths, components |-> components]

Users == Document("users", {"jwt"},
  Paths(<< <<<<"users">>, "get", Op(To({"User"}), {})>>,
           <<<<"users">>, "post", Op(To({"User"}), {{"jwt"}})>>,
           <<<<"users", "{id}">>, "get", Op(To({"User"}), {{}})>>,
           <<<<"users", "me">>, "get", Op({}, {{"jwt", "key"}})>> >>),
  [schemas |-> [User |-> Def(To({"Address"}), "users"), Address |-> Def({}, "users"),
                Draft |-> Def(To({"User", "Draft"}), "users")],
   securitySchemes |-> [jwt |-> Def({}, "users"), key |-> Def({}, "users")]])
\* Another service's document of the same base name; its components are shared ones.
Orders == Document("users", {},
  Paths(<< <<<<"users">>, "get", Op(To({"Problem"}), {{"jwt"}})>>,
           <<<<"orders", "{id}", "lines">>, "get", Op(To({"Problem"}) \cup {<<"parameters", "Page">>}, {})>>,
           <<<<"orders", "all">>, "get", Op({}, {{"jwt"}})>> >>), <<>>)
Files == Document("files", {},
  Paths(<< <<<<"files">>, "post", Op({<<"responses", "Refused">>}, {{"key"}})>> >>),
  [schemas |-> [File |-> Def(To({"User"}), "files"), User |-> Def({}, "files")],
   responses |-> [Refused |-> Def(To({"File"}), "files")]])

Problems == [schemas |-> [Problem |-> Def(To({"Code"}), "problems"), Code |-> Def({}, "problems")],
             securitySchemes |-> [jwt |-> Def({}, "problems")], parameters |-> [Page |-> Def({}, "problems")]]
Broken == [schemas |-> [User |-> Def(To({"Code"}), "broken")], responses |-> <<>>]

MCDocuments == {Users, Orders, Files}
MCShared == {Problems, Broken}
MCPrefixNames == {"api", "users"}

-----------------------------------------------------------------------------
(* Schemas with every wrapping of a field, relations to models with and    *)
(* without leaves, resolvers for one and for many, of a model and of none. *)
GqlField(id, wrap, type) == [id |-> id, wrap |-> wrap, type |-> type, args |-> <<>>]
Resolver(word, plural, type) ==
  [id |-> [word |-> word, plural |-> plural], wrap |-> <<"required">>, type |-> type,
   args |-> <<"paging", "filter", "sorting">>]
Type(id, fields, connects) ==
  [id |-> id, kind |-> "type", fields |-> fields, connects |-> connects, queries |-> <<>>]
Other(kind, id) == [Type(id, {}, {}) EXCEPT !.kind = kind]
Wraps == {<<>>, <<"required">>, <<"array">>, <<"array", "required">>, <<"required", "array">>,
          <<"required", "array", "required">>, <<"array", "array">>}
Task(list, owner) == Type("Task",
  {GqlField("id", <<"required">>, "ID"), GqlField("due", <<>>, "DateTime"), GqlField("state", <<>>, "State"),
   GqlField("tags", list, "String"), GqlField("owner", owner, "User"),
   [GqlField("steps", <<"required">>, "TaskConnection") EXCEPT !.args = <<"paging", "filter", "sorting">>]}, {})
User == Type("User", {GqlField("tasks", <<"array", "required">>, "Task"), GqlField("picture", <<>>, "Url")}, {})
Page == Type("PageInfo", {GqlField("hasNextPage", <<>>, "Boolean")}, {})
Connection(id, of) == Type(id, {GqlField("pageInfo", <<"required">>, "PageInfo"),
  GqlField("totalCount", <<"required">>, "Int")}, of)
Query(list) == [Type("Query", {}, {}) EXCEPT !.queries = list]
MCSchemas ==
  {<<Query(qs), Task(list, owner), user, Page, Connection("TaskConnection", {"Task"}),
     Connection("UserConnection", {"User"}), Connection("LostConnection", {"Lost"}),
     Other("scalar", "Url"), Other("scalar", "DateTime"), Other("enum", "State")>>
     : list \in Wraps, owner \in {<<>>, <<"required">>, <<"array">>},
       user \in {User, Type("User", {GqlField("tasks", <<"array", "required">>, "Task")}, {})},
       qs \in {<<Resolver("task", TRUE, "TaskConnection"), Resolver("user", TRUE, "UserConnection")>>,
               <<[Resolver("task", FALSE, "Task") EXCEPT !.args = <<"id">>],
                 Resolver("user", FALSE, "UserConnection"), Resolver("task", TRUE, "TaskConnection")>>,
               <<Resolver("task", TRUE, "TaskConnection"), Resolver("lost", TRUE, "LostConnection")>>}}
  \cup {<<Task(<<>>, <<>>)>>}

-----------------------------------------------------------------------------
(* Models that are entities or views, with one or two relations between    *)
(* them, of any kind, and one to itself; one key of a column of its own.   *)
F(name, type) == [name |-> name, type |-> type, kind |-> "scalar", list |-> FALSE, id |-> name = "id",
                  relation |-> {}, joins |-> FALSE]
Rel(name, type, list, relation, joins) ==
  [F(name, type) EXCEPT !.kind = "object", !.list = list, !.relation = {relation}, !.joins = joins]
Model(name, view, key, fields) == [name |-> name, view |-> view, key |-> key, fields |-> fields]
Base == <<F("id", "String"), F("createdAt", "DateTime"), [F("state", "State") EXCEPT !.kind = "enum"]>>
MCDataModels ==
  {[models |-> <<Model("User", v1, {}, Base \o <<Rel("tasks", "Task", l1, "UserTasks", FALSE)>>
                          \o IF two THEN <<Rel("reviews", "Task", TRUE, "Reviews", FALSE)>> ELSE <<>>),
                 Model("Task", v2, {"createdAt", "user"},
                       Base \o (IF two THEN <<Rel("reviewer", "User", FALSE, "Reviews", TRUE)>> ELSE <<>>)
                          \o <<Rel("owner", "User", l2, "UserTasks", ~ l2),
                               Rel("parent", "Task", FALSE, "Tree", TRUE),
                               Rel("children", "Task", TRUE, "Tree", FALSE)>>)>>,
    enums |-> {"State"}]
     : v1, v2, l1, l2, two \in BOOLEAN}

-----------------------------------------------------------------------------
(* Two gateways, and handlers that send nothing, one message or several,   *)
(* also one that comes round.                                              *)
Out(msg, q) == [dir |-> "out", msg |-> msg, toQueue |-> [many |-> FALSE, queues |-> <<q>>]]
In(msg) == [dir |-> "in", msg |-> msg, toQueue |-> [many |-> FALSE, queues |-> <<>>]]
Fan(msg, qs) == [dir |-> "out", msg |-> msg, toQueue |-> [many |-> TRUE, queues |-> qs]]
Calls(method, on, m) == [method |-> method, on |-> on, message |-> m]
File(class, handlers) == [class |-> class, handlers |-> handlers]

\* What the handler of an order's payment, of a shipment and of a notice may do.
Tails == {<<>>, <<Calls("publish", "event", {"Shipped"})>>,
          <<Calls("send", "command", {"Order"})>>,
          <<Calls("add", "command", {"Order"}), Calls("send", "other", {"Order"}), Calls("publish", "event", {})>>,
          <<Calls("publish", "event", {"Shipped"}), Calls("send", "command", {"Notify"})>>}
MCRepositories ==
  {[messages |-> {"Order", "Paid", "Shipped", "Notify"},
    bindings |-> [event |-> events, command |-> commands],
    files |-> <<File("Orders", "Order" :> <<Calls("publish", "event", {"Paid"}), Calls("log", "other", {})>>),
                File("Ledger", "Other" :> <<>>),
                File("Ledger", ("Paid" :> paid) @@ ("Shipped" :> shipped)),
                File("Mails", "Notify" :> <<>>)>>]
     : paid \in Tails, shipped \in Tails,
       events \in {<<In("Paid"), Out("Paid", "Ledger"), Out("Shipped", "Ledger"), Out("Shipped", "Mails")>>,
                   <<Out("Paid", "Ledger"), Fan("Shipped", <<"Ledger", "Mails">>)>>},
       commands \in {<<In("Order"), Out("Order", "Orders"), Out("Notify", "Mails")>>, <<>>}}

-----------------------------------------------------------------------------
(* Declarations of every kind, of which some share a name.                 *)
D(kind, name) == [kind |-> kind, name |-> name]
MCSources ==
  {<<D("interface", <<"I", "Order", "Event">>), D("variable", <<"Order", "Event", "Definition">>),
     D("interface", <<"I", "Order">>), D("alias", <<"Order">>), D("interface", <<"Order", "Event">>)>>,
   <<D("alias", <<"I", "nvoice">>), D("interface", <<"I", "Find", "Query">>),
     D("interface", <<"I", "Pay", "Command">>), D("interface", <<"I", "Paid", "Event">>),
     D("interface", <<"I", "Nightly", "Task">>), D("variable", <<"Nightly", "Task", "Definition">>)>>}

-----------------------------------------------------------------------------
(* Questions of two pages, with filters that are empty, nested, cover each *)
(* other, or are on a time field.                                          *)
Filter(field, op, value) == [field |-> field, op |-> op, value |-> value]
Row(n, s, o, d) == <<"id">> :> n @@ <<"state">> :> s @@ <<"owner">> :> o @@ <<"due">> :> d
MCRows == <<Row("r1", started, ann, may), Row("r2", done, bob, may), Row("r3", started, None, june),
            Row("r4", started, bob, june)>>
OpenOnes == Filter(<<"state">>, "eq", started)
MCQuestions ==
  {[filters |-> <<OpenOnes, Filter(<<"owner">>, "in", <<>>)>>, page |-> 2],
   [filters |-> <<Filter(<<"due">>, "eq", june), Filter(<<"state">>, "eq", None)>>, page |-> 1],
   [filters |-> <<Filter(<<"or">>, "or", <<OpenOnes, Filter(<<"owner">>, "in", <<bob>>)>>),
                  Filter(<<"owner">>, "ne", None)>>, page |-> 1],
   [filters |-> <<Filter(<<"owner">>, "null", started), Filter(<<"state">>, "nin", <<done>>)>>, page |-> 1],
   [filters |-> <<Filter(<<"owner">>, "ne", ann), Filter(<<"owner">>, "nnull", started)>>, page |-> 1]}
MCTimeFields == {<<"due">>}

-----------------------------------------------------------------------------
(* A filter that is built, fetched and shown in every way, beside one that *)
(* is as its constructor leaves it.                                        *)
MCFilterKeys == {"state", "owner"}
MCWords == {started, done}
MCServed == [k \in MCFilterKeys |-> IF k = "state" THEN {started, done} ELSE {started}]
MCMaxCalls == [k \in MCFilterKeys |-> IF k = "state" THEN 2 ELSE 0]

-----------------------------------------------------------------------------
(* Calls with errors, with attributes that are nested, repeated, empty or  *)
(* too deep, and with what cannot be written; contexts that have an        *)
(* attribute, that have cleared it, and of two tenants.                    *)
MCAttributes == {"tenantId", "messageId", "jobEventId", "userId"}
Attribute(key, v) == Field(key, Value(v))
Branch(key, fields) == Field(key, Object(fields))
MCParams ==
  {<<>>, <<AnError("e1")>>, <<Value("caller"), AnError("e1"), AnError("e2"), AnError("e1")>>,
   <<Object(<<Attribute("tenantId", "t2"), Branch("body", <<Attribute("messageId", "m2"), Attribute("jobEventId", "v2")>>),
             Attribute("messageId", "m3")>>)>>,
   <<Object(<<Attribute("jobEventId", Falsy), Attribute("userId", Falsy)>>), AnError("e1"),
     Object(<<Branch("list", <<Branch("item", <<Attribute("userId", "u1")>>)>>), Attribute("userId", "u2")>>)>>,
   <<Object(<<Branch("a", <<Branch("b", <<Attribute("userId", "deep")>>), Attribute("userId", "u3"),
                           Branch("tenantId", <<Attribute("userId", "deep")>>)>>)>>)>>,
   <<Object(<<Branch("tenantId", <<Attribute("userId", "u4")>>), Attribute("tenantId", "t4")>>),
     Object(<<Attribute("userId", "u5")>>)>>,
   <<[AnError(Falsy) EXCEPT !.kind = "throws"]>>}
MCMessages ==
  {[id |-> "m1", tenantid |-> "t1", contextTenant |-> "t1", data |-> "userId" :> "u9" @@ "jobEventId" :> "v9"],
   [id |-> "m1", tenantid |-> "t1", contextTenant |-> "t2", data |-> "tenantId" :> "t3" @@ "userId" :> Falsy]}
MCRequests == {Nothing, "tenantId" :> "t0", "userId" :> Falsy @@ "tenantId" :> "t0"}
Search == INSTANCE LogContext WITH Attributes <- MCAttributes, MaxDepth <- 3, Cut <- "[Object]"
MCContextOfCall(parent, params) == Search!GetLogContext(parent, params)
MCContextInEntry(parent, params) == Search!FindLogContext(parent, params)

-----------------------------------------------------------------------------
Init ==
  /\ part \in {"columns", "api", "gql", "prisma", "flow", "types", "queries", "filters", "logs"}
  /\ ColumnsInit /\ ApiInit /\ GqlInit /\ PrismaInit /\ FlowInit
  /\ TypesInit /\ QueriesInit /\ FiltersInit /\ LogInit
  /\ part = "queries" \/ provider = "cube"

Next ==
  /\ UNCHANGED part
  /\ IF part = "columns" THEN ColumnsNext ELSE UNCHANGED columnsVars
  /\ IF part = "api" THEN ApiNext ELSE UNCHANGED apiVars
  /\ IF part = "gql" THEN GqlNext ELSE UNCHANGED gqlVars
  /\ IF part = "prisma" THEN PrismaNext ELSE UNCHANGED prismaVars
  /\ IF part = "flow" THEN FlowNext ELSE UNCHANGED flowVars
  /\ IF part = "types" THEN TypesNext ELSE UNCHANGED typesVars
  /\ IF part = "queries" THEN QueriesNext ELSE UNCHANGED queryVars
  /\ IF part = "filters" THEN FiltersNext ELSE UNCHANGED filterVars
  /\ IF part = "logs" THEN LogNext ELSE UNCHANGED logVars

Spec == Init /\ [][Next]_vars

-----------------------------------------------------------------------------
(* LogContext.ts: of each attribute the context of a call has the value    *)
(* that its parent has, be it null, or else the one that is written first, *)
(* at whatever depth; and it has nothing else.                             *)
ContextIsFirstFound ==
  reached = "report" /\ ~ log.viaNest /\ Search!NamesApart(log.params) =>
    Search!IsFirstFound(context, log.parent, log.params)
=============================================================================
