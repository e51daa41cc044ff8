---------------------------- MODULE GridQueries ----------------------------
(***************************************************************************)
(* How the data grid gets its rows: useList (createUseList) puts what the  *)
(* grid asks for to react-query, one cached answer per question, and the   *)
(* data provider turns the question's filters and page into a query of a   *)
(* NestJS GraphQL service or of Cube. A question may be left before it is  *)
(* answered; the service's rows do not change.                             *)
(***************************************************************************)
EXTENDS Naturals, Sequences, FiniteSets, SequencesExt, Filtering

CONSTANTS
  Questions,   \* what is asked: [filters, page]; a filter has a field, an operator, a value
  Rows,        \* the service's rows in their order: from a field to its value
  TimeFields,  \* the fields that Cube takes as time dimensions
  PageSize,
  None,        \* no value; no question
  MaxLeft      \* bound: requests that are left and still run

VARIABLES
  provider,    \* the data provider the grid was given
  asked,       \* useList's parameters
  cache,       \* react-query's entry of each question: the answer and whether it failed
  fetching,    \* whether the request for asked runs
  left,        \* the requests of questions the grid has left, that still run
  prevResponse

queryVars == <<provider, asked, cache, fetching, left, prevResponse>>

(* A list of filters, groups of them included; a group has none within it, *)
(* and is on no time field.                                                *)
Operators == {"eq", "ne", "in", "nin", "null", "nnull"}
ASSUME QuestionsAssumption ==
  /\ PageSize \in Nat
  /\ Rows \in Seq(ToSet(Rows))
  /\ None \notin [data : Seq(ToSet(Rows)), totalCount : Nat]
  /\ \A q \in Questions :
       /\ q.page \in Nat \ {0}
       /\ q.filters \in Seq(ToSet(q.filters))
       /\ \A f \in ToSet(q.filters) :
            \/ f.op \in Operators
            \/ /\ f.op \in {"and", "or"} /\ f.field \notin TimeFields
               /\ \A g \in ToSet(f.value) : g.op \in Operators

Empty == [data |-> <<>>, totalCount |-> 0]
Groups == {"and", "or"}
IsGroup(f) == f.op \in Groups

QueriesInit ==
  /\ provider \in {"nestjs", "cube"}
  /\ asked = None
  /\ cache = [q \in Questions |-> [answer |-> None, failed |-> FALSE]]
  /\ fetching = FALSE
  /\ left = <<>>
  /\ prevResponse = Empty

-----------------------------------------------------------------------------
(* A filter without a value, or with an empty list, is not sent.           *)
HasValue(f) == f.value # None /\ f.value # <<>>
Condition(op, field, value) == [op |-> op, field |-> field, value |-> value]
ListOf(f) == ToSet(f.value)

(* generateFilters of the NestJS provider builds one object: a filter is   *)
(* set at its field, a path, or under `and` and `or`, and covers what was  *)
(* set there before. A group's member is an object too, empty without a    *)
(* value.                                                                  *)
PathOf(f) == IF IsGroup(f) THEN <<f.op>> ELSE f.field
NestjsOperator(f) ==
  CASE f.op = "in" -> Condition("oneOf", f.field, ListOf(f))
    [] f.op = "nin" -> Condition("noneOf", f.field, ListOf(f))
    [] f.op \in {"eq", "null"} -> Condition("oneOf", f.field, {IF f.op = "eq" THEN f.value ELSE None})
    [] f.op \in {"ne", "nnull"} -> Condition("noneOf", f.field, {IF f.op = "ne" THEN f.value ELSE None})
NestjsFilters(filters) ==
  LET sent == {i \in DOMAIN filters : HasValue(filters[i])}
      kept == {i \in sent :
                 \A j \in sent : i < j => ~ IsPrefix(PathOf(filters[j]), PathOf(filters[i]))}
  IN  {LET f == filters[i] IN
         IF IsGroup(f)
         THEN Condition(f.op, <<>>, {IF HasValue(g) THEN {NestjsOperator(g)} ELSE {} : g \in ListOf(f)})
         ELSE NestjsOperator(f) : i \in kept}

(* generateFilters and generateTimeDimensions of Cube: a list, without the *)
(* time fields, of which the first filter makes the time dimension. `null` *)
(* becomes `set`; an operator Cube's map does not have becomes `equals`.   *)
CubeOperator(f) ==
  LET values == IF f.op \in {"in", "nin"} THEN ListOf(f) ELSE {f.value} IN
  CASE f.op = "ne" -> Condition("noneOf", f.field, values)
    [] f.op = "null" -> Condition("noneOf", f.field, {None})
    [] f.op = "nnull" -> Condition("oneOf", f.field, {None})
    [] OTHER -> Condition("oneOf", f.field, values)
CubeFilters(filters) ==
  LET sent == {f \in ToSet(filters) : f.field \notin TimeFields /\ HasValue(f)}
      times == {i \in DOMAIN filters : /\ filters[i].field \in TimeFields
                                       /\ \A j \in 1 .. i - 1 : filters[j].field # filters[i].field}
  IN  {IF IsGroup(f)
       THEN Condition(f.op, <<>>, {{CubeOperator(g)} : g \in {h \in ListOf(f) : HasValue(h)}})
       ELSE CubeOperator(f) : f \in sent}
        \cup {CubeOperator(filters[i]) : i \in {j \in times : HasValue(filters[j])}}

(* generatePagination: a cursor names the last row before the page, and    *)
(* rows count from 0; Cube skips an offset.                                *)
\* Mutant: the cursor names the first row of the page.
CursorAtThePage(page) ==
  LET cursor == PageSize * (page - 1) IN IF page = 1 THEN 0 ELSE cursor + 1
RowsBefore(page) ==
  LET cursor == PageSize * (page - 1) - 1 IN IF page = 1 THEN 0 ELSE cursor + 1
Skipped(page) == IF provider = "nestjs" THEN RowsBefore(page) ELSE PageSize * (page - 1)

(* The service: the rows that satisfy the query, a page of them.           *)
Satisfies(row, c) ==
  CASE c.op = "oneOf" -> row[c.field] \in c.value
    [] c.op = "noneOf" -> row[c.field] \notin c.value
Meets(row, c) ==
  CASE c.op = "or" -> \E q \in c.value : \A d \in q : Satisfies(row, d)
    [] c.op = "and" -> \A q \in c.value : \A d \in q : Satisfies(row, d)
    [] OTHER -> Satisfies(row, c)
PageOf(rows, skipped) ==
  SubSeq(rows, skipped + 1, IF skipped + PageSize < Len(rows) THEN skipped + PageSize ELSE Len(rows))
Answer(q) ==
  LET query == IF provider = "nestjs" THEN NestjsFilters(q.filters) ELSE CubeFilters(q.filters)
      rows == Picked(Rows, {i \in DOMAIN Rows : \A c \in query : Meets(Rows[i], c)})
  IN  [data |-> PageOf(rows, Skipped(q.page)), totalCount |-> Len(rows)]

-----------------------------------------------------------------------------
(* The cached answer stays on screen while it is fetched again, or after   *)
(* that failed; while there is none, what was answered last; after a       *)
(* failure without any, nothing.                                           *)
Pending(q) == cache[q].answer = None /\ (fetching \/ ~ cache[q].failed)
Shown ==
  IF asked # None /\ cache[asked].answer # None THEN cache[asked].answer
  ELSE IF asked = None \/ Pending(asked) THEN prevResponse ELSE Empty
Failed == asked # None /\ cache[asked].failed /\ ~ Pending(asked)

(* A question is put: the one before is cancelled if it was not answered.  *)
Ask(q) ==
  /\ q # asked
  /\ fetching => Len(left) < MaxLeft
  /\ asked' = q /\ fetching' = TRUE
  /\ left' = IF fetching THEN Append(left, asked) ELSE left
  /\ UNCHANGED <<provider, cache, prevResponse>>

(* Asked again: a request that runs is given up if there is an answer.     *)
Refetch ==
  /\ asked # None /\ fetching' = TRUE
  /\ IF fetching /\ cache[asked].answer # None
     THEN Len(left) < MaxLeft /\ left' = Append(left, asked)
     ELSE UNCHANGED left
  /\ UNCHANGED <<provider, asked, cache, prevResponse>>

Respond ==
  /\ fetching /\ fetching' = FALSE
  /\ cache' = [cache EXCEPT ![asked] = [answer |-> Answer(asked), failed |-> FALSE]]
  /\ prevResponse' = Answer(asked)
  /\ UNCHANGED <<provider, asked, left>>

(* A request that fails forgets the last response; it is tried again, or   *)
(* given up.                                                               *)
RequestFails ==
  /\ fetching /\ prevResponse' = Empty
  /\ \/ UNCHANGED <<cache, fetching>>
     \/ fetching' = FALSE /\ cache' = [cache EXCEPT ![asked].failed = TRUE]
  /\ UNCHANGED <<provider, asked, left>>

(* The request of a question that was left ends: Cube is not told to stop, *)
(* a NestJS request is aborted, which fails, unless it was answered before *)
(* that. Neither is cached, both are the last response; one that waited to *)
(* be tried again just ends.                                               *)
LeftEnds(i) ==
  /\ prevResponse' \in {Answer(left[i]), Empty, prevResponse}
  /\ left' = RemoveAt(left, i)
  /\ UNCHANGED <<provider, asked, cache, fetching>>

(* react-query forgets what nobody has looked at for a while.              *)
Forget(q) ==
  /\ q # asked /\ cache[q].answer # None
  /\ cache' = [cache EXCEPT ![q] = [answer |-> None, failed |-> FALSE]]
  /\ UNCHANGED <<provider, asked, fetching, left, prevResponse>>

QueriesNext ==
  \/ Refetch \/ Respond \/ RequestFails
  \/ \E q \in Questions : Ask(q) \/ Forget(q)
  \/ \E i \in DOMAIN left : LeftEnds(i)

-----------------------------------------------------------------------------
(* What a filter means to who sets it.                                     *)
Means(f, row) ==
  CASE f.op = "eq" -> row[f.field] = f.value
    [] f.op = "ne" -> row[f.field] # f.value
    [] f.op = "in" -> row[f.field] \in ListOf(f)
    [] f.op = "nin" -> row[f.field] \notin ListOf(f)
    [] f.op = "null" -> row[f.field] = None
    [] f.op = "nnull" -> row[f.field] # None
Selects(f, row) ==
  CASE f.op = "or" -> \E g \in ListOf(f) : Means(g, row)
    [] f.op = "and" -> \A g \in ListOf(f) : Means(g, row)
    [] OTHER -> Means(f, row)

(* The questions a provider can put: the members of a group have values;   *)
(* no filter of the NestJS object covers another; Cube has the operator    *)
(* and one filter of a time field.                                         *)
Expressible(q) ==
  LET fs == q.filters IN
  /\ \A i \in DOMAIN fs : IsGroup(fs[i]) => \A g \in ListOf(fs[i]) : HasValue(g)
  /\ IF provider = "nestjs"
     THEN \A i, j \in DOMAIN fs : i # j /\ HasValue(fs[i]) /\ HasValue(fs[j])
                                    => ~ IsPrefix(PathOf(fs[j]), PathOf(fs[i]))
     ELSE /\ \A i \in DOMAIN fs : \A f \in {fs[i]} \cup IF IsGroup(fs[i]) THEN ListOf(fs[i]) ELSE {} :
               f.op \notin {"nin", "null", "nnull"}
          /\ \A i, j \in DOMAIN fs : fs[i].field = fs[j].field /\ fs[i].field \in TimeFields => i = j

(* Whatever questions the grid put and left before, whichever of their     *)
(* requests end late, fail or are aborted: once it waits for nothing and   *)
(* shows no error, it shows the page it asked for, of the rows that meet   *)
(* every filter that has a value, and counts all of those.                 *)
SettledShowsAsked ==
  asked # None /\ ~ fetching /\ ~ Failed /\ Expressible(asked) =>
    LET rows == Picked(Rows, {k \in DOMAIN Rows :
                  \A i \in DOMAIN asked.filters :
                    HasValue(asked.filters[i]) => Selects(asked.filters[i], Rows[k])})
        first == PageSize * (asked.page - 1) + 1
    IN  /\ Shown.totalCount = Len(rows)
        /\ Shown.data = [i \in 1..Cardinality({k \in DOMAIN rows : first <= k /\ k < first + PageSize})
                           |-> rows[first + i - 1]]
=============================================================================
