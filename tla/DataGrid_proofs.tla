--------------------------- MODULE DataGrid_proofs ---------------------------
(* What holds of a grid and its address for every set of filters, words,   *)
(* views and pages, whatever its handlers, effects and timers do.          *)
EXTENDS DataGrid, FiniteSetTheorems, TLAPS

(* The parts of the inductive invariant.  The address that the grid would  *)
(* write tells what is shown, and has been written unless its timer runs.  *)
Synced(t, u) ==
  /\ t.params.filters = FiltersParam(t)
  /\ t.params.sort => Order(t.sorting)
  /\ ~ t.params.sort => t.sorting = BaseSorting(t.view) \/ ~ Order(t.sorting)
  /\ t.params.page = t.page
  /\ t.view # None => t.params.view = t.view
  /\ ~ t.dirty => u = t.params

(* The text of the search filters, or is about to.                         *)
Echoes == {{}} \cup {{text} : text \in SUBSET Words}
Pending(t) == t.typed \cap Short = {} => \A text \in t.echo : text = t.typed
Settled(t) == t.typed \cap Short = {} /\ t.echo = {} => t.typed = t.sel[Search]

Shape(t) ==
  /\ t \in Tab /\ t.echo \in Echoes
  /\ t.rows # {} => t.mode = "enabled"
  /\ Search \in t.pinned

GridInv ==
  /\ url \in Address /\ viewed \in BOOLEAN
  /\ viewed = (tab.view # None)
  /\ Shape(tab) /\ Synced(tab, url) /\ Pending(tab) /\ Settled(tab)

-----------------------------------------------------------------------------
(* What is read and written.                                               *)

LEMMA ReadType ==
  ASSUME NEW filters \in Values
  PROVE  Read(filters) \in Values /\ Read(NoFilters) = NoFilters /\ NoFilters \in Values
BY DataGridAssumption DEF Read, Values, NoFilters

LEMMA BaseTypes ==
  ASSUME NEW v \in Views \cup {None}
  PROVE  BaseFilters(v) \in Values /\ BaseSorting(v) \in Sortings
BY DataGridAssumption DEF BaseFilters, BaseSorting, ViewSorting, DefaultSorting, Sortings

LEMMA SetFiltersType ==
  ASSUME NEW p \in Address, NEW filters \in Values
  PROVE  LET q == SetFilters(p, filters) IN
         /\ q \in Address /\ q.filters = filters /\ q.sort = p.sort /\ q.view = p.view
         /\ q.page = IF p.page = 0 THEN 1 ELSE p.page
<1>1. PICK page \in 0 .. MaxPage : page = IF p.page = 0 THEN 1 ELSE p.page
  BY DataGridAssumption DEF Address
<1>2. SetFilters(p, filters) = [p EXCEPT !.filters = filters, !.page = page]
  BY <1>1 DEF SetFilters
<1> QED BY <1>1, <1>2 DEF Address

(* The effects of a commit bring the address into line with the grid.      *)
LEMMA EffectsSync ==
  ASSUME NEW t \in Tab, NEW n \in Tab, NEW u, Synced(t, u), n.params = t.params
  PROVE  LET p == Effects(t, n) IN
         /\ p \in Address /\ p.filters = FiltersParam(n)
         /\ p.sort => Order(n.sorting)
         /\ ~ p.sort => n.sorting = BaseSorting(n.view) \/ ~ Order(n.sorting)
         /\ p.page = n.page
         /\ n.view # None => p.view = n.view
<1> DEFINE reviewed == n.view # t.view
           p1 == IF reviewed \/ n.sel # t.sel THEN SetFilters(t.params, FiltersParam(n)) ELSE t.params
           p2 == IF reviewed \/ n.sorting # t.sorting THEN [p1 EXCEPT !.sort = SortParam(n)] ELSE p1
           p3 == IF n.page # t.page THEN [p2 EXCEPT !.page = n.page] ELSE p2
           p4 == IF reviewed THEN [p3 EXCEPT !.view = n.view] ELSE p3
<1>1. /\ t.params \in Address /\ t.page \in 1 .. MaxPage
      /\ n.page \in 1 .. MaxPage /\ n.view \in Views \cup {None} /\ n.sel \in Values
  BY DEF Tab
<1>2. FiltersParam(n) \in Values
  BY <1>1, ReadType DEF FiltersParam
<1>3. /\ SortParam(n) \in BOOLEAN
      /\ SortParam(n) => Order(n.sorting)
      /\ ~ SortParam(n) => n.sorting = BaseSorting(n.view) \/ ~ Order(n.sorting)
  <2>1. CASE n.sorting = BaseSorting(n.view)
    BY <2>1 DEF SortParam
  <2>2. CASE n.sorting # BaseSorting(n.view)
    <3>1. SortParam(n) <=> Order(n.sorting)
      BY <2>2 DEF SortParam
    <3>2. SortParam(n) \in BOOLEAN
      BY <2>2 DEF SortParam, Order
    <3> QED BY <3>1, <3>2, Zenon
  <2> QED BY <2>1, <2>2
<1>4. t.params.page = t.page /\ t.params.page # 0
  BY <1>1, DataGridAssumption DEF Synced
<1>5. /\ p1 \in Address /\ p1.filters = FiltersParam(n)
      /\ p1.sort = t.params.sort /\ p1.page = t.page /\ p1.view = t.params.view
  <2>1. CASE reviewed \/ n.sel # t.sel
    BY <1>1, <1>2, <1>4, <2>1, SetFiltersType
  <2>2. CASE ~ (reviewed \/ n.sel # t.sel)
    BY <1>1, <1>4, <2>2 DEF Synced, FiltersParam
  <2> QED BY <2>1, <2>2
<1> HIDE DEF p1
<1>6. /\ p2 \in Address /\ p2.filters = FiltersParam(n) /\ p2.page = t.page /\ p2.view = t.params.view
      /\ p2.sort => Order(n.sorting)
      /\ ~ p2.sort => n.sorting = BaseSorting(n.view) \/ ~ Order(n.sorting)
  <2>1. CASE reviewed \/ n.sorting # t.sorting
    BY <1>3, <1>5, <2>1 DEF Address
  <2>2. CASE ~ (reviewed \/ n.sorting # t.sorting)
    BY <1>5, <2>2 DEF Synced
  <2> QED BY <2>1, <2>2
<1> HIDE DEF p2
<1>7. /\ p3 \in Address /\ p3.filters = p2.filters /\ p3.sort = p2.sort
      /\ p3.page = n.page /\ p3.view = p2.view
  BY <1>1, <1>6 DEF Address
<1> HIDE DEF p3
<1>8. /\ p4 \in Address /\ p4.filters = p3.filters /\ p4.sort = p3.sort
      /\ p4.page = p3.page /\ p4.view = IF reviewed THEN n.view ELSE p3.view
  BY <1>1, <1>7 DEF Address
<1>9. Effects(t, n) = p4
  BY DEF Effects, p3, p2, p1
<1> HIDE DEF p4
<1> QED BY <1>6, <1>7, <1>8, <1>9 DEF Synced

-----------------------------------------------------------------------------
(* What may be rendered next, before the effects run; and by a handler,    *)
(* which neither gives a grid views nor leaves it on page n of new rows.   *)
Rendered(t, n) ==
  /\ Shape(n)
  /\ n.params = t.params /\ n.dirty = t.dirty
  /\ Pending(n) /\ (n.sel[Search] = t.sel[Search] => Settled(n))
Edited(t, n) ==
  /\ Rendered(t, n)
  /\ n.view = None <=> t.view = None
  /\ n.sel # t.sel => n.page = 1

(* A commit: what the effects add, and the search that follows its value.  *)
LEMMA CommittedOK ==
  ASSUME NEW t, NEW u, Shape(t), Synced(t, u), NEW n, Rendered(t, n)
  PROVE  LET m == Committed(t, n) IN
         /\ Shape(m) /\ Synced(m, u) /\ Pending(m) /\ Settled(m)
         /\ m.sel = n.sel /\ m.page = n.page /\ m.view = n.view /\ m.sorting = n.sorting
         /\ t.dirty => m.dirty
         /\ LET text == n.sel[Search] IN
            m.echo = IF text # t.sel[Search] /\ text # n.typed /\ text \cap Short = {}
                     THEN {text} ELSE n.echo
<1>1. PICK p \in Address :
         /\ p = Effects(t, n) /\ p.filters = FiltersParam(n)
         /\ p.sort => Order(n.sorting)
         /\ ~ p.sort => n.sorting = BaseSorting(n.view) \/ ~ Order(n.sorting)
         /\ p.page = n.page
         /\ n.view # None => p.view = n.view
  <2>1. t \in Tab /\ n \in Tab /\ n.params = t.params
    BY DEF Rendered, Shape
  <2> QED BY <2>1, EffectsSync
<1> DEFINE text == n.sel[Search]
           retyped == text # t.sel[Search]
           typed == IF retyped THEN text ELSE n.typed
           echo == IF retyped /\ text # n.typed /\ text \cap Short = {} THEN {text} ELSE n.echo
           dirty == t.dirty \/ p # t.params
<1>2. n \in Tab /\ t \in Tab /\ n.echo \in Echoes /\ text \in SUBSET Words
  BY DataGridAssumption DEF Rendered, Shape, Tab, Values
<1>3. Committed(t, n) = [n EXCEPT !.params = p, !.dirty = dirty, !.typed = typed, !.echo = echo]
  BY <1>1 DEF Committed
<1>5. typed \in SUBSET Words /\ echo \in Echoes /\ echo \in SUBSET SUBSET Words /\ dirty \in BOOLEAN
  BY <1>2 DEF Echoes, Tab
<1>6. /\ typed \cap Short = {} => \A x \in echo : x = typed
      /\ typed \cap Short = {} /\ echo = {} => typed = text
  <2>1. Pending(n) /\ (~ retyped => Settled(n))
    BY DEF Rendered
  <2>2. CASE retyped
    BY <2>1, <2>2 DEF Pending
  <2>3. CASE ~ retyped
    BY <2>1, <2>3 DEF Pending, Settled
  <2> QED BY <2>2, <2>3
<1>7. (t.dirty => dirty) /\ (~ dirty => u = p)
  BY DEF Synced
<1>13. echo = IF text # t.sel[Search] /\ text # n.typed /\ text \cap Short = {}
              THEN {text} ELSE n.echo
  OBVIOUS
<1> HIDE DEF typed, echo, dirty
<1>4. PICK m : m = Committed(t, n)
  OBVIOUS
<1>8. m \in Tab
  BY <1>2, <1>3, <1>4, <1>5 DEF Tab
<1>9. /\ m.params = p /\ m.dirty = dirty /\ m.typed = typed /\ m.echo = echo
      /\ m.sel = n.sel /\ m.page = n.page /\ m.view = n.view /\ m.sorting = n.sorting
      /\ m.rows = n.rows /\ m.mode = n.mode /\ m.pinned = n.pinned
  BY <1>2, <1>3, <1>4 DEF Tab
<1>10. Shape(m)
  BY <1>5, <1>8, <1>9 DEF Shape, Rendered
<1>11. Synced(m, u)
  BY <1>1, <1>7, <1>9 DEF Synced, FiltersParam
<1>12. Pending(m) /\ Settled(m)
  BY <1>6, <1>9 DEF Pending, Settled
<1> QED BY <1>4, <1>7, <1>9, <1>10, <1>11, <1>12, <1>13

-----------------------------------------------------------------------------
(* The first commits of a grid.                                            *)
LEMMA OpenedOK ==
  ASSUME NEW u \in Address, viewed \in BOOLEAN
  PROVE  LET m == Opened(u) IN
         /\ Shape(m) /\ Pending(m) /\ Settled(m) /\ Synced(m, u)
         /\ viewed = (m.view # None)
         /\ viewed /\ u.view \in Views => m.view = u.view
         /\ m.sel = IF Read(u.filters) = NoFilters THEN BaseFilters(m.view) ELSE Read(u.filters)
         /\ m.sorting = IF u.sort THEN "sorted" ELSE BaseSorting(m.view)
         /\ m.page = IF u.page = 0 THEN 1 ELSE u.page
         /\ m.echo = IF Read(u.filters) = NoFilters /\ BringsSearch(m.view)
                     THEN {m.sel[Search]} ELSE {}
<1> DEFINE sel == IF Read(u.filters) = NoFilters THEN Default ELSE Read(u.filters)
           order == IF u.sort THEN "sorted" ELSE DefaultSorting
           page == IF u.page = 0 THEN 1 ELSE u.page
           params == SetFilters(u, IF sel = Default THEN NoFilters ELSE sel)
           mark == u.sort \/ DefaultSorted
           first == [sel |-> sel, sorting |-> order, page |-> page, view |-> None,
                     params |-> params, dirty |-> TRUE, mark |-> mark, table |-> Mounted(mark),
                     pinned |-> InToolbar, interim |-> sel, typed |-> sel[Search],
                     echo |-> {}, mode |-> "disabled", rows |-> {}]
<1>1. Opened(u) = IF viewed THEN Committed(first, Initialized(first, u)) ELSE first
  BY DEF Opened
<1>2. /\ u.filters \in Values /\ u.sort \in BOOLEAN /\ u.page \in 0 .. MaxPage
      /\ Read(u.filters) \in Values /\ NoFilters \in Values
  BY ReadType DEF Address
<1>3. sel \in Values /\ sel[Search] \in SUBSET Words /\ page \in 1 .. MaxPage
  BY <1>2, DataGridAssumption DEF Values
<1>4. /\ order \in Sortings /\ mark \in BOOLEAN /\ Mounted(mark) \in Sortings
      /\ InToolbar \in SUBSET Filters /\ Search \in InToolbar /\ None \notin Views
  BY <1>2, DataGridAssumption DEF Sortings, DefaultSorting, Mounted
<1>5. /\ params \in Address /\ params.sort = u.sort /\ params.page = page
      /\ params.filters = IF sel = Default THEN NoFilters ELSE sel
  BY <1>2, <1>3, SetFiltersType
<1>6. /\ u.sort => Order(order)
      /\ ~ u.sort => order = BaseSorting(None)
  BY DEF Order, BaseSorting
<1> HIDE DEF sel, order, page, params, mark
<1>7. /\ first.sel = sel /\ first.sorting = order /\ first.page = page /\ first.view = None
      /\ first.params = params /\ first.dirty = TRUE /\ first.echo = {} /\ first.typed = sel[Search]
      /\ first.rows = {} /\ first.pinned = InToolbar /\ first.mode = "disabled"
  OBVIOUS
<1>8. first \in Tab
  BY <1>3, <1>4, <1>5 DEF Tab
<1> HIDE DEF first
<1>9. Shape(first) /\ Pending(first) /\ Settled(first)
  BY <1>4, <1>7, <1>8 DEF Shape, Pending, Settled, Echoes
<1>10. ASSUME NEW w PROVE Synced(first, w)
  <2>1. FiltersParam(first) = params.filters
    BY <1>5, <1>7 DEF FiltersParam, BaseFilters
  <2> QED BY <1>5, <1>6, <1>7, <2>1 DEF Synced
<1>11. CASE ~ viewed
  <2>1. /\ sel = IF Read(u.filters) = NoFilters THEN BaseFilters(None) ELSE Read(u.filters)
        /\ order = IF u.sort THEN "sorted" ELSE BaseSorting(None)
        /\ page = IF u.page = 0 THEN 1 ELSE u.page
    BY DEF sel, order, page, BaseFilters, BaseSorting
  <2>2. Opened(u) = first
    BY <1>1, <1>11
  <2>3. ~ BringsSearch(None)
    BY DEF BringsSearch
  <2> QED BY <1>7, <1>9, <1>10, <1>11, <2>1, <2>2, <2>3
<1>12. CASE viewed
  <2> DEFINE v == IF u.view \in Views THEN u.view ELSE FirstView
             sel2 == IF Read(u.filters) = NoFilters THEN ViewFilters[v] ELSE Read(u.filters)
             mark2 == u.sort \/ ViewSorted[v]
             order2 == IF u.sort THEN "sorted" ELSE ViewSorting(v)
             pinned2 == SetPinnedFilters(ViewPinned[v])
             n == Initialized(first, u)
  <2>1. v \in Views
    BY DataGridAssumption
  <2> HIDE DEF v
  <2>2. /\ sel2 \in Values /\ mark2 \in BOOLEAN /\ Mounted(mark2) \in Sortings
        /\ order2 \in Sortings /\ pinned2 \in SUBSET Filters /\ Search \in pinned2
    BY <1>2, <2>1, DataGridAssumption DEF Sortings, Mounted, ViewSorting, SetPinnedFilters
  <2>11. /\ sel2 = IF Read(u.filters) = NoFilters THEN BaseFilters(v) ELSE Read(u.filters)
         /\ order2 = IF u.sort THEN "sorted" ELSE BaseSorting(v)
         /\ page = IF u.page = 0 THEN 1 ELSE u.page
    BY <2>1, DataGridAssumption DEF BaseFilters, BaseSorting, page
  <2>12. u.view \in Views => v = u.view
    BY DEF v
  <2>3. n = [first EXCEPT !.view = v, !.sel = sel2, !.interim = sel2, !.sorting = order2,
               !.mark = mark2, !.table = Mounted(mark2), !.pinned = pinned2]
    BY DEF Initialized, v
  <2> HIDE DEF sel2, mark2, order2, pinned2, n
  <2>4. n \in Tab
    BY <1>8, <2>1, <2>2, <2>3 DEF Tab
  <2>5. /\ n.view = v /\ n.pinned = pinned2 /\ n.echo = {} /\ n.typed = first.typed
        /\ n.rows = {} /\ n.params = first.params /\ n.dirty = first.dirty
        /\ n.sel = sel2 /\ n.sorting = order2 /\ n.page = page
    BY <1>7, <1>8, <2>3 DEF Tab
  <2>6. Rendered(first, n)
    BY <1>7, <2>2, <2>4, <2>5 DEF Rendered, Shape, Pending, Settled, Echoes
  <2>7. Synced(first, u)
    BY <1>10
  <2>8. Opened(u) = Committed(first, n)
    BY <1>1, <1>12 DEF n
  <2>9. PICK m : m = Committed(first, n)
    OBVIOUS
  <2>10. /\ Shape(m) /\ Synced(m, u) /\ Pending(m) /\ Settled(m) /\ m.view = n.view
         /\ m.sel = n.sel /\ m.sorting = n.sorting /\ m.page = n.page
         /\ m.echo = IF /\ n.sel[Search] # first.sel[Search] /\ n.sel[Search] # n.typed
                       /\ n.sel[Search] \cap Short = {}
                    THEN {n.sel[Search]} ELSE n.echo
    BY <1>9, <2>6, <2>7, <2>9, CommittedOK
  <2>13. v # None
    BY <2>1, DataGridAssumption
  <2>14. m.echo = IF Read(u.filters) = NoFilters /\ BringsSearch(v) THEN {m.sel[Search]} ELSE {}
    <3>1. first.sel[Search] = sel[Search] /\ n.typed = sel[Search]
      BY <1>7, <2>5
    <3>2. CASE Read(u.filters) = NoFilters
      <4>1. sel = Default /\ sel2 = ViewFilters[v]
        BY <3>2 DEF sel, sel2
      <4> QED BY <2>5, <2>10, <2>13, <3>1, <3>2, <4>1 DEF BringsSearch
    <3>3. CASE Read(u.filters) # NoFilters
      <4>1. sel = sel2
        BY <3>3 DEF sel, sel2
      <4> QED BY <2>5, <2>10, <3>1, <3>3, <4>1
    <3> QED BY <3>2, <3>3
  <2>15. Opened(u) = m
    BY <2>8, <2>9
  <2>16. /\ m.view = v /\ viewed = (m.view # None)
         /\ viewed /\ u.view \in Views => m.view = u.view
    BY <1>12, <2>5, <2>10, <2>12, <2>13
  <2>17. /\ m.sel = IF Read(u.filters) = NoFilters THEN BaseFilters(m.view) ELSE Read(u.filters)
         /\ m.sorting = IF u.sort THEN "sorted" ELSE BaseSorting(m.view)
         /\ m.page = IF u.page = 0 THEN 1 ELSE u.page
    BY <2>5, <2>10, <2>11, <2>16
  <2> QED BY <2>10, <2>14, <2>15, <2>16, <2>17
<1> QED BY <1>11, <1>12

-----------------------------------------------------------------------------
(* The events.                                                             *)

LEMMA CommitStep ==
  ASSUME GridInv, NEW n, Edited(tab, n), Commit(n)
  PROVE  GridInv' /\ (tab'.sel # tab.sel => tab'.page = 1)
<1>1. PICK m : m = Committed(tab, n)
  OBVIOUS
<1>2. tab' = m /\ UNCHANGED <<viewed, url>>
  BY <1>1 DEF Commit
<1>3. /\ Shape(m) /\ Synced(m, url) /\ Pending(m) /\ Settled(m)
      /\ m.sel = n.sel /\ m.page = n.page /\ m.view = n.view
  BY <1>1, CommittedOK DEF GridInv, Edited
<1>4. GridInv'
  BY <1>2, <1>3 DEF GridInv, Edited
<1> QED BY <1>2, <1>3, <1>4 DEF Edited

(* Most handlers leave the search and the selection of rows alone.         *)
SearchAlone(t, n) ==
  /\ n.params = t.params /\ n.dirty = t.dirty
  /\ n.typed = t.typed /\ n.echo = t.echo
LEMMA EditedAside ==
  ASSUME NEW t, Shape(t), Pending(t), Settled(t), NEW n \in Tab, SearchAlone(t, n),
         n.rows # {} => n.mode = "enabled", Search \in n.pinned,
         n.view = None <=> t.view = None, n.sel # t.sel => n.page = 1
  PROVE  Edited(t, n)
BY DEF Edited, Rendered, Shape, Pending, Settled, SearchAlone

LEMMA FilteredOK ==
  ASSUME NEW t \in Tab, NEW filters \in Values
  PROVE  LET n == Filtered(t, filters) IN
         /\ n \in Tab /\ SearchAlone(t, n)
         /\ n.sel = filters /\ n.page = 1 /\ n.interim = filters
         /\ n.rows = t.rows /\ n.mode = t.mode /\ n.pinned = t.pinned /\ n.view = t.view
<1>1. 1 \in 1 .. MaxPage
  BY DataGridAssumption
<1>2. Filtered(t, filters) = [t EXCEPT !.sel = filters, !.interim = filters, !.page = 1]
  BY DEF Filtered, WithFilters
<1>3. PICK n : n = [t EXCEPT !.sel = filters, !.interim = filters, !.page = 1]
  OBVIOUS
<1>4. n \in Tab
  BY <1>1, <1>3 DEF Tab
<1>5. /\ SearchAlone(t, n) /\ n.sel = filters /\ n.page = 1 /\ n.interim = filters
      /\ n.rows = t.rows /\ n.mode = t.mode /\ n.pinned = t.pinned /\ n.view = t.view
  BY <1>3 DEF Tab, SearchAlone
<1> QED BY <1>2, <1>3, <1>4, <1>5

LEMMA RemountedOK ==
  ASSUME NEW t \in Tab, NEW mark \in BOOLEAN
  PROVE  LET n == Remounted(t, mark) IN
         /\ n \in Tab /\ SearchAlone(t, n) /\ n.sel = t.sel /\ n.interim = t.interim
         /\ n.rows = t.rows /\ n.mode = t.mode /\ n.pinned = t.pinned /\ n.view = t.view
<1>1. PICK table \in Sortings \cup {None} : table = IF t.table = None THEN None ELSE Mounted(mark)
  BY DEF Mounted, Sortings
<1>2. Remounted(t, mark) = [t EXCEPT !.mark = mark, !.table = table]
  BY <1>1 DEF Remounted
<1>3. PICK n : n = [t EXCEPT !.mark = mark, !.table = table]
  OBVIOUS
<1>4. n \in Tab
  BY <1>3 DEF Tab
<1>5. /\ SearchAlone(t, n) /\ n.sel = t.sel /\ n.interim = t.interim
      /\ n.rows = t.rows /\ n.mode = t.mode /\ n.pinned = t.pinned /\ n.view = t.view
  BY <1>3 DEF Tab, SearchAlone
<1> QED BY <1>2, <1>3, <1>4, <1>5

LEMMA FilterStep ==
  ASSUME GridInv, NEW filters \in Values
  PROVE  Edited(tab, Filtered(tab, filters))
<1>1. tab \in Tab
  BY DEF GridInv, Shape
<1> QED BY <1>1, FilteredOK, EditedAside DEF GridInv, Shape

(* The table: a page, or the sorter.                                       *)
LEMMA HandleChangeOK ==
  ASSUME NEW t \in Tab, NEW page \in 1 .. MaxPage, NEW sorter \in Sortings
  PROVE  LET n == HandleChange(t, page, sorter) IN
         /\ n \in Tab /\ SearchAlone(t, n) /\ n.sel = t.sel
         /\ n.rows = t.rows /\ n.mode = t.mode /\ n.pinned = t.pinned /\ n.view = t.view
<1>1. 1 \in 1 .. MaxPage
  BY DataGridAssumption
<1> QED BY <1>1 DEF HandleChange, Tab, SearchAlone

LEMMA TableStep ==
  ASSUME GridInv, NEW page \in 1 .. MaxPage,
         TablePage(page) \/ CardPage(page) \/ ClickTitle \/ ChangeViewMode
  PROVE  \E n : Edited(tab, n) /\ Commit(n)
<1>1. PICK t \in Tab : t = tab /\ Shape(t) /\ Pending(t) /\ Settled(t)
  BY DEF GridInv, Shape
<1>2. ASSUME NEW n \in Tab, SearchAlone(t, n), n.sel = t.sel, n.view = t.view,
             n.rows = t.rows, n.mode = t.mode, n.pinned = t.pinned
      PROVE  Edited(t, n)
  BY <1>1, <1>2, EditedAside DEF Shape
<1>3. CASE TablePage(page)
  <2>1. t.table \in Sortings
    BY <1>1, <1>3 DEF TablePage, Tab
  <2> QED BY <1>1, <1>2, <1>3, <2>1, HandleChangeOK DEF TablePage
<1>4. CASE CardPage(page)
  <2>1. PICK n : n = [t EXCEPT !.page = page]
    OBVIOUS
  <2> QED BY <1>1, <1>2, <1>4, <2>1 DEF CardPage, Tab, SearchAlone
<1>5. CASE ClickTitle
  <2>1. PICK sorter \in Sortings : sorter = IF Order(t.table) THEN "cleared" ELSE "sorted"
    BY DEF Sortings
  <2>2. PICK m \in Tab :
          /\ m = HandleChange(t, t.page, sorter) /\ SearchAlone(t, m) /\ m.sel = t.sel
          /\ m.rows = t.rows /\ m.mode = t.mode /\ m.pinned = t.pinned /\ m.view = t.view
    <3>1. t.page \in 1 .. MaxPage
      BY DEF Tab
    <3> QED BY <3>1, HandleChangeOK
  <2>3. PICK n : n = [m EXCEPT !.table = sorter]
    OBVIOUS
  <2>4. Edited(t, n)
    BY <1>2, <2>2, <2>3 DEF Tab, SearchAlone
  <2>5. Commit(n)
    BY <1>1, <1>5, <2>1, <2>2, <2>3 DEF ClickTitle
  <2> QED BY <1>1, <2>4, <2>5
<1>6. CASE ChangeViewMode
  <2>1. PICK table \in Sortings \cup {None} : table = IF t.table = None THEN Mounted(t.mark) ELSE None
    BY DEF Mounted, Sortings
  <2>2. PICK n : n = [t EXCEPT !.table = table]
    OBVIOUS
  <2>3. Edited(t, n)
    BY <1>2, <2>2 DEF Tab, SearchAlone
  <2>4. Commit(n)
    BY <1>1, <1>6, <2>1, <2>2 DEF ChangeViewMode
  <2> QED BY <1>1, <2>3, <2>4
<1> QED BY <1>3, <1>4, <1>5, <1>6

(* A view, or the defaults of a grid without views.                        *)
LEMMA ViewStep ==
  ASSUME GridInv, NEW v \in Views, ChangeView(v)
  PROVE  \E n : Edited(tab, n) /\ Commit(n)
<1>1. PICK t \in Tab : t = tab /\ Shape(t) /\ Pending(t) /\ Settled(t)
  BY DEF GridInv, Shape
<1>2. /\ ViewSorted[v] \in BOOLEAN /\ ViewFilters[v] \in Values /\ ViewSorting(v) \in Sortings
      /\ SetPinnedFilters(ViewPinned[v]) \in SUBSET Filters
      /\ Search \in SetPinnedFilters(ViewPinned[v])
  BY DataGridAssumption DEF ViewSorting, Sortings, SetPinnedFilters
<1>3. PICK r \in Tab :
        /\ r = Remounted(t, ViewSorted[v]) /\ SearchAlone(t, r)
        /\ r.rows = t.rows /\ r.mode = t.mode /\ r.view = t.view
  BY <1>2, RemountedOK
<1>4. PICK m \in Tab :
        /\ m = Filtered(r, ViewFilters[v]) /\ SearchAlone(r, m)
        /\ m.page = 1 /\ m.rows = r.rows /\ m.mode = r.mode
  BY <1>2, FilteredOK
<1>5. PICK sorting \in Sortings, pinned \in SUBSET Filters :
        sorting = ViewSorting(v) /\ pinned = SetPinnedFilters(ViewPinned[v])
  BY <1>2
<1>6. PICK n : n = [m EXCEPT !.view = v, !.sorting = sorting, !.pinned = pinned]
  OBVIOUS
<1>7. /\ n \in Tab /\ SearchAlone(m, n) /\ n.page = m.page /\ n.rows = m.rows
      /\ n.mode = m.mode /\ n.pinned = pinned /\ n.view = v
  BY <1>6 DEF Tab, SearchAlone
<1>8. SearchAlone(t, n)
  BY <1>3, <1>4, <1>7 DEF SearchAlone
<1>9. v # None /\ t.view # None
  BY <1>1, DataGridAssumption DEF ChangeView, GridInv
<1>10. Edited(t, n)
  BY <1>1, <1>2, <1>3, <1>4, <1>5, <1>7, <1>8, <1>9, EditedAside DEF Shape
<1>11. Commit(n)
  BY <1>1, <1>3, <1>4, <1>5, <1>6 DEF ChangeView
<1> QED BY <1>1, <1>10, <1>11

LEMMA ResetStep ==
  ASSUME GridInv, ResetToDefault
  PROVE  \E n : Edited(tab, n) /\ Commit(n)
<1>1. PICK t \in Tab : t = tab /\ Shape(t) /\ Pending(t) /\ Settled(t)
  BY DEF GridInv, Shape
<1>2. DefaultSorted \in BOOLEAN /\ Default \in Values /\ DefaultSorting \in Sortings
  BY DataGridAssumption DEF DefaultSorting, Sortings
<1>3. PICK r \in Tab :
        /\ r = Remounted(t, DefaultSorted) /\ SearchAlone(t, r)
        /\ r.rows = t.rows /\ r.mode = t.mode /\ r.view = t.view /\ r.pinned = t.pinned
  BY <1>2, RemountedOK
<1>4. PICK m \in Tab :
        /\ m = Filtered(r, Default) /\ SearchAlone(r, m) /\ m.view = r.view
        /\ m.page = 1 /\ m.rows = r.rows /\ m.mode = r.mode /\ m.pinned = r.pinned
  BY <1>2, FilteredOK
<1>5. PICK k : k = [m EXCEPT !.sorting = DefaultSorting]
  OBVIOUS
<1>6. /\ k \in Tab /\ SearchAlone(m, k) /\ k.page = m.page /\ k.rows = m.rows
      /\ k.mode = m.mode /\ k.pinned = m.pinned /\ k.view = m.view
  BY <1>2, <1>5 DEF Tab, SearchAlone
<1>7. PICK n : n \in {k, [k EXCEPT !.interim = t.interim]} /\ Commit(n)
  BY <1>1, <1>3, <1>4, <1>5 DEF ResetToDefault
<1>8. /\ n \in Tab /\ SearchAlone(k, n) /\ n.page = k.page /\ n.rows = k.rows
      /\ n.mode = k.mode /\ n.pinned = k.pinned /\ n.view = k.view
  BY <1>6, <1>7 DEF Tab, SearchAlone
<1>9. SearchAlone(t, n)
  BY <1>3, <1>4, <1>6, <1>8 DEF SearchAlone
<1>10. Edited(t, n)
  BY <1>1, <1>3, <1>4, <1>6, <1>8, <1>9, EditedAside DEF Shape
<1> QED BY <1>1, <1>7, <1>10

(* The panel, the toolbar and the chips.                                   *)
LEMMA FiltersStep ==
  ASSUME GridInv,
         \/ ApplyPanel \/ ClearPanel \/ DefaultPanel
         \/ \E f \in Filters, value \in SUBSET Options : EditPinned(f, value)
         \/ \E f \in Filters, w \in Words : RemoveChip(f, w)
  PROVE  \E n : Edited(tab, n) /\ Commit(n)
<1>1. tab.sel \in Values /\ tab.interim \in Values
  BY DEF GridInv, Shape, Tab
<1>2. \E filters \in Values : Commit(Filtered(tab, filters))
  <2>1. CASE ApplyPanel \/ ClearPanel \/ DefaultPanel
    BY <1>1, <2>1, DataGridAssumption DEF ApplyPanel, ClearPanel, DefaultPanel, NoFilters, Values
  <2>2. ASSUME NEW f \in Filters, NEW value \in SUBSET Options, EditPinned(f, value)
        PROVE  \E filters \in Values : Commit(Filtered(tab, filters))
    <3>1. [tab.sel EXCEPT ![f] = value] \in Values
      BY <1>1, DataGridAssumption DEF Values
    <3> QED BY <2>2, <3>1 DEF EditPinned
  <2>3. ASSUME NEW f \in Filters, NEW w \in Words, RemoveChip(f, w)
        PROVE  \E filters \in Values : Commit(Filtered(tab, filters))
    <3>1. [tab.sel EXCEPT ![f] = IF f = Search THEN {} ELSE @ \ {w}] \in Values
      BY <1>1 DEF Values
    <3> QED BY <2>3, <3>1 DEF RemoveChip
  <2> QED BY <2>1, <2>2, <2>3
<1> QED BY <1>2, FilterStep

LEMMA PanelStep ==
  ASSUME GridInv,
         CancelPanel \/ \E f \in Filters, value \in SUBSET Options : EditInPanel(f, value)
  PROVE  \E n : Edited(tab, n) /\ Commit(n)
<1>1. PICK t \in Tab : t = tab /\ Shape(t) /\ Pending(t) /\ Settled(t)
  BY DEF GridInv, Shape
<1>2. t.interim \in Values /\ t.sel \in Values
  BY DEF Tab
<1>3. PICK filters \in Values : Commit([t EXCEPT !.interim = filters])
  <2>1. CASE CancelPanel
    BY <1>1, <1>2, <2>1 DEF CancelPanel
  <2>2. ASSUME NEW f \in Filters, NEW value \in SUBSET Options, EditInPanel(f, value)
        PROVE  \E filters \in Values : Commit([t EXCEPT !.interim = filters])
    <3>1. [t.interim EXCEPT ![f] = value] \in Values
      BY <1>2, DataGridAssumption DEF Values
    <3>2. Commit([t EXCEPT !.interim = [t.interim EXCEPT ![f] = value]])
      BY <1>1, <2>2 DEF EditInPanel
    <3> QED BY <3>1, <3>2
  <2> QED BY <2>1, <2>2
<1>4. PICK n : n = [t EXCEPT !.interim = filters]
  OBVIOUS
<1>5. /\ n \in Tab /\ SearchAlone(t, n) /\ n.sel = t.sel /\ n.view = t.view
      /\ n.rows = t.rows /\ n.mode = t.mode /\ n.pinned = t.pinned
  BY <1>4 DEF Tab, SearchAlone
<1>6. Edited(t, n)
  BY <1>1, <1>5, EditedAside DEF Shape
<1> QED BY <1>1, <1>3, <1>4, <1>6

(* The search: a key, and the timer.                                       *)
LEMMA TypeStep ==
  ASSUME GridInv, NEW text \in Texts, Type(text)
  PROVE  \E n : Edited(tab, n) /\ Commit(n)
<1>1. PICK t \in Tab : t = tab /\ Shape(t) /\ Pending(t) /\ Settled(t)
  BY DEF GridInv, Shape
<1>2. text \in SUBSET Words
  BY DEF Texts
<1>3. PICK echo \in Echoes : echo = IF text \cap Short = {} THEN {text} ELSE t.echo
  BY <1>1, <1>2 DEF Echoes, Shape
<1>4. PICK n : n = [t EXCEPT !.typed = text, !.echo = echo]
  OBVIOUS
<1>5. echo \in SUBSET SUBSET Words
  BY DEF Echoes
<1>6. /\ n \in Tab /\ n.typed = text /\ n.echo = echo /\ n.sel = t.sel /\ n.view = t.view
      /\ n.rows = t.rows /\ n.mode = t.mode /\ n.pinned = t.pinned
      /\ n.params = t.params /\ n.dirty = t.dirty
  BY <1>2, <1>4, <1>5 DEF Tab
<1>7. Edited(t, n)
  BY <1>1, <1>3, <1>6 DEF Edited, Rendered, Shape, Pending, Settled
<1>8. Commit(n)
  BY <1>1, <1>3, <1>4 DEF Type
<1> QED BY <1>1, <1>7, <1>8

LEMMA SearchStep ==
  ASSUME GridInv, ApplySearch
  PROVE  \E n : Edited(tab, n) /\ Commit(n)
<1>1. PICK t \in Tab : t = tab /\ Shape(t) /\ Pending(t) /\ Settled(t)
  BY DEF GridInv, Shape
<1>2. PICK text \in t.echo :
        Commit([Filtered(t, [t.sel EXCEPT ![Search] = text]) EXCEPT !.echo = {}])
  BY <1>1 DEF ApplySearch, Searched
<1>3. PICK filters \in Values : filters = [t.sel EXCEPT ![Search] = text] /\ filters[Search] = text
  <2>1. t.sel \in Values /\ text \in SUBSET Words /\ Search \in Filters
    BY DataGridAssumption DEF Tab
  <2> DEFINE f == [t.sel EXCEPT ![Search] = text]
  <2>2. f \in Values /\ f[Search] = text
    BY <2>1 DEF Values
  <2> HIDE DEF f
  <2>3. f = [t.sel EXCEPT ![Search] = text]
    BY DEF f
  <2> QED BY <2>2, <2>3
<1>4. PICK m \in Tab :
        /\ m = Filtered(t, filters) /\ SearchAlone(t, m) /\ m.sel = filters /\ m.page = 1
        /\ m.rows = t.rows /\ m.mode = t.mode /\ m.pinned = t.pinned /\ m.view = t.view
  BY FilteredOK
<1>5. PICK n : n = [m EXCEPT !.echo = {}]
  OBVIOUS
<1>6. /\ n \in Tab /\ n.typed = m.typed /\ n.echo = {} /\ n.sel = m.sel /\ n.view = m.view
      /\ n.rows = m.rows /\ n.mode = m.mode /\ n.pinned = m.pinned /\ n.page = m.page
      /\ n.params = m.params /\ n.dirty = m.dirty
  BY <1>5 DEF Tab
<1>7. t.typed \cap Short = {} => t.typed = text
  BY <1>1, <1>2 DEF Pending
<1>8. Edited(t, n)
  BY <1>1, <1>3, <1>4, <1>6, <1>7 DEF Edited, Rendered, Shape, Pending, Settled, SearchAlone, Echoes
<1> QED BY <1>1, <1>2, <1>3, <1>4, <1>5, <1>8

LEMMA SelectStep ==
  ASSUME GridInv, EnableSelectMode \/ DisableSelectMode \/ \E keys \in SUBSET Rows : SelectRows(keys)
  PROVE  \E n : Edited(tab, n) /\ Commit(n)
<1>1. PICK t \in Tab : t = tab /\ Shape(t) /\ Pending(t) /\ Settled(t)
  BY DEF GridInv, Shape
<1>2. t.mode \in {"disabled", "enabled"} /\ t.rows \in SUBSET Rows
  BY DEF Tab
<1>3. ASSUME NEW n \in Tab, SearchAlone(t, n), n.sel = t.sel, n.view = t.view,
             n.pinned = t.pinned, n.rows # {} => n.mode = "enabled"
      PROVE  Edited(t, n)
  BY <1>1, <1>3, EditedAside DEF Shape
<1>4. CASE EnableSelectMode
  <2>1. PICK n : n = [t EXCEPT !.mode = "enabled"]
    OBVIOUS
  <2>2. n \in Tab
    BY <2>1 DEF Tab
  <2>3. /\ SearchAlone(t, n) /\ n.sel = t.sel /\ n.view = t.view
        /\ n.pinned = t.pinned /\ n.mode = "enabled"
    BY <2>1 DEF Tab, SearchAlone
  <2>4. Commit(n)
    BY <1>1, <1>4, <2>1 DEF EnableSelectMode
  <2> QED BY <1>1, <1>3, <2>2, <2>3, <2>4
<1>5. CASE DisableSelectMode
  <2>1. PICK n : n = [t EXCEPT !.mode = "disabled", !.rows = {}]
    OBVIOUS
  <2>2. n \in Tab
    BY <2>1 DEF Tab
  <2>3. /\ SearchAlone(t, n) /\ n.sel = t.sel /\ n.view = t.view
        /\ n.pinned = t.pinned /\ n.rows = {}
    BY <2>1 DEF Tab, SearchAlone
  <2>4. Commit(n)
    BY <1>1, <1>5, <2>1 DEF DisableSelectMode
  <2> QED BY <1>1, <1>3, <2>2, <2>3, <2>4
<1>6. ASSUME NEW keys \in SUBSET Rows, SelectRows(keys)
      PROVE  \E n : Edited(tab, n) /\ Commit(n)
  <2>1. PICK n : n = [t EXCEPT !.rows = keys]
    OBVIOUS
  <2>2. n \in Tab
    BY <2>1 DEF Tab
  <2>3. /\ SearchAlone(t, n) /\ n.sel = t.sel /\ n.view = t.view
        /\ n.pinned = t.pinned /\ n.mode = t.mode
    BY <2>1 DEF Tab, SearchAlone
  <2>4. t.mode = "enabled" /\ Commit(n)
    BY <1>1, <1>2, <1>6, <2>1 DEF SelectRows, Unlocked
  <2> QED BY <1>1, <1>3, <2>2, <2>3, <2>4
<1> QED BY <1>4, <1>5, <1>6

(* The timer writes the address; a reload reads it.                        *)
LEMMA NavigateStep == GridInv /\ Navigate => GridInv' /\ tab'.sel = tab.sel
<1> SUFFICES ASSUME GridInv, Navigate PROVE GridInv' /\ tab'.sel = tab.sel
  OBVIOUS
<1>1. PICK t \in Tab : t = tab /\ Shape(t) /\ Synced(t, url) /\ Pending(t) /\ Settled(t)
  BY DEF GridInv, Shape
<1>2. PICK n : n = [t EXCEPT !.dirty = FALSE]
  OBVIOUS
<1>3. tab' = n /\ url' = t.params /\ viewed' = viewed
  BY <1>1, <1>2 DEF Navigate
<1>4. /\ n \in Tab /\ n.sel = t.sel /\ n.view = t.view /\ n.sorting = t.sorting
      /\ n.page = t.page /\ n.params = t.params /\ n.dirty = FALSE /\ n.echo = t.echo
      /\ n.typed = t.typed /\ n.rows = t.rows /\ n.mode = t.mode /\ n.pinned = t.pinned
  BY <1>2 DEF Tab
<1>5. t.params \in Address
  BY DEF Tab
<1>6. FiltersParam(n) = FiltersParam(t)
  BY <1>4 DEF FiltersParam
<1>7. Shape(n) /\ Synced(n, t.params) /\ Pending(n) /\ Settled(n)
  BY <1>1, <1>4, <1>6 DEF Shape, Synced, Pending, Settled
<1> QED BY <1>1, <1>3, <1>4, <1>5, <1>7 DEF GridInv

LEMMA ReloadStep == GridInv /\ Reload => GridInv'
<1> SUFFICES ASSUME GridInv, Reload PROVE GridInv'
  OBVIOUS
<1>1. PICK m : m = Opened(url)
  OBVIOUS
<1>2. tab' = m /\ UNCHANGED <<viewed, url>>
  BY <1>1 DEF Reload
<1>3. /\ Shape(m) /\ Pending(m) /\ Settled(m) /\ Synced(m, url)
      /\ viewed = (m.view # None)
  BY <1>1, OpenedOK DEF GridInv
<1> QED BY <1>2, <1>3 DEF GridInv

LEMMA GridStep ==
  ASSUME GridInv, [Next]_vars
  PROVE  GridInv' /\ (tab'.sel # tab.sel /\ ~ Reload => tab'.page = 1)
<1>1. ASSUME NEW n, Edited(tab, n), Commit(n)
      PROVE  GridInv' /\ (tab'.sel # tab.sel => tab'.page = 1)
  BY <1>1, CommitStep
<1>2. CASE UNCHANGED vars
  BY <1>2 DEF vars, GridInv
<1>3. 1 \in 1 .. MaxPage
  BY DataGridAssumption
<1>4. CASE \E page \in 1 .. MaxPage : TablePage(page) \/ CardPage(page)
  BY <1>1, <1>4, TableStep
<1>5. CASE ClickTitle \/ ChangeViewMode
  BY <1>1, <1>3, <1>5, TableStep
<1>6. CASE \E v \in Views : ChangeView(v)
  BY <1>1, <1>6, ViewStep
<1>7. CASE ResetToDefault
  BY <1>1, <1>7, ResetStep
<1>8. CASE \/ ApplyPanel \/ ClearPanel \/ DefaultPanel
           \/ \E f \in Filters, value \in SUBSET Options : EditPinned(f, value)
           \/ \E f \in Filters, w \in Words : RemoveChip(f, w)
  BY <1>1, <1>8, FiltersStep
<1>9. CASE CancelPanel \/ \E f \in Filters, value \in SUBSET Options : EditInPanel(f, value)
  BY <1>1, <1>9, PanelStep
<1>10. CASE \E text \in Texts : Type(text)
  BY <1>1, <1>10, TypeStep
<1>11. CASE ApplySearch
  BY <1>1, <1>11, SearchStep
<1>12. CASE EnableSelectMode \/ DisableSelectMode \/ \E keys \in SUBSET Rows : SelectRows(keys)
  BY <1>1, <1>12, SelectStep
<1>13. CASE Reload
  BY <1>13, ReloadStep
<1>14. CASE Navigate
  BY <1>14, NavigateStep
<1> QED BY <1>2, <1>4, <1>5, <1>6, <1>7, <1>8, <1>9, <1>10, <1>11, <1>12, <1>13, <1>14 DEF Next

LEMMA GridInit == Init => GridInv
<1> SUFFICES ASSUME Init PROVE GridInv
  OBVIOUS
<1>1. url \in Address /\ viewed \in BOOLEAN /\ tab = Opened(url)
  BY AddressesAssumption DEF Init
<1> QED BY <1>1, OpenedOK DEF GridInv

LEMMA AlwaysGridInv == Spec => []GridInv
<1>1. GridInv /\ [Next]_vars => GridInv'
  BY GridStep
<1> QED BY <1>1, GridInit, PTL DEF Spec

-----------------------------------------------------------------------------
(* The grid, its address and its timers stay within their types.           *)
THEOREM GridTyped == Spec => []TypeOK
<1>1. GridInv => TypeOK
  <2>1. \A text : Cardinality({text}) = 1
    BY FS_Singleton
  <2>2. Cardinality({}) = 0
    BY FS_EmptySet
  <2>3. \A echo \in Echoes : Cardinality(echo) \in {0, 1}
    BY <2>1, <2>2 DEF Echoes
  <2> QED BY <2>3 DEF GridInv, Shape, TypeOK
<1> QED BY <1>1, AlwaysGridInv, PTL

(* The search that a view brings changes the page, and nothing else.       *)
LEMMA AtRestIs ==
  ASSUME NEW t \in Tab, t.echo \in {{}, {t.sel[Search]}}
  PROVE  LET r == AtRest(t) IN
         /\ r.sel = t.sel /\ r.view = t.view /\ r.sorting = t.sorting
         /\ r.page = IF t.echo = {} THEN t.page ELSE 1
<1>1. CASE t.echo = {}
  BY <1>1 DEF AtRest
<1>2. CASE t.echo # {}
  <2> DEFINE text == CHOOSE text \in t.echo : TRUE
  <2>1. text = t.sel[Search]
    BY <1>2
  <2> HIDE DEF text
  <2>2. [t.sel EXCEPT ![Search] = text] = t.sel
    BY <2>1 DEF Tab, Values
  <2>3. AtRest(t) = Committed(t, [Filtered(t, t.sel) EXCEPT !.echo = {}])
    BY <1>2, <2>2 DEF AtRest, Searched, text
  <2>4. PICK n : n = [Filtered(t, t.sel) EXCEPT !.echo = {}]
    OBVIOUS
  <2>5. /\ n \in [DOMAIN t -> UNION {{t[x] : x \in DOMAIN t}, {1, {}}}]
        /\ n.sel = t.sel /\ n.view = t.view /\ n.sorting = t.sorting /\ n.page = 1
    BY <2>4 DEF Filtered, WithFilters, Tab
  <2>6. DOMAIN n = DOMAIN t /\ {"sel", "view", "sorting", "page"} \subseteq DOMAIN n
    BY <2>5 DEF Tab
  <2>7. LET r == Committed(t, n) IN
        r.sel = n.sel /\ r.view = n.view /\ r.sorting = n.sorting /\ r.page = n.page
    BY <2>5, <2>6 DEF Committed
  <2> QED BY <1>2, <2>3, <2>4, <2>5, <2>7
<1> QED BY <1>1, <1>2

(* What a reload, or the link given to another user, shows of what was     *)
(* left, in every case.                                                    *)
THEOREM GridRestored == Spec => []AddressRestoresTheGrid
<1>1. GridInv => AddressRestoresTheGrid
  <2> SUFFICES ASSUME GridInv, ~ tab.dirty, NEW m, m = Opened(url), NEW t, t = AtRest(m)
               PROVE  /\ t.view = tab.view
                      /\ t.sel = IF Kept(tab) THEN Read(tab.sel) ELSE BaseFilters(tab.view)
                      /\ Order(t.sorting) = (Order(tab.sorting) \/ Order(BaseSorting(tab.view)))
                      /\ t.page = IF ~ Kept(tab) /\ BringsSearch(tab.view) THEN 1 ELSE tab.page
    BY DEF AddressRestoresTheGrid
  <2>1. /\ tab.params = url /\ url.filters = FiltersParam(tab) /\ url.page = tab.page
        /\ url.sort => Order(tab.sorting)
        /\ ~ url.sort => tab.sorting = BaseSorting(tab.view) \/ ~ Order(tab.sorting)
        /\ tab.view # None => url.view = tab.view
    BY DEF GridInv, Synced
  <2>2. /\ tab.sel \in Values /\ tab.view \in Views \cup {None} /\ tab.page \in 1 .. MaxPage
        /\ url \in Address /\ url.sort \in BOOLEAN
    BY DEF GridInv, Shape, Tab, Address
  <2>3. /\ viewed = (m.view # None) /\ m \in Tab
        /\ viewed /\ url.view \in Views => m.view = url.view
        /\ m.sel = IF Read(url.filters) = NoFilters THEN BaseFilters(m.view) ELSE Read(url.filters)
        /\ m.sorting = IF url.sort THEN "sorted" ELSE BaseSorting(m.view)
        /\ m.page = IF url.page = 0 THEN 1 ELSE url.page
        /\ m.echo = IF Read(url.filters) = NoFilters /\ BringsSearch(m.view)
                    THEN {m.sel[Search]} ELSE {}
    BY <2>2, OpenedOK DEF GridInv, Shape
  <2>4. m.view = tab.view
    BY <2>1, <2>2, <2>3 DEF GridInv
  <2>5. m.page = tab.page
    BY <2>1, <2>2, <2>3, DataGridAssumption
  <2>6. Read(url.filters) = IF Kept(tab) THEN Read(tab.sel) ELSE NoFilters
    BY <2>1, <2>2, ReadType DEF FiltersParam, Kept
  <2>7. Kept(tab) => Read(tab.sel) # NoFilters
    BY DEF Kept
  <2>8. Order(m.sorting) = (Order(tab.sorting) \/ Order(BaseSorting(tab.view)))
    <3>1. CASE url.sort
      BY <2>1, <2>3, <3>1 DEF Order
    <3>2. CASE ~ url.sort /\ tab.sorting = BaseSorting(tab.view)
      BY <2>3, <2>4, <3>2 DEF Order
    <3>3. CASE ~ url.sort /\ ~ Order(tab.sorting)
      BY <2>3, <2>4, <3>3 DEF Order
    <3> QED BY <2>1, <2>2, <3>1, <3>2, <3>3
  <2>9. /\ t.sel = m.sel /\ t.view = m.view /\ t.sorting = m.sorting
        /\ t.page = IF m.echo = {} THEN m.page ELSE 1
    BY <2>3, AtRestIs
  <2>10. t.sel = IF Kept(tab) THEN Read(tab.sel) ELSE BaseFilters(tab.view)
    BY <2>3, <2>4, <2>6, <2>7, <2>9
  <2>11. t.page = IF ~ Kept(tab) /\ BringsSearch(tab.view) THEN 1 ELSE tab.page
    <3>1. m.echo = {} <=> ~ (~ Kept(tab) /\ BringsSearch(tab.view))
      BY <2>3, <2>4, <2>6, <2>7
    <3> QED BY <2>5, <2>9, <3>1
  <2> QED BY <2>4, <2>8, <2>9, <2>10, <2>11
<1> QED BY <1>1, AlwaysGridInv, PTL

(* Whatever changes the filters, the first page of the new rows is shown.  *)
THEOREM NewFiltersFirstPage == Spec => FirstPageOfNewFilters
<1>1. GridInv /\ [Next]_vars => [tab'.sel # tab.sel /\ ~ Reload => tab'.page = 1]_vars
  BY GridStep
<1> QED BY <1>1, AlwaysGridInv, PTL DEF Spec, FirstPageOfNewFilters

(* The search is in the toolbar, and what stands there is what filters.    *)
THEOREM SearchReachable == Spec => []FiltersStayReachable
<1>1. GridInv => FiltersStayReachable
  BY DEF GridInv, Shape, Settled, FiltersStayReachable
<1> QED BY <1>1, AlwaysGridInv, PTL
=============================================================================
