------------------------------ MODULE DataGrid ------------------------------
(***************************************************************************)
(* The state of a data grid and the address it is kept in:                 *)
(* DataGrid.component.tsx, its hooks (query params, filters, sorting,      *)
(* views, selection, table key), the filters store, and the components     *)
(* that change them (views, filters panel, toolbar, search, chips).        *)
(*                                                                         *)
(* A handler and the effects of the commits it causes are one step: React  *)
(* flushes them before the next event.  The timers are steps of their own: *)
(* the address is written 200 ms after the last change, a search is        *)
(* applied 200 ms after the last key.                                      *)
(*                                                                         *)
(* One sortable column stands for all; a filter's value is a set of words, *)
(* {} when it has none; the page size is left out.                         *)
(***************************************************************************)
EXTENDS Naturals, FiniteSets

CONSTANTS
  Filters,        \* the keys of filterBuilders
  Search,         \* the one of useSearchInput: in the toolbar only
  Words,
  Parts,          \* what a word is read as: the words between its commas
  Short,          \* words below minSearchLength
  Options,        \* the words the other filters offer
  InToolbar,      \* filters of useShowInFiltersToolbar
  Default,        \* the default value of each filter
  DefaultSorted,  \* useDefaultSortOrder of the column
  Views,          \* the keys of the views' configurations
  FirstView,
  ViewFilters, ViewSorted, ViewPinned,
  FieldDiffers,   \* the column's field is not its dataIndex
  Rows,
  Addresses,      \* those the grid may be opened at
  None,
  MaxPage         \* BOUND: pages of the table

Texts == {{}} \cup {{w} : w \in Words}
Values == [Filters -> SUBSET Words]
NoFilters == [f \in Filters |-> {}]

ASSUME DataGridAssumption ==
  /\ Search \in InToolbar /\ InToolbar \subseteq Filters
  /\ Parts \in [Words -> SUBSET Words] /\ Short \cup Options \subseteq Words
  /\ Default \in Values /\ ViewFilters \in [Views -> Values]
  /\ DefaultSorted \in BOOLEAN /\ MaxPage \in Nat \ {0}
  /\ ViewSorted \in [Views -> BOOLEAN] /\ ViewPinned \in [Views -> SUBSET Filters]
  /\ FirstView \in Views /\ None \notin Views /\ Cardinality(Views) > 1

VARIABLES
  viewed,         \* the grid was given its views
  url,            \* the address
  tab             \* the mounted grid

vars == <<viewed, url, tab>>

(* [] and what antd reports: nothing was ever sorted, the sort was undone, *)
(* the column is sorted; a view may name the column's other field.         *)
Sortings == {"empty", "blank", "cleared", "sorted", "byField"}
Order(sorting) == sorting \in {"sorted", "byField"}

Address == [filters : Values, sort : BOOLEAN, page : 0 .. MaxPage, view : Views \cup {None}]

ASSUME AddressesAssumption == Addresses \subseteq Address

Tab ==
  [sel : Values, sorting : Sortings, page : 1 .. MaxPage, view : Views \cup {None},
   params : Address,                \* queryParams of useURLQueryParams
   dirty : BOOLEAN,                 \* its debounce is pending
   mark : BOOLEAN,                  \* the column carries a default sort order
   table : Sortings \cup {None},    \* the sorter antd holds; None: cards are shown
   pinned : SUBSET Filters,         \* pinnedFilters
   interim : Values,                \* interimSelectedFilters of the panel
   typed : SUBSET Words,            \* the text of the search
   echo : SUBSET SUBSET Words,      \* its debounced change, at most one
   mode : {"disabled", "enabled"},  \* select mode
   rows : SUBSET Rows]              \* selectedRowKeys

TypeOK ==
  /\ url \in Address /\ tab \in Tab
  /\ viewed = (tab.view # None)
  /\ Cardinality(tab.echo) <= 1
  /\ tab.rows # {} => tab.mode = "enabled"

-----------------------------------------------------------------------------
(* What the builders, or a view (ConfigToViewAdapter), start from.         *)

ViewSorting(v) ==
  IF ~ ViewSorted[v] THEN "empty" ELSE IF FieldDiffers THEN "byField" ELSE "sorted"
DefaultSorting == IF DefaultSorted THEN "sorted" ELSE "empty"

BaseFilters(v) == IF v = None THEN Default ELSE ViewFilters[v]
BaseSorting(v) == IF v = None THEN DefaultSorting ELSE ViewSorting(v)

(* Toolbar filters that the panel does not show stay in the toolbar.       *)
SetPinnedFilters(keys) == {Search} \cup keys

(* The sorter antd starts with when the table is mounted.                  *)
Mounted(mark) == IF mark THEN "sorted" ELSE "blank"

-----------------------------------------------------------------------------
(* The address.                                                            *)

(* parseQueryParams: values are split at their commas.                     *)
Read(filters) == [f \in Filters |-> UNION {Parts[w] : w \in filters[f]}]

(* useUpdateQueryParams: what equals the view, or the default, is cleared. *)
\* Mutant: compared with the default, view or not.
FiltersUnlessDefault(t) == IF t.sel = Default THEN NoFilters ELSE t.sel
FiltersParam(t) == IF t.sel = BaseFilters(t.view) THEN NoFilters ELSE t.sel

SortParam(t) == IF t.sorting = BaseSorting(t.view) THEN FALSE ELSE Order(t.sorting)

(* setFiltersQueryParams: everything is removed, then the sort, page and   *)
(* view are restored as they were when the hook was rendered.              *)
SetFilters(p, filters) ==
  [p EXCEPT !.filters = filters, !.page = IF @ = 0 THEN 1 ELSE @]

(* The effects of a commit, in their order.                                *)
Effects(t, n) ==
  LET reviewed == n.view # t.view
      p1 == IF reviewed \/ n.sel # t.sel THEN SetFilters(t.params, FiltersParam(n)) ELSE t.params
      p2 == IF reviewed \/ n.sorting # t.sorting THEN [p1 EXCEPT !.sort = SortParam(n)] ELSE p1
      p3 == IF n.page # t.page THEN [p2 EXCEPT !.page = n.page] ELSE p2
  IN IF reviewed THEN [p3 EXCEPT !.view = n.view] ELSE p3

(* The tab after the commit of n.  A search whose value changed takes it   *)
(* for its text and, as if it had been typed, applies it again.            *)
\* Mutant: the search keeps the text that was typed.
KeepsText(t, n) ==
  LET p == Effects(t, n) IN [n EXCEPT !.params = p, !.dirty = t.dirty \/ p # t.params]
Committed(t, n) ==
  LET p == Effects(t, n)
      text == n.sel[Search]
      retyped == text # t.sel[Search] IN
  [n EXCEPT !.params = p,
            !.dirty = t.dirty \/ p # t.params,
            !.typed = IF retyped THEN text ELSE @,
            !.echo = IF retyped /\ text # n.typed /\ text \cap Short = {} THEN {text} ELSE @]

(* DataGridViewSelect, when mounted: the filters and the sorting of the    *)
(* address go before those of the view it names.                           *)
Initialized(t, u) ==
  LET v == IF u.view \in Views THEN u.view ELSE FirstView
      sel == IF Read(u.filters) = NoFilters THEN ViewFilters[v] ELSE Read(u.filters)
      mark == u.sort \/ ViewSorted[v] IN
  [t EXCEPT !.view = v, !.sel = sel, !.interim = sel,
            !.sorting = IF u.sort THEN "sorted" ELSE ViewSorting(v),
            !.mark = mark, !.table = Mounted(mark),
            !.pinned = SetPinnedFilters(ViewPinned[v])]

(* The first commits of a grid mounted at u: the stores are filled from    *)
(* the address and the builders, then the view is initialized.             *)
Opened(u) ==
  LET sel == IF Read(u.filters) = NoFilters THEN Default ELSE Read(u.filters)
      first == [sel |-> sel,
                sorting |-> IF u.sort THEN "sorted" ELSE DefaultSorting,
                page |-> IF u.page = 0 THEN 1 ELSE u.page,
                view |-> None,
                params |-> SetFilters(u, IF sel = Default THEN NoFilters ELSE sel),
                dirty |-> TRUE,
                mark |-> u.sort \/ DefaultSorted,
                table |-> Mounted(u.sort \/ DefaultSorted),
                pinned |-> InToolbar, interim |-> sel,
                typed |-> sel[Search], echo |-> {}, mode |-> "disabled", rows |-> {}] IN
  IF viewed THEN Committed(first, Initialized(first, u)) ELSE first

Init ==
  /\ viewed \in BOOLEAN
  /\ url \in Addresses
  /\ tab = Opened(url)

-----------------------------------------------------------------------------
(* Events.                                                                 *)

Commit(n) == tab' = Committed(tab, n) /\ UNCHANGED <<viewed, url>>

Reload == tab' = Opened(url) /\ UNCHANGED <<viewed, url>>

(* The debounced navigate, with the query params of that moment.           *)
Navigate ==
  /\ tab.dirty
  /\ url' = tab.params
  /\ tab' = [tab EXCEPT !.dirty = FALSE]
  /\ UNCHANGED viewed

(* updateSelectedFilters, and the panel that follows.                      *)
WithFilters(t, filters) == [t EXCEPT !.sel = filters, !.interim = filters]

(* saveSelectedFilters and its like: to the first page.                    *)
\* Mutant: the page stays.
OnSamePage(t, filters) == WithFilters(t, filters)
Filtered(t, filters) == [WithFilters(t, filters) EXCEPT !.page = 1]

Unlocked == tab.mode = "disabled"

(* handleOnChange: the page, then the sorter unless it is the grid's.      *)
HandleChange(t, page, sorter) ==
  IF sorter = t.sorting THEN [t EXCEPT !.page = page]
  ELSE [t EXCEPT !.page = 1, !.sorting = sorter]

(* A page of the table: antd passes the sorter it holds along.             *)
TablePage(page) == tab.table # None /\ Commit(HandleChange(tab, page, tab.table))

(* A click on the column's title.                                          *)
ClickTitle ==
  /\ Unlocked /\ tab.table # None
  /\ LET sorter == IF Order(tab.table) THEN "cleared" ELSE "sorted" IN
     Commit([HandleChange(tab, tab.page, sorter) EXCEPT !.table = sorter])

CardPage(page) == tab.table = None /\ Commit([tab EXCEPT !.page = page])

(* handleViewModeChange: the table is mounted anew.                        *)
ChangeViewMode ==
  /\ Unlocked
  /\ Commit([tab EXCEPT !.table = IF @ = None THEN Mounted(tab.mark) ELSE None])

Remounted(t, mark) ==
  [t EXCEPT !.mark = mark, !.table = IF @ = None THEN None ELSE Mounted(mark)]

(* handleViewChange, of a view chosen or, by the reset button, of the      *)
(* selected one.                                                           *)
ChangeView(v) ==
  /\ Unlocked /\ viewed
  /\ LET t == Filtered(Remounted(tab, ViewSorted[v]), ViewFilters[v]) IN
     Commit([t EXCEPT !.view = v, !.sorting = ViewSorting(v),
                      !.pinned = SetPinnedFilters(ViewPinned[v])])

(* The reset button of a grid without views.  Whether the default filters  *)
(* were already selected, as the same object, is not followed: the panel   *)
(* may keep its edits then.                                                *)
ResetToDefault ==
  /\ Unlocked /\ ~ viewed
  /\ LET t == [Filtered(Remounted(tab, DefaultSorted), Default) EXCEPT !.sorting = DefaultSorting] IN
     \/ Commit(t)
     \/ tab.sel = Default /\ Commit([t EXCEPT !.interim = tab.interim])

(* The filters panel: an edit, Apply (in its header even in select mode),  *)
(* Cancel, Clear All and Default.                                          *)
EditInPanel(f, value) == f # Search /\ Commit([tab EXCEPT !.interim[f] = value])
ApplyPanel == (Unlocked \/ tab.interim # tab.sel) /\ Commit(Filtered(tab, tab.interim))
CancelPanel == Commit([tab EXCEPT !.interim = tab.sel])
ClearPanel == Unlocked /\ Commit(Filtered(tab, NoFilters))
DefaultPanel == Unlocked /\ Commit(Filtered(tab, Default))

(* A filter of the toolbar.                                                *)
EditPinned(f, value) ==
  /\ Unlocked /\ f \in tab.pinned \ {Search}
  /\ Commit(Filtered(tab, [tab.sel EXCEPT ![f] = value]))

(* A key in the search: the last text that is long enough is applied.      *)
Type(text) ==
  /\ Unlocked /\ Search \in tab.pinned /\ text # tab.typed
  /\ Commit([tab EXCEPT !.typed = text, !.echo = IF text \cap Short = {} THEN {text} ELSE @])

(* The debounced change of the search, 200 ms later: a filter like others. *)
Searched(t, text) == [Filtered(t, [t.sel EXCEPT ![Search] = text]) EXCEPT !.echo = {}]
ApplySearch == \E text \in tab.echo : Commit(Searched(tab, text))

(* A chip: removeFilterByValue, of options, or removeFilter.               *)
RemoveChip(f, w) ==
  /\ Unlocked /\ w \in tab.sel[f]
  /\ Commit(Filtered(tab, [tab.sel EXCEPT ![f] = IF f = Search THEN {} ELSE @ \ {w}]))

(* Select mode.                                                            *)
EnableSelectMode == Unlocked /\ Commit([tab EXCEPT !.mode = "enabled"])
\* Mutant: the rows stay selected.
DisableAlone == ~ Unlocked /\ Commit([tab EXCEPT !.mode = "disabled"])
DisableSelectMode == ~ Unlocked /\ Commit([tab EXCEPT !.mode = "disabled", !.rows = {}])
SelectRows(keys) == ~ Unlocked /\ Commit([tab EXCEPT !.rows = keys])

Next ==
  \/ Reload \/ Navigate
  \/ \E page \in 1 .. MaxPage : TablePage(page) \/ CardPage(page)
  \/ ClickTitle \/ ChangeViewMode
  \/ \E v \in Views : ChangeView(v)
  \/ ResetToDefault
  \/ \E f \in Filters, value \in SUBSET Options : EditInPanel(f, value) \/ EditPinned(f, value)
  \/ ApplyPanel \/ CancelPanel \/ ClearPanel \/ DefaultPanel
  \/ \E text \in Texts : Type(text)
  \/ ApplySearch
  \/ \E f \in Filters, w \in Words : RemoveChip(f, w)
  \/ EnableSelectMode \/ DisableSelectMode
  \/ \E keys \in SUBSET Rows : SelectRows(keys)

Spec == Init /\ [][Next]_vars

-----------------------------------------------------------------------------
(* A grid that was opened and left alone: the search, whose value a view   *)
(* may have changed, has applied it again (Search.component.tsx:28-36).    *)
AtRest(t) ==
  IF t.echo = {} THEN t ELSE Committed(t, Searched(t, CHOOSE text \in t.echo : TRUE))

(* Filters of which the address keeps something.                           *)
Kept(t) == t.sel # BaseFilters(t.view) /\ Read(t.sel) # NoFilters

(* A view that brings a search text of its own.                            *)
BringsSearch(v) ==
  v # None /\ ViewFilters[v][Search] # Default[Search] /\ ViewFilters[v][Search] \cap Short = {}

(* What the address restores once its timer has run, by a reload or for    *)
(* another user of the link, whatever events and effects led to it: the    *)
(* view, the filters, the sort and the page that were left, except that    *)
(* words are split at their commas, that the filters or the sort of the    *)
(* view (or the default ones) come back when they were all removed, and    *)
(* that a view with a search text of its own, its filters as they are,     *)
(* opens at page 1: its search is applied 200 ms later and pages back.     *)
AddressRestoresTheGrid ==
  ~ tab.dirty =>
    LET t == AtRest(Opened(url)) IN
    /\ t.view = tab.view
    /\ t.sel = IF Kept(tab) THEN Read(tab.sel) ELSE BaseFilters(tab.view)
    /\ Order(t.sorting) = (Order(tab.sorting) \/ Order(BaseSorting(tab.view)))
    /\ t.page = IF ~ Kept(tab) /\ BringsSearch(tab.view) THEN 1 ELSE tab.page

(* Whoever changes the filters, panel, toolbar, chip, view or search, the  *)
(* first page of the new rows is shown, not page n of the old ones.        *)
FirstPageOfNewFilters ==
  [][tab'.sel # tab.sel /\ ~ Reload => tab'.page = 1]_vars

(* The search, which the panel does not show, can always be reached and is *)
(* seen for what it is: no view takes it out of the toolbar while it goes  *)
(* on filtering, and once its timer has run the text that stands there is  *)
(* the one that filters, unless it is too short to be searched for.        *)
FiltersStayReachable ==
  /\ Search \in tab.pinned
  /\ tab.echo = {} /\ tab.typed \cap Short = {} => tab.typed = tab.sel[Search]
=============================================================================
