--------------------------- MODULE FilterOptions ---------------------------
(***************************************************************************)
(* Filters of a data grid from their builders (filter-builders/) to the    *)
(* chips of what is selected (DataGridFiltersChips): the builders' calls,  *)
(* the filters store, the items that fetch a filter's options when they    *)
(* are mounted, in the panel and in the toolbar (DataGridFilterItem), the  *)
(* grid's mounting and unmounting, and the removal of chips.               *)
(*                                                                         *)
(* A value is a set of words, {} when there is none; an option is the word *)
(* it is the label of.  Fetches outlive their items and the grid, and one  *)
(* of a filter is like another: they are counted.                          *)
(***************************************************************************)
EXTENDS Naturals, FiniteSets

CONSTANTS
  FilterKeys,   \* the keys of the filters
  Words,
  Served,       \* the options each filter's fetchOptions answers with
  MaxCalls,     \* BOUND: calls on the builder of each filter
  MaxFetches    \* BOUND: fetches of a filter under way

VARIABLES
  builders,     \* filterBuilders
  mounted,      \* the grid is
  store,        \* filters of the store, those initialized
  chosen,       \* selectedFilters
  found,        \* searchedFilters of the panel
  pinned,       \* pinnedFilters
  fetches,      \* of each filter, the fetches under way
  failures      \* the error store

filterVars == <<builders, mounted, store, chosen, found, pinned, fetches, failures>>

FilterValues == SUBSET Words
NothingChosen == [k \in FilterKeys |-> {}]

-----------------------------------------------------------------------------
(* The builders.                                                           *)

BaseFilter ==
  [panel |-> TRUE, toolbar |-> FALSE, options |-> {}, fetches |-> FALSE, infinite |-> FALSE,
   default |-> {}, empties |-> {}, chips |-> "base", calls |-> 0]

UseOptionsFilterChips(b) == [b EXCEPT !.chips = "options"]
UseOptions(b, options) == UseOptionsFilterChips([b EXCEPT !.options = options])
UseFetchOptions(b) == UseOptionsFilterChips([b EXCEPT !.fetches = TRUE])
UseInfinityFetchOptions(b) == UseOptionsFilterChips([b EXCEPT !.infinite = TRUE])
UseFilterChipsDataLabel(b) == [b EXCEPT !.chips = "custom"]
UseShow(b, panel, toolbar) == [b EXCEPT !.panel = panel, !.toolbar = toolbar]
UseDefaultValue(b, value) == [b EXCEPT !.default = value]
UseIsFilterEmpty(b, value) == [b EXCEPT !.empties = {value}]

Call(k) ==
  /\ ~ mounted
  /\ fetches[k] = 0
  /\ builders[k].calls < MaxCalls[k]
  /\ \E b \in {UseOptions(builders[k], Words), UseFetchOptions(builders[k]),
               UseInfinityFetchOptions(builders[k]), UseFilterChipsDataLabel(builders[k]),
               UseShow(builders[k], TRUE, TRUE), UseShow(builders[k], FALSE, TRUE),
               UseShow(builders[k], FALSE, FALSE)}
            \cup {UseDefaultValue(builders[k], v) : v \in FilterValues \ {{}}}
            \cup {UseIsFilterEmpty(builders[k], {w}) : w \in Words} :
       builders' = [builders EXCEPT ![k] = [b EXCEPT !.calls = @ + 1]]
  /\ UNCHANGED <<mounted, store, chosen, found, pinned, fetches, failures>>

IsFilterEmpty(k, value) == value = {} \/ value \in builders[k].empties
Valid(selected) == [k \in FilterKeys |-> IF IsFilterEmpty(k, selected[k]) THEN {} ELSE selected[k]]

-----------------------------------------------------------------------------
(* The items.  A mounted item that has something to fetch says that its    *)
(* filter is loading, whoever else is fetching for it.                     *)

Item(place, k) == <<place, k>>
Items(f, p) == {Item("panel", k) : k \in {q \in f : builders[q].panel}}
                 \cup {Item("toolbar", k) : k \in p}
Fetching(items, k) == IF builders[k].fetches THEN Cardinality({i \in items : i[2] = k}) ELSE 0

\* Mutant: the filter is not marked.
StartedQuietly(filters, items) == filters
Started(filters, items) ==
  [k \in DOMAIN filters |->
     [filters[k] EXCEPT !.loading = @ \/ Fetching(items, k) > 0]]

(* The items of f and p after those there were.                            *)
Show(f, p) ==
  LET new == Items(f, p) \ Items(found, pinned) IN
  /\ \A k \in FilterKeys : fetches[k] + Fetching(new, k) <= MaxFetches
  /\ found' = f
  /\ pinned' = p
  /\ fetches' = [k \in FilterKeys |-> fetches[k] + Fetching(new, k)]
  /\ store' = Started(store, new)

BuildFilter(b) == [options |-> b.options, selectedOptions |-> {}, loading |-> FALSE]

(* The grid is opened with the filters of its address, or the defaults.    *)
Mount(query) ==
  LET p == {k \in FilterKeys : builders[k].toolbar} IN
  /\ ~ mounted
  /\ \A k \in FilterKeys : fetches[k] + Fetching(Items(FilterKeys, p), k) <= MaxFetches
  /\ mounted' = TRUE
  /\ chosen' = IF query = NothingChosen THEN [k \in FilterKeys |-> builders[k].default] ELSE query
  /\ found' = FilterKeys
  /\ pinned' = p
  /\ fetches' = [k \in FilterKeys |-> fetches[k] + Fetching(Items(FilterKeys, p), k)]
  /\ store' = Started([k \in FilterKeys |-> BuildFilter(builders[k])], Items(FilterKeys, p))
  /\ UNCHANGED <<builders, failures>>

(* resetFiltersStore: what is under way has nothing left to update.        *)
Unmount ==
  /\ mounted
  /\ mounted' = FALSE
  /\ store' = <<>>
  /\ chosen' = NothingChosen
  /\ found' = {}
  /\ pinned' = {}
  /\ UNCHANGED <<builders, fetches, failures>>

SearchPanel(f) ==
  /\ mounted
  /\ Show(f, pinned)
  /\ UNCHANGED <<builders, mounted, chosen, failures>>

(* A view pins its own, and those that the panel does not show stay.       *)
PinByView(p) ==
  /\ mounted
  /\ Show(found, p \cup {k \in FilterKeys : builders[k].toolbar /\ ~ builders[k].panel})
  /\ UNCHANGED <<builders, mounted, chosen, failures>>

(* updateFilterItem is a map over the filters there are.                   *)
UpdateFilterItem(filters, k, item) ==
  [q \in DOMAIN filters |-> IF q = k THEN item ELSE filters[q]]

(* loadInitialOptions after its await: the options, then the end.          *)
\* Mutant: the filter stays loading while the options are empty.
EndedIfAny(item) == [item EXCEPT !.loading = item.options = {}]
Ended(item) == [item EXCEPT !.loading = FALSE]
FetchAnswers(k) ==
  /\ fetches[k] > 0
  /\ fetches' = [fetches EXCEPT ![k] = @ - 1]
  /\ store' = IF mounted
              THEN UpdateFilterItem(store, k, Ended([store[k] EXCEPT !.options = Served[k]]))
              ELSE store
  /\ UNCHANGED <<builders, mounted, chosen, found, pinned, failures>>
FetchFails(k) ==
  /\ fetches[k] > 0
  /\ fetches' = [fetches EXCEPT ![k] = @ - 1]
  /\ failures' = failures \cup {k}
  /\ store' = IF mounted THEN UpdateFilterItem(store, k, Ended(store[k])) ELSE store
  /\ UNCHANGED <<builders, mounted, chosen, found, pinned>>

-----------------------------------------------------------------------------
(* What is selected, and its chips.                                        *)

(* An item's change, applied at once or, in the panel, with the button.    *)
Change(k, value) ==
  /\ mounted
  /\ \E place \in {"panel", "toolbar"} : Item(place, k) \in Items(found, pinned)
  /\ value # chosen[k]
  /\ chosen' = Valid([chosen EXCEPT ![k] = value])
  /\ UNCHANGED <<builders, mounted, store, found, pinned, fetches, failures>>

(* An infinite list reports the options of what is picked from it.         *)
Pick(k, w) ==
  /\ mounted
  /\ builders[k].infinite
  /\ \E place \in {"panel", "toolbar"} : Item(place, k) \in Items(found, pinned)
  /\ w \notin chosen[k]
  /\ store' = UpdateFilterItem(store, k, [store[k] EXCEPT !.selectedOptions = @ \cup {w}])
  /\ chosen' = Valid([chosen EXCEPT ![k] = @ \cup {w}])
  /\ UNCHANGED <<builders, mounted, found, pinned, fetches, failures>>

FiltersFetched == \A k \in DOMAIN store : ~ store[k].loading

Chip(k, value, label, removes) == [key |-> k, value |-> value, label |-> label, removes |-> removes]
OptionsOf(k) == store[k].options \cup store[k].selectedOptions
ToFilterChips(k, value) ==
  CASE builders[k].chips = "base"   -> {Chip(k, value, "value", "filter")}
    [] builders[k].chips = "custom" -> {Chip(k, value, "custom", "filter")}
    [] OTHER -> {Chip(k, {w}, IF w \in OptionsOf(k) THEN "option" ELSE "value", "value") : w \in value}

(* Nothing is shown until no filter is loading.                            *)
ChipsOf(selected) ==
  IF mounted /\ FiltersFetched
  THEN UNION {ToFilterChips(k, selected[k]) : k \in {q \in FilterKeys : selected[q] # {}}} ELSE {}
Chips == ChipsOf(chosen)

(* removeFilterByValue, removeFilter.                                      *)
Removed(c, selected) ==
  [selected EXCEPT ![c.key] = IF c.removes = "filter" THEN {} ELSE @ \ c.value]

RemoveChip(c) ==
  /\ c \in Chips
  /\ chosen' = Removed(c, chosen)
  /\ UNCHANGED <<builders, mounted, store, found, pinned, fetches, failures>>

FiltersInit ==
  /\ builders = [k \in FilterKeys |-> BaseFilter]
  /\ mounted = FALSE
  /\ store = <<>>
  /\ chosen = NothingChosen
  /\ found = {}
  /\ pinned = {}
  /\ fetches = [k \in FilterKeys |-> 0]
  /\ failures = {}

FiltersNext ==
  \/ \E k \in FilterKeys : Call(k) \/ FetchAnswers(k) \/ FetchFails(k)
  \/ \E query \in [FilterKeys -> FilterValues] : Mount(query)
  \/ Unmount
  \/ \E f \in SUBSET FilterKeys : SearchPanel(f) \/ PinByView(f)
  \/ \E k \in FilterKeys, value \in FilterValues : Change(k, value)
  \/ \E k \in FilterKeys, w \in Words : Pick(k, w)
  \/ \E c \in Chips : RemoveChip(c)

-----------------------------------------------------------------------------
(* A filter is loading only while a fetch of it is under way: whichever of *)
(* its items were unmounted, and however their fetches ended, the chips    *)
(* that wait for it come back.                                             *)
LoadingMeansPending ==
  \A k \in DOMAIN store : store[k].loading => fetches[k] > 0

(* The chips wait for the labels: none shows a bare value that its         *)
(* filter's fetch can name, unless such a fetch has failed.                *)
ChipsAreNamed ==
  \A c \in Chips :
    /\ builders[c.key].chips = "options" /\ builders[c.key].fetches
    /\ c.key \notin failures
    /\ builders[c.key].panel \/ builders[c.key].toolbar
    => (c.value \subseteq Served[c.key] => c.label = "option")

=============================================================================
