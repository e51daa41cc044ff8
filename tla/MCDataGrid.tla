----------------------------- MODULE MCDataGrid -----------------------------
(* A small instance of DataGrid for TLC.                                   *)
EXTENDS DataGrid, TLC

CONSTANTS search, status, v1, v2, a, b, ab

(* ab stands for a text with a comma.                                      *)
WordsRead == (a :> {a}) @@ (b :> {b}) @@ (ab :> {a, b})

Selecting(inStatus, inSearch) == (status :> inStatus) @@ (search :> inSearch)

DefaultFilters == Selecting({a}, {})
FiltersOfViews == (v1 :> Selecting({}, {a})) @@ (v2 :> Selecting({a}, {}))
SortedViews == (v1 :> TRUE) @@ (v2 :> FALSE)
PinnedInViews == (v1 :> {}) @@ (v2 :> {status})

(* Any other address is opened by a reload of what the grid has written.   *)
Opening == {[filters |-> NoFilters, sort |-> FALSE, page |-> 0, view |-> None]}
=============================================================================
