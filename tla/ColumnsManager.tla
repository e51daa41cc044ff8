--------------------------- MODULE ColumnsManager ---------------------------
(***************************************************************************)
(* The columns manager of the data grid: a draft of which columns are      *)
(* shown, in which order and pinned to which side, which is saved to the   *)
(* grid or dropped (ColumnsManagerModal, useColumnsManager,                *)
(* useColumnsManagerSort, GroupedColumns, SelectedColumns, useDndSort).    *)
(* A handler and the effects of the commit it causes are one step.         *)
(***************************************************************************)
EXTENDS Naturals, Sequences, FiniteSets, SequencesExt, Filtering

CONSTANTS
  DefaultColumns, \* the columns as the builders give them
  ViewColumns,    \* as the views give them
  GroupOf,        \* the group of each column, by its key
  Searches        \* for each text of the search, the columns whose label has it

(* A column: its key, whether it is hidden and the side it is fixed to.    *)
Sides == {"left", "right", "none"}
Keys(columns) == {columns[i].key : i \in DOMAIN columns}
ASSUME ColumnsAssumption ==
  \A columns \in {DefaultColumns} \cup ViewColumns :
    /\ columns \in Seq([key : DOMAIN GroupOf, hidden : BOOLEAN, fixed : Sides])
    /\ Keys(columns) = DOMAIN GroupOf /\ Len(columns) = Cardinality(DOMAIN GroupOf)
    /\ \A side \in {"left", "right"} :
         Cardinality({i \in DOMAIN columns : columns[i].fixed = side}) <= 2

VARIABLES
  columns,  \* the grid's columns
  draft,    \* visibleColumnOptions: the columns selected, <<key, side>>
  search,   \* the columns the search leaves
  showModal

columnsVars == <<columns, draft, search, showModal>>

(* transformColumnsToOptions, getVisibleColumnOptions                      *)
VisibleOptions(list) ==
  LET visible == Picked(list, {i \in DOMAIN list : ~ list[i].hidden})
  IN  [i \in DOMAIN visible |-> <<visible[i].key, visible[i].fixed>>]

ColumnsInit ==
  /\ columns = DefaultColumns
  /\ draft = VisibleOptions(DefaultColumns)
  /\ search = DOMAIN GroupOf
  /\ showModal = FALSE

-----------------------------------------------------------------------------
Values(options) == {options[i][1] : i \in DOMAIN options}
PinnedTo(options, side) == Picked(options, {i \in DOMAIN options : options[i][2] = side})
(* sortPinnedColumns, orderPinnedColumns                                   *)
OrderPinned(options) ==
  PinnedTo(options, "left") \o PinnedTo(options, "none") \o PinnedTo(options, "right")

OpenModal ==
  /\ ~ showModal /\ showModal' = TRUE
  /\ UNCHANGED <<columns, draft, search>>

SearchFor(text) ==
  /\ showModal /\ search' = Searches[text]
  /\ UNCHANGED <<columns, draft, showModal>>

(* GroupedColumns: what the search leaves comes in the default order, with *)
(* the pin it had; what is selected and the search hides, behind it.       *)
Selected(key, checked, group) ==
  /\ key \in search
  /\ key \in IF GroupOf[key] = group THEN checked ELSE Values(draft)
Pin(key) ==
  IF key \in Values(draft) THEN (CHOOSE o \in ToSet(draft) : o[1] = key)[2] ELSE "none"
\* Mutant: what the search hides is taken to be unselected.
OnlyFound(checked, group) ==
  LET found == Picked(DefaultColumns, {i \in DOMAIN DefaultColumns :
                                         Selected(DefaultColumns[i].key, checked, group)})
  IN  [i \in DOMAIN found |-> <<found[i].key, Pin(found[i].key)>>]
NewlySelected(checked, group) ==
  LET found == Picked(DefaultColumns, {i \in DOMAIN DefaultColumns :
                                         Selected(DefaultColumns[i].key, checked, group)})
  IN  [i \in DOMAIN found |-> <<found[i].key, Pin(found[i].key)>>]
        \o Picked(draft, {i \in DOMAIN draft : draft[i][1] \notin search})

(* A checkbox group tells which of its boxes are checked, of those shown.  *)
Toggle(key) ==
  /\ showModal /\ key \in search
  /\ LET group == GroupOf[key]
         boxes == {k \in search : GroupOf[k] = group}
         before == boxes \cap Values(draft)
         checked == IF key \in before THEN before \ {key} ELSE before \cup {key}
     IN  draft' = OrderPinned(NewlySelected(checked, group))
  /\ UNCHANGED <<columns, search, showModal>>

(* PinButton: a side takes two; what is pinned may be unpinned.            *)
CanPin(option, side) ==
  /\ option[2] # side
  /\ side = "none" \/ Len(PinnedTo(draft, side)) < 2
OnPinnedChange(i, side) ==
  /\ showModal /\ CanPin(draft[i], side)
  /\ LET ordered == OrderPinned(draft)
         at == CHOOSE j \in DOMAIN ordered : ordered[j] = draft[i]
     IN  draft' = OrderPinned([ordered EXCEPT ![at] = <<draft[i][1], side>>])
  /\ UNCHANGED <<columns, search, showModal>>

(* onItemRemove and onSortEnd, in the list of one side: the three lists    *)
(* are put together again.                                                 *)
With(side, list) ==
  IF side = "left" THEN list \o PinnedTo(draft, "none") \o PinnedTo(draft, "right")
  ELSE IF side = "none" THEN PinnedTo(draft, "left") \o list \o PinnedTo(draft, "right")
  ELSE PinnedTo(draft, "left") \o PinnedTo(draft, "none") \o list

OnItemRemove(side, i) ==
  /\ showModal /\ i \in DOMAIN PinnedTo(draft, side)
  /\ draft' = With(side, RemoveAt(PinnedTo(draft, side), i))
  /\ UNCHANGED <<columns, search, showModal>>

Drag(side, from, to) ==
  LET list == PinnedTo(draft, side) IN
  /\ showModal /\ from # to /\ {from, to} \subseteq DOMAIN list
  /\ draft' = With(side, InsertAt(RemoveAt(list, from), to, list[from]))
  /\ UNCHANGED <<columns, search, showModal>>

(* getManagedColumns: the hidden columns come first, and unpinned.         *)
\* Mutant: the columns that are hidden are left out.
OnlyVisible ==
  [i \in DOMAIN draft |-> [key |-> draft[i][1], hidden |-> FALSE, fixed |-> draft[i][2]]]
ManagedColumns ==
  LET hidden == Picked(columns, {i \in DOMAIN columns : columns[i].key \notin Values(draft)})
  IN  [i \in DOMAIN hidden |-> [key |-> hidden[i].key, hidden |-> TRUE, fixed |-> "none"]]
        \o [i \in DOMAIN draft |-> [key |-> draft[i][1], hidden |-> FALSE, fixed |-> draft[i][2]]]

(* setColumns, and the effect that drafts the new columns.                 *)
SetColumns(list) == columns' = list /\ draft' = VisibleOptions(list)
CloseModal == showModal' = FALSE /\ search' = DOMAIN GroupOf

SaveChanges ==
  /\ showModal /\ SetColumns(ManagedColumns) /\ CloseModal
ResetToDefault ==
  /\ showModal /\ SetColumns(DefaultColumns) /\ CloseModal
CancelChanges ==
  /\ showModal /\ CloseModal
  /\ draft' = VisibleOptions(columns)
  /\ UNCHANGED columns

(* A view, or the grid's reset, brings columns of its own.                 *)
ChooseView(list) ==
  /\ ~ showModal /\ SetColumns(list)
  /\ UNCHANGED <<search, showModal>>

ColumnsNext ==
  \/ OpenModal \/ SaveChanges \/ ResetToDefault \/ CancelChanges
  \/ \E text \in DOMAIN Searches : SearchFor(text)
  \/ \E key \in DOMAIN GroupOf : Toggle(key)
  \/ \E i \in DOMAIN draft, side \in Sides : OnPinnedChange(i, side)
  \/ \E side \in Sides, i \in DOMAIN draft : OnItemRemove(side, i) \/ \E j \in DOMAIN draft : Drag(side, i, j)
  \/ \E list \in ViewColumns \cup {DefaultColumns} : ChooseView(list)

-----------------------------------------------------------------------------
(* However columns are searched, ticked, pinned, dragged, saved and reset: *)
(* the grid keeps every column, once, no more than two of them are pinned  *)
(* to a side, and nothing is drafted twice.                                *)
ColumnsAreKept ==
  /\ Keys(columns) = DOMAIN GroupOf /\ Len(columns) = Cardinality(DOMAIN GroupOf)
  /\ Values(draft) \subseteq DOMAIN GroupOf /\ Len(draft) = Cardinality(Values(draft))
  /\ \A side \in {"left", "right"} :
       /\ Len(PinnedTo(draft, side)) <= 2
       /\ Cardinality({i \in DOMAIN columns : columns[i].fixed = side}) <= 2

(* While the manager is open, one click, drag or search adds or removes    *)
(* one column at most, also of those that the search hides, and pins or    *)
(* unpins none that it does not add, remove or name; the grid waits.       *)
OneColumnAtATime ==
  [][showModal /\ showModal' =>
       /\ columns' = columns
       /\ LET kept == Values(draft) \cap Values(draft')
              pins(o) == {p \in ToSet(o) : p[1] \in kept}
          IN  Cardinality(Values(draft) \ kept) + Cardinality(Values(draft') \ kept)
                + Cardinality(pins(draft) \ pins(draft')) <= 1]_columnsVars
=============================================================================
