-------------------------- MODULE MCTaskScheduler --------------------------
(* Small instances of TaskScheduler for TLC.                               *)
EXTENDS TaskScheduler, TLC

CONSTANTS p1, p2, old, new, sync, purge, audit, north, south, hourly, daily

EveryTime(t, d, o) ==
  [kind |-> "every", valid |-> TRUE, type |-> t, name |-> t, data |-> d, options |-> o]
Once(t, d) ==
  [kind |-> "at", valid |-> TRUE, type |-> t, name |-> t, data |-> d, options |-> hourly]
Invalid(t) == [t EXCEPT !.valid = FALSE]

(* A release that syncs daily after one that did so hourly; with a delayed *)
(* task and one the queue does not allow.                                  *)
MixedUpgrade ==
  (old :> <<EveryTime(sync, north, hourly), Once(purge, south),
            EveryTime(purge, south, daily)>>)
    @@ (new :> <<EveryTime(audit, south, daily), Invalid(EveryTime(purge, north, daily)),
                 EveryTime(sync, north, daily), EveryTime(purge, south, daily)>>)

SyncAndPurge == {<<"in", sync>>, <<"in", purge>>, <<"out", audit>>}
NamesOfTypes == {<<t, t>> : t \in Types}
=============================================================================
