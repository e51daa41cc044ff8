--------------------- MODULE MCTrackedJobEventProcessor ---------------------
(* Small instances of TrackedJobEventProcessor for TLC.                    *)
EXTENDS TrackedJobEventProcessor, TLC

CONSTANTS j1, t0, t1, w1, w2, e1, e2, e3

(* One job of a tenant of its own, or of the default one.                  *)
OneTenant == j1 :> t1
DefaultOnly == j1 :> t0

Content(types, of, states) ==
  {[type |-> y, job |-> j, state |-> s] : y \in types, j \in of, s \in states}

Compact(types, of) == Content(types, of, {Undefined})

Active == Content({"workerJobActive"}, {j1}, {"active"})
Completed == Content({"workerJobCompleted"}, {j1}, {"completed"})
Delayed == Compact({"queueJobDelayed"}, {j1})
Stalled == Compact({"workerJobStalled"}, {j1})

(* BullMQ's "prioritized" is a state the schema does not know.             *)
Prioritized == Content({"workerJobFailed"}, {j1}, {"prioritized"})

ActiveAndCompleted == Active \cup Completed
RefusedLifecycle == Active \cup Delayed \cup Prioritized
StalledLifecycle == Active \cup Stalled \cup Prioritized \cup Delayed

=============================================================================
