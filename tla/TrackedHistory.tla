--------------------------- MODULE TrackedHistory ---------------------------
(***************************************************************************)
(* What the tracking of jobs promises, without workers, attempts, locks or *)
(* database statements: a history per job that its creation opens and that *)
(* every event enters at most once, filed under the tenant of the job, and *)
(* an outcome per event that is final.                                     *)
(*                                                                         *)
(* TrackedJobEventProcessor implements this (History there).               *)
(***************************************************************************)
EXTENDS Naturals

CONSTANTS
  Job, Event,    \* tracked jobs, and the events that happen to them
  Opening,       \* stands for the entry a history opens with
  OwnerOf,       \* the tenant of each job
  Instant        \* the times an entry can carry

VARIABLES
  announced,     \* the events that exist: [job, tracks, outcome] of each
  history        \* set of entries [owner, job, event, at]

historyVars == <<announced, history>>

Entries(j) == {h \in history : h.job = j}
TrackedJobs == {h.job : h \in history}
Entered(e) == \E h \in Entries(announced[e].job) : h.event = e

HistoryInit == announced = [e \in {} |-> {}] /\ history = {}

(* An event that `tracks' its job is one that may not be lost.             *)
Announce(e, j, tracks) ==
  /\ e \in Event \ DOMAIN announced
  /\ announced' = [f \in DOMAIN announced \cup {e} |->
       IF f = e THEN [job |-> j, tracks |-> tracks, outcome |-> "open"]
                ELSE announced[f]]
  /\ UNCHANGED history

Open(j, at) ==
  /\ j \notin TrackedJobs
  /\ history' = history \cup
       {[owner |-> OwnerOf[j], job |-> j, event |-> Opening, at |-> at]}
  /\ UNCHANGED announced

(* Nothing is entered twice, before the opening, or for another job.       *)
Enter(e, at) ==
  LET j == announced[e].job IN
  /\ e \in DOMAIN announced /\ ~ Entered(e)
  /\ \E o \in Entries(j) : o.event = Opening /\ o.at <= at
  /\ history' = history \cup
       {[owner |-> OwnerOf[j], job |-> j, event |-> e, at |-> at]}
  /\ UNCHANGED announced

(* An open event is acknowledged or abandoned, for good.  One that tracks   *)
(* its job is acknowledged only when it has been entered.                  *)
Settle(e, outcome) ==
  /\ e \in DOMAIN announced /\ announced[e].outcome = "open"
  /\ outcome = "acknowledged" /\ announced[e].tracks => Entered(e)
  /\ announced' = [announced EXCEPT ![e].outcome = outcome]
  /\ UNCHANGED history

HistoryNext ==
  \/ \E e \in Event, j \in Job, tracks \in BOOLEAN : Announce(e, j, tracks)
  \/ \E j \in Job, at \in Instant : Open(j, at)
  \/ \E e \in Event, at \in Instant : Enter(e, at)
  \/ \E e \in Event, outcome \in {"acknowledged", "abandoned"} : Settle(e, outcome)

HistorySpec == HistoryInit /\ [][HistoryNext]_historyVars
=============================================================================
