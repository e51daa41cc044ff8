--------------------------- MODULE TaskScheduler ---------------------------
(***************************************************************************)
(* The schedules of a task gateway: TaskScheduler.ts runs through the      *)
(* tasks of an application when it starts, TaskGateway.ts puts each on the *)
(* queue as a delayed or as a repeatable job, through MessageQueue.ts.     *)
(*                                                                         *)
(* Several processes of the application share the queue, may start at      *)
(* once, with different releases, and may die half way.  Every call to     *)
(* Redis is an action.  A process sends its removals before its add, and   *)
(* Redis executes one connection's commands in the order they were sent.   *)
(***************************************************************************)
EXTENDS Naturals, Sequences

CONSTANTS
  Processes,
  Releases,     \* what can be deployed
  Tasks,        \* scheduledTasks of each release: a sequence of tasks
  Types,        \* message types
  Names,        \* opts.name ?? task.type
  Data,         \* md5(stableStringify(task.data)), the "jobId"
  Options,      \* the repeat options; the second half of a job's name
  Includes,     \* <<n, t>> : the job names made from n contain t
  Bindings,     \* the queue definition's bindings, as <<dir, type>>
  IdListed,     \* does getRepeatableJobs still tell the job's id?
  MaxStarts,    \* BOUND: how often processes start
  MaxFaults     \* BOUND: how many calls fail and processes die

Task ==
  [kind : {"at", "every"}, valid : BOOLEAN, type : Types, name : Names,
   data : Data, options : Options]

ASSUME SchedulerAssumption ==
  /\ Tasks \in [Releases -> Seq(Task)]
  /\ Types \subseteq Names /\ Includes \subseteq Names \X Types
  /\ \A t \in Types : <<t, t>> \in Includes
  /\ Bindings \subseteq {"in", "out"} \X Types
  /\ IdListed \in BOOLEAN
  /\ MaxStarts \in Nat /\ MaxFaults \in Nat

VARIABLES
  repeatables,  \* the queue's repeatable job definitions
  delayed,      \* how many delayed jobs there are of each task's data
  proc,         \* the processes
  starts,       \* starts so far
  faults,       \* faults so far
  astray        \* history: did two processes ever run at once, or a removal fail?

vars == <<repeatables, delayed, proc, starts, faults, astray>>

(* A repeatable is known by a key made of its job's name, id and options.  *)
Repeatable == [name : Names, options : Options, data : Data]

(* next: index of the next task.  found: the definitions whose removal was *)
(* started and is not done.  scheduled: the tasks whose add has returned.  *)
Process ==
  [pc : {"down", "next", "list", "add", "done"}, release : Releases,
   next : Nat \ {0}, found : SUBSET Repeatable, scheduled : SUBSET Nat]

TypeOK ==
  /\ repeatables \subseteq Repeatable
  /\ delayed \in [Data -> Nat]
  /\ proc \in [Processes -> Process]
  /\ starts \in 0 .. MaxStarts
  /\ faults \in 0 .. MaxFaults
  /\ astray \in BOOLEAN

Init ==
  /\ repeatables = {}
  /\ delayed = [d \in Data |-> 0]
  /\ proc \in [Processes ->
       {[pc |-> "down", release |-> r, next |-> 1, found |-> {}, scheduled |-> {}]
          : r \in Releases}]
  /\ starts = 0
  /\ faults = 0
  /\ astray = FALSE

-----------------------------------------------------------------------------
TaskOf(p) == Tasks[proc[p].release][proc[p].next]
Definition(t) == [name |-> t.name, options |-> t.options, data |-> t.data]

(* AbstractMessageQueue.isAllowed *)
IsAllowed(type) ==
  LET inbound == {b \in Bindings : b[1] = "in"}
  IN  inbound = {} \/ \E b \in inbound : b[2] = type

(* removeExistingRepeatableJobs' test: by the id where it is known, by the *)
(* whole name, or by the type that the name contains.                      *)
\* Mutant: every definition of the queue is an earlier one.
MatchesAll(r, t) == r \in repeatables
\* Mutant: a changed frequency hides the earlier definition.
MatchesByName(r, t) ==
  \/ IdListed /\ r.data = t.data
  \/ r.name = t.name /\ r.options = t.options
Matches(r, t) ==
  \/ IdListed /\ r.data = t.data
  \/ r.name = t.name /\ r.options = t.options
  \/ <<r.name, t.type>> \in Includes

Fault ==
  /\ faults < MaxFaults
  /\ faults' = faults + 1

RunsBeside(p) == \E q \in Processes \ {p} : proc[q].pc \notin {"down", "done"}

(* The application starts and its scheduler's schedule() runs.             *)
\* Mutant: the first task has index 0.
StartAtZero(p, r) ==
  /\ proc[p].pc \in {"down", "done"}
  /\ starts < MaxStarts
  /\ starts' = starts + 1
  /\ proc' = [proc EXCEPT ![p] =
       [pc |-> "next", release |-> r, next |-> 0, found |-> {}, scheduled |-> {}]]
  /\ astray' = (astray \/ RunsBeside(p))
  /\ UNCHANGED <<repeatables, delayed, faults>>
Start(p, r) ==
  /\ proc[p].pc \in {"down", "done"}
  /\ starts < MaxStarts
  /\ starts' = starts + 1
  /\ proc' = [proc EXCEPT ![p] =
       [pc |-> "next", release |-> r, next |-> 1, found |-> {}, scheduled |-> {}]]
  /\ astray' = (astray \/ RunsBeside(p))
  /\ UNCHANGED <<repeatables, delayed, faults>>

Die(p) ==
  /\ proc[p].pc # "down"
  /\ Fault
  /\ proc' = [proc EXCEPT ![p] = [@ EXCEPT !.pc = "down", !.found = {}]]
  /\ UNCHANGED <<repeatables, delayed, starts, astray>>

(* schedule() goes on with the next task, whether this one was scheduled   *)
(* or its error was caught.                                                *)
\* Mutant: the loop does not get past a task that fails.
RetriesTask(p, ok) ==
  IF ok THEN [proc[p] EXCEPT !.pc = "next", !.next = @ + 1, !.scheduled = @ \cup {proc[p].next}]
        ELSE [proc[p] EXCEPT !.pc = "next"]
NextTask(p, ok) ==
  [proc[p] EXCEPT !.pc = "next", !.next = @ + 1,
     !.scheduled = IF ok THEN @ \cup {proc[p].next} ELSE @]

Finish(p) ==
  /\ proc[p].pc = "next"
  /\ proc[p].next > Len(Tasks[proc[p].release])
  /\ proc' = [proc EXCEPT ![p].pc = "done"]
  /\ UNCHANGED <<repeatables, delayed, starts, faults, astray>>

(* scheduleAt and scheduleEvery check their options first.                 *)
Check(p) ==
  /\ proc[p].pc = "next"
  /\ proc[p].next <= Len(Tasks[proc[p].release])
  /\ LET t == TaskOf(p) IN
       proc' = [proc EXCEPT ![p] =
         IF ~ t.valid THEN NextTask(p, FALSE)
         ELSE [@ EXCEPT !.pc = IF t.kind = "at" THEN "add" ELSE "list"]]
  /\ UNCHANGED <<repeatables, delayed, starts, faults, astray>>

(* removeExistingRepeatableJobs: getRepeatableJobs is awaited, the         *)
(* removals it leads to are not.                                           *)
List(p) ==
  /\ proc[p].pc = "list"
  /\ proc' = [proc EXCEPT ![p] =
       [@ EXCEPT !.pc = "add", !.found = {r \in repeatables : Matches(r, TaskOf(p))}]]
  /\ UNCHANGED <<repeatables, delayed, starts, faults, astray>>

Remove(p, r) ==
  /\ r \in proc[p].found
  /\ repeatables' = repeatables \ {r}
  /\ proc' = [proc EXCEPT ![p].found = @ \ {r}]
  /\ UNCHANGED <<delayed, starts, faults, astray>>

(* A failed removal rejects a promise nobody holds.                        *)
RemoveFails(p, r) ==
  /\ r \in proc[p].found
  /\ Fault
  /\ proc' = [proc EXCEPT ![p].found = @ \ {r}]
  /\ astray' = TRUE
  /\ UNCHANGED <<repeatables, delayed, starts>>

(* AbstractMessageQueue.add: a repeatable definition has the task's id and *)
(* is stored once; a delayed job gets an id of its own.                    *)
Store(t) ==
  /\ IsAllowed(t.type)
  /\ IF t.kind = "every"
     THEN repeatables' = repeatables \cup {Definition(t)} /\ UNCHANGED delayed
     ELSE delayed' = [delayed EXCEPT ![t.data] = @ + 1] /\ UNCHANGED repeatables

AtAdd(p) == proc[p].pc = "add" /\ proc[p].found = {}

Add(p) ==
  /\ AtAdd(p)
  /\ Store(TaskOf(p))
  /\ proc' = [proc EXCEPT ![p] = NextTask(p, TRUE)]
  /\ UNCHANGED <<starts, faults, astray>>

(* The add was executed and its reply is lost.                             *)
AddUnanswered(p) ==
  /\ AtAdd(p)
  /\ Store(TaskOf(p))
  /\ Fault
  /\ proc' = [proc EXCEPT ![p] = NextTask(p, FALSE)]
  /\ UNCHANGED <<starts, astray>>

(* The queue does not allow the type: add throws, after the removals.      *)
AddRefused(p) ==
  /\ AtAdd(p)
  /\ ~ IsAllowed(TaskOf(p).type)
  /\ proc' = [proc EXCEPT ![p] = NextTask(p, FALSE)]
  /\ UNCHANGED <<repeatables, delayed, starts, faults, astray>>

(* The list or the add fails before Redis executes it.                     *)
CallFails(p) ==
  /\ proc[p].pc = "list" \/ AtAdd(p)
  /\ Fault
  /\ proc' = [proc EXCEPT ![p] = NextTask(p, FALSE)]
  /\ UNCHANGED <<repeatables, delayed, starts, astray>>

(* A delayed job's time has come.                                          *)
RunDelayed(d) ==
  /\ delayed[d] > 0
  /\ delayed' = [delayed EXCEPT ![d] = @ - 1]
  /\ UNCHANGED <<repeatables, proc, starts, faults, astray>>

Work(p) ==
  \/ Check(p) \/ List(p) \/ Add(p) \/ AddRefused(p) \/ Finish(p)
  \/ \E r \in repeatables \cup proc[p].found : Remove(p, r)

Trouble(p) ==
  \/ Die(p) \/ CallFails(p) \/ AddUnanswered(p)
  \/ \E r \in proc[p].found : RemoveFails(p, r)

Next ==
  \/ \E p \in Processes : Work(p) \/ Trouble(p) \/ (\E r \in Releases : Start(p, r))
  \/ \E d \in Data : RunDelayed(d)

Spec == Init /\ [][Next]_vars

(* Node goes on with what it has awaited; calls are answered or fail.      *)
FairSpec == Spec /\ \A p \in Processes : WF_vars(Work(p))

-----------------------------------------------------------------------------
Done(p) == proc[p].pc = "done"
Scheduled(p) == {Tasks[proc[p].release][i] : i \in proc[p].scheduled}
Every(p) == {t \in Scheduled(p) : t.kind = "every"}
DefinitionsOf(t) == {r \in repeatables : r.name = t.name /\ r.data = t.data}

(* However the processes were started, stopped and upgraded: once all are  *)
(* done, a recurring task that each of them says it has scheduled recurs   *)
(* with what one of them asked for.  A process that reschedules a task     *)
(* takes away what the others had put there: its own must be there in the  *)
(* end.                                                                    *)
ScheduledTasksRecur ==
  (\A p \in Processes : Done(p)) =>
    \A p \in Processes : \A t \in Every(p) :
      (\A q \in Processes : \E u \in Every(q) : u.name = t.name /\ u.data = t.data)
        => \E q \in Processes : \E u \in Every(q) :
             u.name = t.name /\ u.data = t.data /\ Definition(u) \in repeatables

(* "We only allow a single repeatable job per" configuration: when the     *)
(* processes are done, each task they scheduled has one definition, also   *)
(* after a release that changed its frequency, and whichever calls or      *)
(* processes failed on the way, unless they ran beside each other or a     *)
(* removal failed.                                                         *)
SingleSchedule ==
  ~ astray /\ (\A p \in Processes : Done(p)) =>
    \A p \in Processes : \A t \in Every(p) :
      \A r, s \in DefinitionsOf(t) : r = s

(* "We only allow a single scheduled job per" configuration: no two        *)
(* delayed jobs of one task wait at the same time.                         *)
SingleDelayedJob == \A d \in Data : delayed[d] <= 1

(* schedule() comes to the end of its tasks, whichever of them are invalid *)
(* or refused and whichever calls fail, unless its process dies.           *)
ScheduleEnds == \A p \in Processes : proc[p].pc = "next" ~> proc[p].pc \in {"down", "done"}
=============================================================================
