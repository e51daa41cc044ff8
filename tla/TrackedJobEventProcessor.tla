---------------------- MODULE TrackedJobEventProcessor ----------------------
(***************************************************************************)
(* The workers that apply tracked-job events to the datastore:             *)
(* packages/nestjs-dmq/src/queue/TrackedJobEventProcessor.ts, run by       *)
(* BullMQ on the queue TrackedJobEventQueue.ts feeds.                      *)
(*                                                                         *)
(* An event job is delivered to an idle worker, whose handler is cut at    *)
(* every await: one action per database statement or queue call.  A        *)
(* handler that throws fails the attempt, and BullMQ redelivers the event  *)
(* until its attempts are used up.  A lock that is not renewed lets BullMQ *)
(* redeliver the event while the first handler may still be running.       *)
(*                                                                         *)
(* The module is open: WHICH events arrive (Emit) and what the source      *)
(* queue answers (FetchJobAndLog, MoveToDelay) are choices of the          *)
(* environment.                                                            *)
(***************************************************************************)
EXTENDS TrackedQueueRepository

CONSTANTS
  Workers,         \* processes that run the processor, each one job at a time
  TenantOf,        \* job.data.tenantid || 'SYSTEM' of every source job
  DefaultTenant,   \* the literal '!!'
  HasQueueSuffix,  \* is NESTJS_DMQ__QUEUE_SUFFIX configured?
  MaxAttempts,     \* defaultOptions.attempts
  MaxStalls,       \* maxStalledCount
  Offered,         \* BOUND: the events the environment may emit
  MaxFaults        \* BOUND: how many faults may happen

VARIABLES
  eventJob,        \* the queue's jobs: a function on the event ids added so far
  attempt,         \* the running handlers: a function on the busy workers
  faults           \* faults so far

vars == <<jobs, rows, now, eventJob, attempt, faults>>

FullEvent == EventType \ {"workerJobStalled", "queueJobDelayed"}

(* What TrackedJobEventQueue can put into an event.  A compact event       *)
(* carries no state and no tenant; a stalled one no queue either.          *)
EventContent ==
  [type : EventType, job : Jobs, state : BullState \cup {Undefined}]

ASSUME ProcessorAssumption ==
  /\ TenantOf \in [Jobs -> Tenants]
  /\ DefaultTenant \in Tenants
  /\ HasQueueSuffix \in BOOLEAN
  /\ MaxAttempts \in Nat \ {0}
  /\ MaxStalls \in Nat
  /\ MaxFaults \in Nat
  /\ Offered \subseteq EventContent
  /\ \A c \in Offered : c.state = Undefined <=> c.type \notin FullEvent

EventData ==
  [type : EventType, job : Jobs, state : BullState \cup {Undefined}, at : Time]

EventJob ==
  [data : EventData, status : {"waiting", "active", "completed", "failed"},
   attemptsMade : Nat, stalls : 0 .. MaxStalls]

Step == {"findById", "findByJobId", "trackTime", "track", "fetch", "exists",
         "delay", "updateTime", "read", "write", "ack", "throw"}

(* A running handler.  delayable: fetchJobAndLog found the source job, with *)
(* less than 10 attempts.  at, last: the time and the lastUpdatedAt of a    *)
(* write.  locked: the worker's token still is the event job's lock.      *)
Attempt ==
  [event : EventIds, pc : Step, delayable : BOOLEAN, at : Time, last : Time,
   locked : BOOLEAN]

EventJobTypeOK ==
  /\ DOMAIN eventJob \subseteq EventIds
  /\ \A e \in DOMAIN eventJob : eventJob[e] \in EventJob

AttemptTypeOK ==
  /\ DOMAIN attempt \subseteq Workers
  /\ \A w \in DOMAIN attempt :
       attempt[w] \in Attempt /\ attempt[w].event \in DOMAIN eventJob

TypeOK ==
  /\ StoreTypeOK
  /\ EventJobTypeOK
  /\ AttemptTypeOK
  /\ faults \in 0 .. MaxFaults

Init ==
  /\ StoreInit
  /\ eventJob = [e \in {} |-> {}]
  /\ attempt = [w \in {} |-> {}]
  /\ faults = 0

-----------------------------------------------------------------------------
Data(w) == eventJob[attempt[w].event].data

(* context.tenantId: undefined for the events built without a tenant.      *)
HasTenant(data) == data.type \in FullEvent
UpdateTenant(data) ==
  IF HasTenant(data) THEN TenantOf[data.job] ELSE DefaultTenant

(* The state the handler passes on: onQueueJobDelayed has its own.         *)
StateToWrite(data) ==
  IF data.type = "queueJobDelayed" THEN "waiting" ELSE data.state

(* event.createdAt was a DateTime when it was added and is a string after  *)
(* the JSON round trip through Redis: it has no isValid any more.          *)
Received(at) == [at |-> at, isValid |-> FALSE]

At(w, step) == w \in DOMAIN attempt /\ attempt[w].pc = step
Goto(w, step) == attempt' = [attempt EXCEPT ![w].pc = step]

Fault ==
  /\ faults < MaxFaults
  /\ faults' = faults + 1

-----------------------------------------------------------------------------
(* The event queue.                                                        *)

(* TrackedJobEventQueue.track*: an event job with a fresh id.              *)
EmitEvent(e, c) ==
  /\ UNCHANGED <<jobs, rows, now, attempt, faults>>
  /\ e \in EventIds \ DOMAIN eventJob
  /\ eventJob' = With(eventJob, e,
       [data |-> [type |-> c.type, job |-> c.job, state |-> c.state, at |-> now],
        status |-> "waiting", attemptsMade |-> 0, stalls |-> 0])

Emit == \E e \in EventIds, c \in Offered : EmitEvent(e, c)

(* process(): telemetry first, which reads message.queueId.replace when a  *)
(* suffix is configured, then the switch on the event's type.              *)
\* Mutant: an active event is treated like any other update.
FirstStepWithoutTracking(data) ==
  CASE data.type = "workerJobStalled" /\ HasQueueSuffix -> "throw"
    [] data.type = "queueJobDelayed" -> "findByJobId"
    [] OTHER -> "fetch"
FirstStep(data) ==
  CASE data.type = "workerJobStalled" /\ HasQueueSuffix -> "throw"
    [] data.type = "workerJobActive" -> "findById"
    [] data.type = "queueJobDelayed" -> "findByJobId"
    [] OTHER -> "fetch"

(* An idle worker takes a waiting event job, in any order: priorities,     *)
(* the 500 ms delay and the backoff only make some orders likelier.        *)
Process(w, e) ==
  /\ w \in Workers \ DOMAIN attempt
  /\ e \in DOMAIN eventJob /\ eventJob[e].status = "waiting"
  /\ eventJob' = [eventJob EXCEPT ![e].status = "active"]
  /\ attempt' = With(attempt, w,
       [event |-> e, pc |-> FirstStep(eventJob[e].data), delayable |-> FALSE,
        at |-> 0, last |-> 0, locked |-> TRUE])
  /\ UNCHANGED <<jobs, rows, now, faults>>

HoldsLock(w) == attempt[w].locked

(* The handler returned: the event job is completed (and removed), if the  *)
(* worker's lock still holds.                                              *)
Ack(w) ==
  /\ At(w, "ack")
  /\ eventJob' = IF HoldsLock(w)
                 THEN [eventJob EXCEPT ![attempt[w].event].status = "completed"]
                 ELSE eventJob
  /\ attempt' = Without(attempt, w)
  /\ UNCHANGED <<jobs, rows, now, faults>>

(* The failed attempt counts.                                              *)
AttemptsMade(e) == eventJob[e].attemptsMade + 1

(* The handler threw: the event job waits for its backoff, or has failed.  *)
Throw(w) ==
  LET e == attempt[w].event IN
  /\ At(w, "throw")
  /\ eventJob' = IF HoldsLock(w)
                 THEN [eventJob EXCEPT ![e] =
                        [@ EXCEPT !.attemptsMade = AttemptsMade(e),
                                  !.status = IF AttemptsMade(e) < MaxAttempts
                                             THEN "waiting" ELSE "failed"]]
                 ELSE eventJob
  /\ attempt' = Without(attempt, w)
  /\ UNCHANGED <<jobs, rows, now, faults>>

(* The stalled check: nobody renewed the lock of an active event job.  Its *)
(* worker died, or is alive and goes on without its lock.                  *)
Stall(e) ==
  /\ e \in DOMAIN eventJob /\ eventJob[e].status = "active"
  /\ eventJob' = IF eventJob[e].stalls = MaxStalls
                 THEN [eventJob EXCEPT ![e].status = "failed"]
                 ELSE [eventJob EXCEPT ![e] =
                        [@ EXCEPT !.status = "waiting",
                                  !.stalls = eventJob[e].stalls + 1]]
  /\ attempt' = [w \in DOMAIN attempt |->
                   IF attempt[w].event = e
                   THEN [attempt[w] EXCEPT !.locked = FALSE] ELSE attempt[w]]
  /\ UNCHANGED <<jobs, rows, now>>

(* A stall of a dead worker's event is no new fault; one of a live         *)
(* worker's event is.                                                      *)
Abandoned(e) ==
  /\ e \in DOMAIN eventJob /\ eventJob[e].status = "active"
  /\ ~ \E w \in DOMAIN attempt : attempt[w].event = e /\ attempt[w].locked
StallAbandoned(e) == Abandoned(e) /\ Stall(e) /\ UNCHANGED faults
StallAlive(e) == ~ Abandoned(e) /\ Stall(e) /\ Fault

Crash(w) ==
  /\ w \in DOMAIN attempt
  /\ Fault
  /\ attempt' = Without(attempt, w)
  /\ UNCHANGED <<jobs, rows, now, eventJob>>

-----------------------------------------------------------------------------
(* The handlers.                                                           *)

(* onWorkerJobActive: is the job tracked already?                          *)
OnActiveFind(w) ==
  /\ At(w, "findById")
  /\ Goto(w, IF FindJobById(TenantOf[Data(w).job], Data(w).job)
             THEN "fetch" ELSE "trackTime")
  /\ UNCHANGED <<jobs, rows, now, eventJob, faults>>

(* The first thing repository.trackJob and updateTrackedJob do: the clock  *)
(* may move on, and other workers write, before their first statement.     *)
TakeTime(w) ==
  /\ At(w, "trackTime") \/ At(w, "updateTime")
  /\ attempt' = [attempt EXCEPT ![w] =
       [@ EXCEPT !.at = TimestampAt(Received(Data(w).at)),
                 !.pc = IF At(w, "trackTime") THEN "track" ELSE "read"]]
  /\ UNCHANGED <<jobs, rows, now, eventJob, faults>>

(* onWorkerJobActive, trackJob: the record may be there by now.            *)
OnActiveTrack(w) ==
  /\ At(w, "track")
  /\ TrackJob(TenantOf[Data(w).job], Data(w).job, attempt[w].at)
  /\ Goto(w, "fetch")
  /\ UNCHANGED <<eventJob, faults>>

OnActiveTrackRefused(w) ==
  /\ At(w, "track")
  /\ ~ JobIsNew(Data(w).job)
  /\ Goto(w, "throw")
  /\ UNCHANGED <<jobs, rows, now, eventJob, faults>>

(* onQueueJobDelayed: findJobByJobId throws when there is no record.       *)
OnDelayedFind(w) ==
  /\ At(w, "findByJobId")
  /\ Goto(w, IF FindJobByJobId(Data(w).job) THEN "fetch" ELSE "throw")
  /\ UNCHANGED <<jobs, rows, now, eventJob, faults>>

(* fetchJobAndLog: reads the source queue; a failed read is caught and     *)
(* looks like an absent job.  A stalled event names no queue to read.      *)
FetchJobAndLog(w, delayable) ==
  /\ At(w, "fetch")
  /\ delayable => Data(w).type # "workerJobStalled"
  /\ attempt' = [attempt EXCEPT ![w].delayable = delayable, ![w].pc = "exists"]
  /\ UNCHANGED <<jobs, rows, now, eventJob, faults>>

Tracked(data) ==
  IF HasTenant(data) THEN FindJobById(TenantOf[data.job], data.job)
                     ELSE FindJobByJobId(data.job)

(* updateTrackedJob: without a record the SOURCE job is to be delayed; the *)
(* fetched job is of no more use otherwise.                                *)
UpdateExists(w) ==
  /\ At(w, "exists")
  /\ attempt' = IF Tracked(Data(w))
                THEN [attempt EXCEPT ![w].pc = "updateTime", ![w].delayable = FALSE]
                ELSE [attempt EXCEPT ![w].pc = "delay"]
  /\ UNCHANGED <<jobs, rows, now, eventJob, faults>>

\* Mutant: the event is delayed instead of the source job.
MoveEventToDelay(w, returns) ==
  /\ At(w, "delay") /\ returns
  /\ eventJob' = [eventJob EXCEPT ![attempt[w].event].status = "waiting"]
  /\ attempt' = Without(attempt, w)
  /\ UNCHANGED <<jobs, rows, now, faults>>
(* moveToDelay: without a source job, or past its 10 attempts, the handler *)
(* returns.  Otherwise it also throws, where BullMQ refuses to move the    *)
(* source job or a call after the move fails.  What becomes of the source  *)
(* job is TrackedPipeline's.                                               *)
MoveToDelay(w, returns) ==
  /\ At(w, "delay")
  /\ ~ returns => attempt[w].delayable
  /\ Goto(w, IF returns THEN "ack" ELSE "throw")
  /\ UNCHANGED <<jobs, rows, now, eventJob, faults>>

(* repository.updateTrackedJob: the read ...                               *)
UpdateRead(w) ==
  LET d == Data(w) IN
  /\ At(w, "read")
  /\ attempt' = IF FindJobById(UpdateTenant(d), d.job)
                THEN [attempt EXCEPT ![w].pc = "write",
                        ![w].last = jobs[d.job].updatedAt]
                ELSE [attempt EXCEPT ![w].pc = "throw"]
  /\ UNCHANGED <<jobs, rows, now, eventJob, faults>>

(* ... and the write, one transaction, which the database may refuse.      *)
UpdateWrite(w) ==
  LET d == Data(w) IN
  /\ At(w, "write")
  /\ UpdateTrackedJob(UpdateTenant(d), d.job, attempt[w].event, d.type,
       StateToWrite(d), attempt[w].at, attempt[w].last)
  /\ Goto(w, "ack")
  /\ UNCHANGED <<eventJob, faults>>

\* Mutant: the refusal is caught.
UpdateWriteRefusalCaught(w) ==
  LET d == Data(w) IN
  /\ At(w, "write")
  /\ ~ Writable(UpdateTenant(d), d.job, attempt[w].event, StateToWrite(d))
  /\ Goto(w, "ack")
  /\ UNCHANGED <<jobs, rows, now, eventJob, faults>>
UpdateWriteRefused(w) ==
  LET d == Data(w) IN
  /\ At(w, "write")
  /\ ~ Writable(UpdateTenant(d), d.job, attempt[w].event, StateToWrite(d))
  /\ Goto(w, "throw")
  /\ UNCHANGED <<jobs, rows, now, eventJob, faults>>

(* The database fails a call of the handler: nothing was done, ...         *)
DatabaseError(w) ==
  /\ w \in DOMAIN attempt
  /\ attempt[w].pc \in {"findById", "findByJobId", "track", "exists", "read", "write"}
  /\ Fault
  /\ Goto(w, "throw")
  /\ UNCHANGED <<jobs, rows, now, eventJob>>

(* ... or the write was committed and its reply was lost.                  *)
ReplyLost(w) ==
  /\ w \in DOMAIN attempt
  /\ Fault
  /\ \/ /\ At(w, "track")
        /\ TrackJob(TenantOf[Data(w).job], Data(w).job, attempt[w].at)
     \/ /\ At(w, "write")
        /\ UpdateTrackedJob(UpdateTenant(Data(w)), Data(w).job, attempt[w].event,
             Data(w).type, StateToWrite(Data(w)), attempt[w].at, attempt[w].last)
  /\ Goto(w, "throw")
  /\ UNCHANGED eventJob

-----------------------------------------------------------------------------
(* One step of a running handler.                                          *)
Handle(w) ==
  \/ OnActiveFind(w) \/ TakeTime(w) \/ OnActiveTrack(w) \/ OnActiveTrackRefused(w)
  \/ OnDelayedFind(w)
  \/ \E delayable \in BOOLEAN : FetchJobAndLog(w, delayable)
  \/ UpdateExists(w)
  \/ \E returns \in BOOLEAN : MoveToDelay(w, returns)
  \/ UpdateRead(w) \/ UpdateWrite(w) \/ UpdateWriteRefused(w)
  \/ Ack(w) \/ Throw(w)

ClockTick == Tick /\ UNCHANGED <<eventJob, attempt, faults>>

Next ==
  \/ \E w \in Workers, e \in EventIds : Process(w, e)
  \/ \E w \in Workers : Handle(w)
  \/ \E w \in Workers : DatabaseError(w) \/ ReplyLost(w) \/ Crash(w)
  \/ \E e \in EventIds : StallAbandoned(e) \/ StallAlive(e)
  \/ ClockTick
  \/ Emit

Spec == Init /\ [][Next]_vars

(* BullMQ keeps delivering waiting jobs and checking for stalled ones, and *)
(* a handler that runs gets on.  Nothing is promised about emissions, the  *)
(* clock or faults.                                                        *)
Fairness ==
  /\ \A w \in Workers, e \in EventIds : WF_vars(Process(w, e))
  /\ \A w \in Workers : WF_vars(Handle(w))
  /\ \A e \in EventIds : WF_vars(StallAbandoned(e))

FairSpec == Spec /\ Fairness

-----------------------------------------------------------------------------
(* Properties.                                                             *)

Recorded(e) ==
  \E r \in rows : r.job = eventJob[e].data.job /\ r.id = e

Status(e, s) == e \in DOMAIN eventJob /\ eventJob[e].status = s

(* However often an event is retried after a failure, redelivered after a  *)
(* stall or committed without its reply, its job's history has one row of  *)
(* it, and one creation row: updateTrackedJob's and trackJob's creates.    *)
RecordedOnce ==
  \A r1, r2 \in rows : r1.job = r2.job /\ r1.id = r2.id => r1 = r2

(* A "job active" event that was acknowledged left its row: the handler    *)
(* creates the record it updates, so the paths that give up on an unknown  *)
(* job (updateTrackedJob's moveToDelay) are never its own.                 *)
AckedActiveIsRecorded ==
  \A e \in DOMAIN eventJob :
    /\ eventJob[e].status = "completed"
    /\ eventJob[e].data.type = "workerJobActive"
    => Recorded(e)

(* The rows of a job and its record agree on the tenant, which is the      *)
(* tenant of the source job's message, also for the events that carry no   *)
(* tenant and are written under the default one.                           *)
TenantIsTheMessages ==
  /\ \A j \in DOMAIN jobs : jobs[j].tenant = TenantOf[j]
  /\ \A r \in rows : r.job \in DOMAIN jobs /\ r.tenant = TenantOf[r.job]

(* Every tracked job's history opens with its creation row: no row of it   *)
(* is older than the create of trackJob.                                   *)
HistoryOpensWithCreation ==
  \A j \in DOMAIN jobs :
    \E c \in rows :
      /\ c.job = j /\ c.id = CreationId
      /\ \A r \in rows : r.job = j => c.createdAt <= r.createdAt

(* An event that waits while its job is tracked is never lost without a    *)
(* trace: if it is ever acknowledged, its row is there.  This includes the *)
(* attempts of earlier deliveries that still run without their lock.       *)
NoSilentLossOnceTracked ==
  \A e \in EventIds :
    [](Status(e, "waiting") /\ eventJob[e].data.job \in DOMAIN jobs
       => [](Status(e, "completed") => Recorded(e)))

(* A job's state is that of its newest row, when one row is strictly the   *)
(* newest (a stalled row has no state of its own): what updateTrackedJob's *)
(* comparison with lastUpdatedAt is for.                                   *)
StateOfNewestRow ==
  \A r \in rows :
    /\ r.event # "workerJobStalled"
    /\ \A q \in rows : q.job = r.job /\ q # r => q.createdAt < r.createdAt
    => jobs[r.job].state = r.state

(* Every event job is completed or failed for good after finitely many     *)
(* attempts and stalls: no event is retried for ever.                      *)
EventsSettle ==
  \A e \in EventIds :
    Status(e, "waiting") ~> Status(e, "completed") \/ Status(e, "failed")

(* What it all comes to: the store and the event queue implement the       *)
(* abstract history, however many workers, crashes and redeliveries there  *)
(* are (updateTrackedJob's and trackJob's writes, BullMQ's outcomes).      *)
Outcome(status) ==
  CASE status = "completed" -> "acknowledged"
    [] status = "failed" -> "abandoned"
    [] OTHER -> "open"

Announced ==
  [e \in DOMAIN eventJob |->
     [job |-> eventJob[e].data.job,
      tracks |-> eventJob[e].data.type = "workerJobActive",
      outcome |-> Outcome(eventJob[e].status)]]
Entry(r) == [owner |-> r.tenant, job |-> r.job, event |-> r.id, at |-> r.createdAt]

History == INSTANCE TrackedHistory WITH
  Job <- Jobs, Event <- EventIds, Opening <- CreationId, OwnerOf <- TenantOf,
  Instant <- Time, announced <- Announced, history <- {Entry(r) : r \in rows}

ImplementsHistory == History!HistorySpec
=============================================================================
