-------------------------- MODULE TrackedPipeline --------------------------
(***************************************************************************)
(* The whole path of a tracked job: the source queue and its workers, the  *)
(* listeners that turn what happens there into event jobs                  *)
(* (TrackedQueueProcessor.ts, TrackedQueueListener.ts and the track*       *)
(* methods of TrackedJobEventQueue.ts), and the event processor, which     *)
(* reads the source queue and moves its jobs.                              *)
(*                                                                         *)
(* A listener runs beside everything else: it asks Redis for the job's     *)
(* state in one step and adds the event job in another, and either fails.  *)
(***************************************************************************)
EXTENDS TrackedJobEventProcessor, FiniteSets

CONSTANTS
  SourceWorkers,   \* processes that run a TrackedQueueProcessor
  SourceAttempts,  \* opts.attempts of the source jobs
  CancelAfter,     \* the literal 10 of moveToDelay
  RemoveOnComplete,\* opts.removeOnComplete of the source jobs
  MaxExtras        \* BOUND: progress reports and retries of all source jobs

(* What getState answers of a job that is neither prioritized nor has      *)
(* children, and what the listeners therefore emit.                        *)
Answer == {"waiting", "active", "delayed", "completed", "failed", "unknown"}
ListenerContent ==
  [type : FullEvent, job : Jobs, state : Answer]
    \cup [type : EventType \ FullEvent, job : Jobs, state : {Undefined}]

ASSUME PipelineAssumption ==
  /\ ListenerContent \subseteq Offered
  /\ SourceAttempts \in Nat \ {0} /\ CancelAfter \in Nat \ {0}
  /\ RemoveOnComplete \in BOOLEAN /\ MaxExtras \in Nat

VARIABLES
  source,          \* the source queue's jobs
  running,         \* the source workers' runs: a function on the busy ones
  calls,           \* the listeners' calls in progress: a function on their event's id
  spent,           \* event workers that fetched a job past its CancelAfter attempts
  cancels,         \* events whose handler called moveToFailed and did not wait
  extras,          \* progress reports and retries so far
  sourceFaults     \* faults of listeners, source workers and reads of their queue

sourceVars == <<source, running, calls, spent, cancels, extras, sourceFaults>>
pipelineVars == <<vars, sourceVars>>

SourceState == {"absent", "waiting", "active", "delayed", "completed", "failed", "removed"}
SourceJob == [state : SourceState, failures : 0 .. SourceAttempts, taken : BOOLEAN]
(* A worker's run of a job; locked: its token still is the job's lock.     *)
Run == [job : Jobs, locked : BOOLEAN]
Call == [type : EventType, job : Jobs, state : Answer \cup {Undefined},
         pc : {"getState", "add"}]

PipelineTypeOK ==
  /\ source \in [Jobs -> SourceJob]
  /\ DOMAIN running \subseteq SourceWorkers
  /\ \A w \in DOMAIN running : running[w] \in Run
  /\ DOMAIN calls \subseteq EventIds \ DOMAIN eventJob
  /\ \A e \in DOMAIN calls : calls[e] \in Call
  /\ spent \subseteq Workers
  /\ cancels \subseteq DOMAIN eventJob
  /\ extras \in 0 .. MaxExtras
  /\ sourceFaults \in 0 .. MaxFaults

PipelineInit ==
  /\ Init
  /\ source = [j \in Jobs |-> [state |-> "absent", failures |-> 0, taken |-> FALSE]]
  /\ running = [w \in {} |-> {}]
  /\ calls = [e \in {} |-> {}]
  /\ spent = {} /\ cancels = {}
  /\ extras = 0
  /\ sourceFaults = 0

\* BOUND: a report of progress, or a retry, spends the budget of the faults too.
FaultsLeft == faults + sourceFaults + extras < MaxFaults
SourceFault == FaultsLeft /\ sourceFaults' = sourceFaults + 1
Extra == FaultsLeft /\ extras < MaxExtras /\ extras' = extras + 1

-----------------------------------------------------------------------------
(* The listeners.                                                          *)

FreshIds == EventIds \ (DOMAIN eventJob \cup DOMAIN calls)

(* A listener starts: buildTrackEventFromWorkerEvent awaits getState first *)
(* where the event is a full one.  The id is createId()'s.                 *)
FirstCallStep(type) == IF type \in FullEvent THEN "getState" ELSE "add"
Listen(type, j) ==
  /\ FreshIds # {}
  /\ calls' = With(calls, CHOOSE e \in FreshIds : TRUE,
       [type |-> type, job |-> j, state |-> Undefined, pc |-> FirstCallStep(type)])

(* job.getState(), answered by Redis at this moment.                       *)
GetState(j) == IF source[j].state = "removed" THEN "unknown" ELSE source[j].state

AskState(e) ==
  /\ e \in DOMAIN calls /\ calls[e].pc = "getState"
  /\ calls' = [calls EXCEPT ![e] =
       [@ EXCEPT !.pc = "add", !.state = GetState(calls[e].job)]]
  /\ UNCHANGED <<vars, source, running, spent, cancels, extras, sourceFaults>>

(* queue.add of the event job, which TrackedJobEventProcessor takes over.  *)
\* Mutant: a delayed event is given a state, as a full one is.
ContentWithState(e) ==
  [type |-> calls[e].type, job |-> calls[e].job, state |-> GetState(calls[e].job)]
CallContent(e) ==
  [type |-> calls[e].type, job |-> calls[e].job, state |-> calls[e].state]

AddEvent(e) ==
  /\ e \in DOMAIN calls /\ calls[e].pc = "add"
  /\ EmitEvent(e, CallContent(e))
  /\ calls' = Without(calls, e)
  /\ UNCHANGED <<source, running, spent, cancels, extras, sourceFaults>>

(* Redis fails the call: caught and logged for active and completed, an    *)
(* unhandled rejection for the others.  The event is lost either way, and  *)
(* the id is free again.                                                   *)
LoseEvent(e) ==
  /\ e \in DOMAIN calls
  /\ SourceFault
  /\ calls' = Without(calls, e)
  /\ UNCHANGED <<vars, source, running, spent, cancels, extras>>

-----------------------------------------------------------------------------
(* The source queue and its workers.                                       *)

AddJob(j) ==
  /\ source[j].state = "absent"
  /\ source' = [source EXCEPT ![j].state = "waiting"]
  /\ UNCHANGED <<vars, running, calls, spent, cancels, extras, sourceFaults>>

(* A worker takes a job, and its lock from whoever still runs it:          *)
(* process() runs beside onActive.                                         *)
Unlocked(j) ==
  [w \in DOMAIN running |->
     IF running[w].job = j THEN [running[w] EXCEPT !.locked = FALSE] ELSE running[w]]
\* Mutant: a job that comes back, delayed, failed or stalled, is passed over.
TakeOnce(w, j) ==
  /\ w \in SourceWorkers \ DOMAIN running
  /\ source[j].state = "waiting" /\ ~ source[j].taken
  /\ source' = [source EXCEPT ![j].state = "active", ![j].taken = TRUE]
  /\ running' = With(Unlocked(j), w, [job |-> j, locked |-> TRUE])
  /\ Listen("workerJobActive", j)
  /\ UNCHANGED <<vars, spent, cancels, extras, sourceFaults>>
Take(w, j) ==
  /\ w \in SourceWorkers \ DOMAIN running
  /\ source[j].state = "waiting"
  /\ source' = [source EXCEPT ![j].state = "active", ![j].taken = TRUE]
  /\ running' = With(Unlocked(j), w, [job |-> j, locked |-> TRUE])
  /\ Listen("workerJobActive", j)
  /\ UNCHANGED <<vars, spent, cancels, extras, sourceFaults>>

(* The handler reports progress, of a job that is still there: onProgress. *)
ReportProgress(w) ==
  /\ w \in DOMAIN running
  /\ source[running[w].job].state # "removed"
  /\ Extra
  /\ Listen("workerJobProgress", running[w].job)
  /\ UNCHANGED <<vars, source, running, spent, cancels, sourceFaults>>

(* BullMQ ends a run for the worker that has the lock of an active job.    *)
Ends(w) == running[w].locked /\ source[running[w].job].state = "active"

(* process() returned: onCompleted, and the job stays or is removed.       *)
Complete(w) ==
  LET j == running[w].job
      state == IF RemoveOnComplete THEN "removed" ELSE "completed" IN
  /\ w \in DOMAIN running /\ Ends(w)
  /\ source' = [source EXCEPT ![j].state = state]
  /\ running' = Without(running, w)
  /\ Listen("workerJobCompleted", j)
  /\ UNCHANGED <<vars, spent, cancels, extras, sourceFaults>>

(* A failed attempt counts, and the job waits for another if one is left.  *)
Failures(j) == source[j].failures + 1
IsRetried(j) == Failures(j) < SourceAttempts
FailedOnce(j) ==
  [source EXCEPT ![j] =
     [@ EXCEPT !.failures = Failures(j),
               !.state = IF IsRetried(j) THEN "waiting" ELSE "failed"]]

(* process() threw: onFailed.                                              *)
Fail(w) ==
  LET j == running[w].job IN
  /\ w \in DOMAIN running /\ Ends(w)
  /\ source' = FailedOnce(j)
  /\ running' = Without(running, w)
  /\ Listen("workerJobFailed", j)
  /\ IF IsRetried(j) THEN Extra ELSE UNCHANGED extras
  /\ UNCHANGED <<vars, spent, cancels, sourceFaults>>

(* The job was moved away under its worker, or its lock is another's:      *)
(* BullMQ refuses its completion or failure, and onError logs it.          *)
Refused(w) ==
  /\ w \in DOMAIN running /\ ~ Ends(w)
  /\ running' = Without(running, w)
  /\ UNCHANGED <<vars, source, calls, spent, cancels, extras, sourceFaults>>

(* The process dies, of itself or by onError's process.exit ...            *)
SourceCrash(w) ==
  /\ w \in DOMAIN running
  /\ SourceFault
  /\ running' = Without(running, w)
  /\ UNCHANGED <<vars, source, calls, spent, cancels, extras>>

(* ... or lives on without the lock, which it did not renew in time.       *)
LoseLock(w) ==
  /\ w \in DOMAIN running /\ running[w].locked
  /\ SourceFault
  /\ running' = [running EXCEPT ![w].locked = FALSE]
  /\ UNCHANGED <<vars, source, calls, spent, cancels, extras>>

(* The stalled check: onStalled for a job that waits again; one over its   *)
(* limit fails, and onFailed is called without a job and returns.          *)
Unattended(j) ==
  /\ source[j].state = "active"
  /\ ~ \E w \in DOMAIN running : running[w].job = j /\ running[w].locked
OnStalled(j) ==
  /\ Unattended(j)
  /\ source' = [source EXCEPT ![j].state = "waiting"]
  /\ Listen("workerJobStalled", j)
  /\ UNCHANGED <<vars, running, spent, cancels, extras, sourceFaults>>
OnFailedUndefined(j) ==
  /\ Unattended(j)
  /\ source' = [source EXCEPT ![j].state = "failed"]
  /\ UNCHANGED <<vars, running, calls, spent, cancels, extras, sourceFaults>>

Promote(j) ==
  /\ source[j].state = "delayed"
  /\ source' = [source EXCEPT ![j].state = "waiting"]
  /\ UNCHANGED <<vars, running, calls, spent, cancels, extras, sourceFaults>>

-----------------------------------------------------------------------------
(* The steps of the event processor that touch the source queue.           *)

Found(j) == source[j].state \notin {"absent", "removed"}

(* fetchJobAndLog, with the job's attemptsMade as it is now; a fault hides *)
(* the job.                                                                *)
FetchSourceJob(w) ==
  LET j == Data(w).job
      fetched == Data(w).type # "workerJobStalled" /\ Found(j)
      isSpent == source[j].failures >= CancelAfter IN
  /\ At(w, "fetch")
  /\ FetchJobAndLog(w, fetched /\ ~ isSpent)
  /\ spent' = IF fetched /\ isSpent THEN spent \cup {w} ELSE spent \ {w}
  /\ UNCHANGED <<source, running, calls, cancels, extras, sourceFaults>>

FetchFails(w) ==
  /\ At(w, "fetch")
  /\ SourceFault
  /\ FetchJobAndLog(w, FALSE)
  /\ spent' = spent \ {w}
  /\ UNCHANGED <<source, running, calls, cancels, extras>>

(* moveToDelay: an active job is delayed, whoever runs it and without its  *)
(* lock, and TrackedQueueListener hears of it.                             *)
MoveSource(w) ==
  LET j == Data(w).job IN
  /\ source[j].state = "active"
  /\ source' = [source EXCEPT ![j].state = "delayed"]
  /\ Listen("queueJobDelayed", j)

DelaySource(w) ==
  /\ At(w, "delay") /\ attempt[w].delayable
  /\ MoveToDelay(w, TRUE)
  /\ MoveSource(w)
  /\ UNCHANGED <<running, spent, cancels, extras, sourceFaults>>

(* The move is refused, as that of any other job, or fails; or the job was *)
(* moved and the report of progress that follows, or the question for the  *)
(* job's state, fails: the handler throws.                                 *)
DelayThrows(w) ==
  /\ At(w, "delay") /\ attempt[w].delayable
  /\ MoveToDelay(w, FALSE)
  /\ MoveSource(w) \/ UNCHANGED <<source, calls>>
  /\ UNCHANGED <<running, spent, cancels, extras, sourceFaults>>

(* Without a job the handler just returns ...                              *)
DelayNothing(w) ==
  /\ At(w, "delay") /\ ~ attempt[w].delayable /\ w \notin spent
  /\ MoveToDelay(w, TRUE)
  /\ UNCHANGED sourceVars

(* ... and past the job's attempts it does not wait for moveToFailed:      *)
CancelSource(w) ==
  /\ At(w, "delay") /\ ~ attempt[w].delayable /\ w \in spent
  /\ MoveToDelay(w, TRUE)
  /\ cancels' = cancels \cup {attempt[w].event}
  /\ spent' = spent \ {w}
  /\ UNCHANGED <<source, running, calls, extras, sourceFaults>>

(* sooner or later an active job has failed once more, whoever runs it ... *)
CancelSucceeds(e) ==
  LET j == eventJob[e].data.job IN
  /\ e \in cancels
  /\ source[j].state = "active"
  /\ source' = FailedOnce(j)
  /\ cancels' = cancels \ {e}
  /\ UNCHANGED <<vars, running, calls, spent, extras, sourceFaults>>

(* ... or the call is refused, for the job's state or the token it lacks,  *)
(* or lost, and nobody hears of it.                                        *)
CancelFails(e) ==
  /\ e \in cancels
  /\ cancels' = cancels \ {e}
  /\ UNCHANGED <<vars, source, running, calls, spent, extras, sourceFaults>>

-----------------------------------------------------------------------------
(* The other steps of the event processor are its own.                     *)
HandleOwn(w) ==
  /\ \/ OnActiveFind(w) \/ TakeTime(w) \/ OnActiveTrack(w) \/ OnActiveTrackRefused(w)
     \/ OnDelayedFind(w) \/ UpdateExists(w)
     \/ UpdateRead(w) \/ UpdateWrite(w) \/ UpdateWriteRefused(w)
     \/ Ack(w) \/ Throw(w)
  /\ UNCHANGED sourceVars

HandleEvent(w) ==
  \/ HandleOwn(w)
  \/ FetchSourceJob(w)
  \/ DelaySource(w) \/ DelayThrows(w) \/ DelayNothing(w) \/ CancelSource(w)

EventTrouble ==
  /\ FaultsLeft
  /\ \/ \E w \in Workers : DatabaseError(w) \/ ReplyLost(w) \/ Crash(w)
     \/ \E e \in EventIds : StallAlive(e)
Elsewhere == (EventTrouble \/ ClockTick) /\ UNCHANGED sourceVars

Deliver(w, e) == Process(w, e) /\ UNCHANGED sourceVars
Redeliver(e) == StallAbandoned(e) /\ UNCHANGED sourceVars

ListenerStep(e) == AskState(e) \/ AddEvent(e)
EventQueueStep ==
  \E e \in EventIds :
    ListenerStep(e) \/ Redeliver(e) \/ \E w \in Workers : Deliver(w, e)
SourceQueueStep(j) == OnStalled(j) \/ OnFailedUndefined(j) \/ Promote(j)
SourceWorkerStep(w) ==
  \/ \E j \in Jobs : Take(w, j)
  \/ Complete(w) \/ Fail(w) \/ Refused(w)

PipelineNext ==
  \/ \E j \in Jobs : AddJob(j) \/ SourceQueueStep(j)
  \/ \E w \in SourceWorkers :
       SourceWorkerStep(w) \/ ReportProgress(w) \/ SourceCrash(w) \/ LoseLock(w)
  \/ \E e \in EventIds : ListenerStep(e) \/ LoseEvent(e) \/ Redeliver(e)
  \/ \E w \in Workers : HandleEvent(w) \/ FetchFails(w)
  \/ \E e \in EventIds : CancelSucceeds(e) \/ CancelFails(e)
  \/ \E w \in Workers, e \in EventIds : Deliver(w, e)
  \/ Elsewhere

PipelineSpec == PipelineInit /\ [][PipelineNext]_pipelineVars

(* Node goes on with what it has started, BullMQ delivers, promotes and    *)
(* checks for stalled jobs; of the events, with one that can go on.        *)
PipelineFairness ==
  /\ \A w \in SourceWorkers : WF_pipelineVars(SourceWorkerStep(w))
  /\ \A j \in Jobs : WF_pipelineVars(SourceQueueStep(j))
  /\ \A w \in Workers : WF_pipelineVars(HandleEvent(w))
  /\ WF_pipelineVars(EventQueueStep)

FairPipelineSpec == PipelineSpec /\ PipelineFairness

-----------------------------------------------------------------------------
(* Everything that was emitted has been dealt with, for good or ill.       *)
Quiet ==
  /\ DOMAIN calls = {} /\ DOMAIN attempt = {} /\ DOMAIN running = {}
  /\ \A e \in DOMAIN eventJob : eventJob[e].status \in {"completed", "failed"}

(* The composition implements the open event processor: its environment    *)
(* is what the listeners really emit and what the source queue really      *)
(* answers, so whatever holds of the processor holds here.                 *)
ImplementsProcessor == Spec

(* A source job that waits is run to its end, although an event of a job   *)
(* that is not tracked yet takes it from its worker, or fails it once more *)
(* past its CancelAfter attempts (moveToDelay), and workers lose locks.    *)
SourceJobsSettle ==
  \A j \in Jobs :
    source[j].state = "waiting" ~> source[j].state \in {"completed", "failed", "removed"}

(* Without a fault, every job that a worker ever took is tracked once its  *)
(* events have been dealt with, whatever their order: onActive's event is  *)
(* the one that creates the record.                                        *)
RunsAreTracked ==
  Quiet /\ faults + sourceFaults = 0 => \A j \in Jobs : source[j].taken => j \in DOMAIN jobs

(* TrackedQueueProcessor.integration.test.ts:485: a job that was delayed   *)
(* and then completed is tracked as completed, when all is done and its    *)
(* completion has a row of a time of its own.                              *)
TrackedAsCompleted ==
  Quiet =>
    \A r \in rows :
      /\ r.event = "workerJobCompleted" /\ r.state = "completed"
      /\ \A q \in rows : q.job = r.job /\ q # r => q.createdAt # r.createdAt
      => jobs[r.job].state = "completed"
=============================================================================
