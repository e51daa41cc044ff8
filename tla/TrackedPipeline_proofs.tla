----------------------- MODULE TrackedPipeline_proofs -----------------------
(* What holds of the whole path of a tracked job, for every set of source  *)
(* workers, jobs and events: it implements the open event processor, so    *)
(* that everything proved of the processor holds of the path.              *)
EXTENDS TrackedPipeline, TrackedJobEventProcessor_proofs

(* What a call in progress has to tell.  A job that a listener knows of is *)
(* in the queue, or has been: getState never answers for one that is       *)
(* absent.                                                                 *)
CallOK(c, src) ==
  /\ c \in Call /\ src[c.job].state # "absent"
  /\ IF c.type \in FullEvent THEN c.pc = "add" => c.state \in Answer
                             ELSE c.pc = "add" /\ c.state = Undefined

(* A source job that has not failed has an attempt left.                   *)
SourceOK(src) ==
  /\ src \in [Jobs -> SourceJob]
  /\ \A j \in Jobs : src[j].state # "failed" => src[j].failures < SourceAttempts
RunsOK(runs, src) ==
  /\ DOMAIN runs \subseteq SourceWorkers
  /\ \A w \in DOMAIN runs : runs[w] \in Run /\ src[runs[w].job].state # "absent"
CallsOK(cs, src) == \A e \in DOMAIN cs : CallOK(cs[e], src)

PathOK ==
  /\ SourceOK(source) /\ RunsOK(running, source) /\ CallsOK(calls, source)
  /\ DOMAIN calls \subseteq EventIds \ DOMAIN eventJob
  /\ spent \subseteq Workers /\ cancels \subseteq DOMAIN eventJob
  /\ extras \in 0 .. MaxExtras
  /\ sourceFaults \in 0 .. MaxFaults
PipelineInv == TypeOK /\ PathOK

-----------------------------------------------------------------------------
(* The source queue goes on to keep the jobs that it has.                  *)
Keeps(src, next) ==
  /\ SourceOK(next)
  /\ \A j \in Jobs : src[j].state # "absent" => next[j].state # "absent"

(* A call stays as good as it was, and so do those in progress.           *)
LEMMA CallStays ==
  ASSUME NEW c, NEW src, NEW next, CallOK(c, src), Keeps(src, next)
  PROVE  CallOK(c, next)
BY DEF CallOK, Keeps, Call

LEMMA CallsStay ==
  ASSUME NEW cs, NEW src, NEW next, CallsOK(cs, src), Keeps(src, next)
  PROVE  CallsOK(cs, next)
BY CallStays DEF CallsOK

LEMMA RunsStay ==
  ASSUME NEW runs, NEW src, NEW next, RunsOK(runs, src), Keeps(src, next)
  PROVE  RunsOK(runs, next)
<1> SUFFICES ASSUME NEW w \in DOMAIN runs PROVE runs[w] \in Run /\ next[runs[w].job].state # "absent"
  BY DEF RunsOK
<1>1. runs[w] \in Run /\ src[runs[w].job].state # "absent"
  BY DEF RunsOK
<1>2. runs[w].job \in Jobs
  BY <1>1 DEF Run
<1> QED BY <1>1, <1>2 DEF Keeps

(* The lock of a job goes from those who run it to the one who takes it.   *)
LEMMA RunsUnlocked ==
  ASSUME NEW src, NEW j, RunsOK(running, src)
  PROVE  RunsOK(Unlocked(j), src)
<1> DEFINE runs == Unlocked(j)
<1>1. DOMAIN runs = DOMAIN running
  BY DEF Unlocked
<1>2. ASSUME NEW w \in DOMAIN running
      PROVE  runs[w] \in Run /\ src[runs[w].job].state # "absent"
  <2>1. running[w] \in Run /\ src[running[w].job].state # "absent"
    BY DEF RunsOK
  <2>2. runs[w] = running[w] \/ runs[w] = [running[w] EXCEPT !.locked = FALSE]
    BY DEF Unlocked
  <2> HIDE DEF runs
  <2>3. runs[w] \in Run /\ runs[w].job = running[w].job
    BY <2>1, <2>2 DEF Run
  <2> QED BY <2>1, <2>3
<1> HIDE DEF runs
<1> QED BY <1>1, <1>2 DEF RunsOK, runs

(* A listener's new call: of a job that is in the queue, and with a state  *)
(* that is asked for where the event is a full one.                        *)
LEMMA ListenOK ==
  ASSUME PathOK, Keeps(source, source'), NEW type \in EventType, NEW j \in Jobs,
         source'[j].state # "absent", Listen(type, j), UNCHANGED eventJob
  PROVE  CallsOK(calls', source') /\ DOMAIN calls' \subseteq EventIds \ DOMAIN eventJob'
<1> DEFINE c == [type |-> type, job |-> j, state |-> Undefined, pc |-> FirstCallStep(type)]
<1>1. CallOK(c, source')
  BY DEF CallOK, Call, FirstCallStep
<1>2. PICK e \in FreshIds : calls' = With(calls, e, c)
  BY DEF Listen
<1> HIDE DEF c
<1>3. CallsOK(calls, source')
  BY CallsStay DEF PathOK
<1>4. QED BY <1>1, <1>2, <1>3 DEF With, CallsOK, FreshIds, PathOK

-----------------------------------------------------------------------------
(* Every step of the path is one of the processor, or one that it does not *)
(* see: what the listeners add is what the processor may be offered.       *)
LEMMA ProcessorStep == PipelineInv /\ [PipelineNext]_pipelineVars => [Next]_vars
<1> SUFFICES ASSUME PipelineInv, [PipelineNext]_pipelineVars PROVE [Next]_vars
  OBVIOUS
<1>1. ASSUME NEW j \in Jobs, AddJob(j) \/ SourceQueueStep(j) PROVE UNCHANGED vars
  BY <1>1 DEF AddJob, SourceQueueStep, OnStalled, OnFailedUndefined, Promote
<1>2. ASSUME NEW w \in SourceWorkers,
             SourceWorkerStep(w) \/ ReportProgress(w) \/ SourceCrash(w) \/ LoseLock(w)
      PROVE  UNCHANGED vars
  BY <1>2 DEF SourceWorkerStep, Take, Complete, Fail, Refused, ReportProgress, SourceCrash, LoseLock
<1>3. ASSUME NEW e \in EventIds, AskState(e) \/ LoseEvent(e) \/ CancelSucceeds(e) \/ CancelFails(e)
      PROVE  UNCHANGED vars
  BY <1>3 DEF AskState, LoseEvent, CancelSucceeds, CancelFails
<1>4. ASSUME NEW e \in EventIds, AddEvent(e) PROVE Next
  <2>1. CallContent(e) \in Offered
    BY <1>4, PipelineAssumption
       DEF PipelineInv, PathOK, CallsOK, CallOK, Call, AddEvent, CallContent, ListenerContent
  <2>2. EmitEvent(e, CallContent(e))
    BY <1>4 DEF AddEvent
  <2>3. QED BY <2>1, <2>2 DEF Next, Emit
<1>5. ASSUME NEW w \in Workers, HandleEvent(w) \/ FetchFails(w) PROVE Next
  <2>1. CASE HandleOwn(w)
    BY <2>1 DEF HandleOwn, Handle, Next
  <2>2. CASE FetchSourceJob(w) \/ FetchFails(w)
    <3>1. PICK delayable \in BOOLEAN : FetchJobAndLog(w, delayable)
      BY <2>2 DEF FetchSourceJob, FetchFails
    <3>2. QED BY <3>1 DEF Handle, Next
  <2>3. CASE DelaySource(w) \/ DelayThrows(w) \/ DelayNothing(w) \/ CancelSource(w)
    <3>1. PICK returns \in BOOLEAN : MoveToDelay(w, returns)
      BY <2>3 DEF DelaySource, DelayThrows, DelayNothing, CancelSource
    <3>2. QED BY <3>1 DEF Handle, Next
  <2>4. QED BY <1>5, <2>1, <2>2, <2>3 DEF HandleEvent
<1>6. ASSUME NEW w \in Workers, NEW e \in EventIds, Deliver(w, e) PROVE Next
  BY <1>6 DEF Deliver, Next
<1>7. ASSUME NEW e \in EventIds, Redeliver(e) PROVE Next
  BY <1>7 DEF Redeliver, Next
<1>8. ASSUME Elsewhere PROVE Next
  BY <1>8 DEF Elsewhere, EventTrouble, Next
<1>9. ASSUME UNCHANGED pipelineVars PROVE UNCHANGED vars
  BY <1>9 DEF pipelineVars
<1>10. QED
  BY <1>1, <1>2, <1>3, <1>4, <1>5, <1>6, <1>7, <1>8, <1>9 DEF PipelineNext, ListenerStep

-----------------------------------------------------------------------------
(* The steps that leave the path's own state as it is do not add an event. *)
LEMMA SameEvents ==
  ASSUME NEW w \in Workers,
         HandleEvent(w) \/ FetchFails(w) \/ (\E e \in EventIds : Deliver(w, e))
  PROVE  DOMAIN eventJob' = DOMAIN eventJob
BY DEF HandleEvent, HandleOwn, FetchSourceJob, FetchFails, DelaySource, DelayThrows,
       DelayNothing, CancelSource, Deliver, Process, OnActiveFind, TakeTime, OnActiveTrack,
       OnActiveTrackRefused, OnDelayedFind, FetchJobAndLog, UpdateExists, MoveToDelay,
       UpdateRead, UpdateWrite, UpdateWriteRefused, Ack, Throw

LEMMA SameEventsInTrouble ==
  ASSUME Elsewhere \/ \E e \in EventIds : Redeliver(e)
  PROVE  DOMAIN eventJob' = DOMAIN eventJob
<1>1. ASSUME NEW e, Stall(e) PROVE DOMAIN eventJob' = DOMAIN eventJob
  BY <1>1 DEF Stall
<1>2. ASSUME NEW w, DatabaseError(w) \/ ReplyLost(w) \/ Crash(w)
      PROVE  DOMAIN eventJob' = DOMAIN eventJob
  BY <1>2 DEF DatabaseError, ReplyLost, Crash
<1>3. CASE EventTrouble
  BY <1>1, <1>2, <1>3 DEF EventTrouble, StallAlive
<1>4. QED BY <1>1, <1>3 DEF Elsewhere, Redeliver, StallAbandoned, ClockTick

(* A source job that goes from one state of the queue to another.          *)
LEMMA Moved ==
  ASSUME SourceOK(source), NEW j \in Jobs, NEW s \in SourceState \ {"absent"},
         source[j].state # "failed", source' = [source EXCEPT ![j].state = s]
  PROVE  Keeps(source, source') /\ source'[j].state = s
<1> DEFINE job == [source[j] EXCEPT !.state = s]
<1>1. job \in SourceJob /\ job.state = s /\ job.failures = source[j].failures
  BY DEF SourceOK, SourceJob
<1>2. source' = [source EXCEPT ![j] = job]
  OBVIOUS
<1> HIDE DEF job
<1>3. QED BY <1>1, <1>2 DEF SourceOK, Keeps

(* A source job that has failed once more.                                 *)
LEMMA FailedAgain ==
  ASSUME SourceOK(source), NEW j \in Jobs, source[j].state = "active", source' = FailedOnce(j)
  PROVE  Keeps(source, source') /\ source'[j].state # "absent"
<1> DEFINE failures == Failures(j)
           s == IF IsRetried(j) THEN "waiting" ELSE "failed"
           job == [source[j] EXCEPT !.failures = failures, !.state = s]
<1>1. /\ job \in SourceJob /\ job.state # "absent"
      /\ job.state # "failed" => job.failures < SourceAttempts
  <2>1. source[j] \in SourceJob /\ failures \in 0 .. SourceAttempts
    BY PipelineAssumption DEF SourceOK, SourceJob, Failures
  <2>2. s \in {"waiting", "failed"} /\ (s # "failed" => failures < SourceAttempts)
    BY DEF IsRetried
  <2> HIDE DEF failures, s
  <2>3. s \in SourceState
    BY <2>2 DEF SourceState
  <2>4. ASSUME NEW old \in SourceJob, NEW n \in 0 .. SourceAttempts, NEW t \in SourceState,
               old = source[j], n = failures, t = s
        PROVE  job \in SourceJob /\ job.state = s /\ job.failures = failures
    <3>1. job = [old EXCEPT !.failures = n, !.state = t]
      BY <2>4, Zenon
    <3> HIDE DEF job
    <3>2. QED BY <2>4, <3>1 DEF SourceJob
  <2>5. job \in SourceJob /\ job.state = s /\ job.failures = failures
    <3> HIDE DEF job
    <3>1. QED BY <2>1, <2>3, <2>4
  <2> HIDE DEF job
  <2>6. QED BY <2>2, <2>5
<1>2. source' = [source EXCEPT ![j] = job]
  BY DEF FailedOnce
<1> HIDE DEF failures, s, job
<1>3. QED BY <1>1, <1>2 DEF SourceOK, Keeps

LEMMA PathStep == PipelineInv /\ [PipelineNext]_pipelineVars => PathOK'
<1> SUFFICES ASSUME PipelineInv, [PipelineNext]_pipelineVars PROVE PathOK'
  OBVIOUS
<1> USE DEF PipelineInv
<1>1. ASSUME UNCHANGED <<source, running, calls, extras>>, DOMAIN eventJob' = DOMAIN eventJob,
             spent' \subseteq Workers, cancels' \subseteq DOMAIN eventJob,
             sourceFaults' \in 0 .. MaxFaults
      PROVE  PathOK'
  BY <1>1 DEF PathOK
<1>2. ASSUME NEW j \in Jobs, AddJob(j) \/ OnFailedUndefined(j) \/ Promote(j)
      PROVE  PathOK'
  <2>1. PICK s \in SourceState \ {"absent"} :
          source[j].state # "failed" /\ source' = [source EXCEPT ![j].state = s]
    BY <1>2 DEF AddJob, OnFailedUndefined, Unattended, Promote, SourceState
  <2>2. Keeps(source, source')
    BY <2>1, Moved DEF PathOK
  <2>3. UNCHANGED <<running, calls, spent, cancels, extras, sourceFaults, eventJob>>
    BY <1>2 DEF AddJob, OnFailedUndefined, Promote, vars
  <2>4. QED BY <2>2, <2>3, CallsStay, RunsStay DEF PathOK, Keeps
<1>3. ASSUME NEW j \in Jobs, OnStalled(j) PROVE PathOK'
  <2>1. Keeps(source, source') /\ source'[j].state = "waiting"
    BY <1>3, Moved DEF OnStalled, Unattended, PathOK, SourceState
  <2>2. UNCHANGED <<running, spent, cancels, extras, sourceFaults, eventJob>>
    BY <1>3 DEF OnStalled, vars
  <2>3. CallsOK(calls', source') /\ DOMAIN calls' \subseteq EventIds \ DOMAIN eventJob'
    BY <1>3, <2>1, <2>2, ListenOK DEF OnStalled, EventType
  <2>4. QED BY <2>1, <2>2, <2>3, RunsStay DEF PathOK, Keeps
<1>4. ASSUME NEW w \in SourceWorkers, NEW j \in Jobs, Take(w, j) PROVE PathOK'
  <2> DEFINE job == [source[j] EXCEPT !.state = "active", !.taken = TRUE]
  <2>1. job \in SourceJob /\ job.state = "active" /\ job.failures = source[j].failures
    BY DEF PathOK, SourceOK, SourceJob, SourceState
  <2>2. source' = [source EXCEPT ![j] = job] /\ source[j].state = "waiting"
    BY <1>4 DEF Take, PathOK, SourceOK
  <2> HIDE DEF job
  <2>3. Keeps(source, source') /\ source'[j].state = "active"
    BY <2>1, <2>2 DEF PathOK, SourceOK, Keeps
  <2>4. /\ running' = With(Unlocked(j), w, [job |-> j, locked |-> TRUE])
        /\ UNCHANGED <<spent, cancels, extras, sourceFaults, eventJob>>
    BY <1>4 DEF Take, vars
  <2>5. RunsOK(running', source')
    <3> DEFINE runs == Unlocked(j)
               run == [job |-> j, locked |-> TRUE]
    <3>1. RunsOK(running, source')
      BY <2>3, RunsStay DEF PathOK
    <3>2. RunsOK(runs, source')
      BY <3>1, RunsUnlocked
    <3>3. run \in Run /\ run.job = j /\ running' = With(runs, w, run)
      BY <2>4 DEF Run
    <3> HIDE DEF runs, run
    <3>4. QED BY <2>3, <3>2, <3>3 DEF RunsOK, With
  <2>6. CallsOK(calls', source') /\ DOMAIN calls' \subseteq EventIds \ DOMAIN eventJob'
    BY <1>4, <2>3, <2>4, ListenOK DEF Take, EventType
  <2>7. QED BY <2>3, <2>4, <2>5, <2>6 DEF PathOK, Keeps
<1>5. ASSUME NEW w \in SourceWorkers, ReportProgress(w) PROVE PathOK'
  <2>1. UNCHANGED <<source, running, spent, cancels, sourceFaults, eventJob>>
        /\ extras' \in 0 .. MaxExtras
    BY <1>5, PipelineAssumption DEF ReportProgress, Extra, PathOK, vars
  <2>2. running[w].job \in Jobs /\ source[running[w].job].state # "absent"
    BY <1>5 DEF ReportProgress, PathOK, RunsOK, Run
  <2>3. Keeps(source, source')
    BY <2>1 DEF Keeps, PathOK
  <2>4. CallsOK(calls', source') /\ DOMAIN calls' \subseteq EventIds \ DOMAIN eventJob'
    BY <1>5, <2>1, <2>2, <2>3, ListenOK DEF ReportProgress, EventType
  <2>5. QED BY <2>1, <2>4 DEF PathOK
<1>6. ASSUME NEW w \in SourceWorkers, Complete(w) PROVE PathOK'
  <2> DEFINE j == running[w].job
  <2>1. j \in Jobs /\ source[j].state = "active"
    BY <1>6 DEF Complete, Ends, PathOK, RunsOK, Run
  <2>2. PICK s \in {"removed", "completed"} : source' = [source EXCEPT ![j].state = s]
    BY <1>6 DEF Complete
  <2>3. running' = Without(running, w) /\ Listen("workerJobCompleted", j)
        /\ UNCHANGED <<spent, cancels, extras, sourceFaults, eventJob>>
    BY <1>6 DEF Complete, vars
  <2> HIDE DEF j
  <2>4. Keeps(source, source') /\ source'[j].state = s
    BY <2>1, <2>2, Moved DEF PathOK, SourceState
  <2>5. CallsOK(calls', source') /\ DOMAIN calls' \subseteq EventIds \ DOMAIN eventJob'
    BY <2>1, <2>2, <2>3, <2>4, ListenOK DEF EventType
  <2>6. RunsOK(running', source')
    BY <2>3, <2>4, RunsStay DEF PathOK, RunsOK, Without
  <2>7. QED BY <2>3, <2>4, <2>5, <2>6 DEF PathOK, Keeps
<1>7. ASSUME NEW w \in SourceWorkers, Fail(w) PROVE PathOK'
  <2> DEFINE j == running[w].job
  <2>1. j \in Jobs /\ source[j].state = "active" /\ source' = FailedOnce(j)
    BY <1>7 DEF Fail, Ends, PathOK, RunsOK, Run
  <2>2. running' = Without(running, w) /\ Listen("workerJobFailed", j)
        /\ UNCHANGED <<spent, cancels, sourceFaults, eventJob>>
    BY <1>7 DEF Fail, vars
  <2>3. extras' \in 0 .. MaxExtras
    BY <1>7, PipelineAssumption DEF Fail, Extra, PathOK
  <2> HIDE DEF j
  <2>4. Keeps(source, source') /\ source'[j].state # "absent"
    BY <2>1, FailedAgain DEF PathOK
  <2>5. CallsOK(calls', source') /\ DOMAIN calls' \subseteq EventIds \ DOMAIN eventJob'
    BY <2>1, <2>2, <2>4, ListenOK DEF EventType
  <2>6. RunsOK(running', source')
    BY <2>2, <2>4, RunsStay DEF PathOK, RunsOK, Without
  <2>7. QED BY <2>2, <2>3, <2>4, <2>5, <2>6 DEF PathOK, Keeps
<1>8. ASSUME NEW w \in SourceWorkers, Refused(w) \/ SourceCrash(w) PROVE PathOK'
  <2>1. running' = Without(running, w) /\ UNCHANGED <<source, calls, spent, cancels, extras, eventJob>>
    BY <1>8 DEF Refused, SourceCrash, vars
  <2>2. sourceFaults' \in 0 .. MaxFaults
    BY <1>8, ProcessorAssumption DEF Refused, SourceCrash, SourceFault, FaultsLeft, PathOK, TypeOK
  <2>3. QED BY <2>1, <2>2 DEF PathOK, RunsOK, Without
<1>9. ASSUME NEW e \in EventIds, AskState(e) PROVE PathOK'
  <2> DEFINE c == [calls[e] EXCEPT !.pc = "add", !.state = GetState(calls[e].job)]
  <2>1. CallOK(calls[e], source) /\ calls[e].pc = "getState"
    BY <1>9 DEF AskState, PathOK, CallsOK
  <2>2. GetState(calls[e].job) \in Answer
    BY <2>1 DEF CallOK, Call, GetState, Answer, PathOK, SourceOK, SourceJob, SourceState
  <2>3. CallOK(c, source)
    BY <2>1, <2>2 DEF CallOK, Call
  <2>4. calls' = [calls EXCEPT ![e] = c]
        /\ UNCHANGED <<source, running, spent, cancels, extras, sourceFaults, eventJob>>
    BY <1>9 DEF AskState, vars
  <2> HIDE DEF c
  <2>5. QED BY <2>3, <2>4 DEF PathOK, CallsOK
<1>10. ASSUME NEW e \in EventIds, AddEvent(e) PROVE PathOK'
  <2>1. calls' = Without(calls, e) /\ DOMAIN eventJob' = DOMAIN eventJob \cup {e}
        /\ UNCHANGED <<source, running, spent, cancels, extras, sourceFaults>>
    BY <1>10 DEF AddEvent, EmitEvent, With
  <2>2. QED BY <2>1 DEF PathOK, CallsOK, Without
<1>11. ASSUME NEW e \in EventIds, LoseEvent(e) PROVE PathOK'
  <2>1. calls' = Without(calls, e) /\ UNCHANGED <<source, running, spent, cancels, extras, eventJob>>
    BY <1>11 DEF LoseEvent, vars
  <2>2. sourceFaults' \in 0 .. MaxFaults
    BY <1>11, ProcessorAssumption DEF LoseEvent, SourceFault, FaultsLeft, PathOK, TypeOK
  <2>3. QED BY <2>1, <2>2 DEF PathOK, CallsOK, Without
<1>12. ASSUME NEW w \in Workers, DelaySource(w) \/ DelayThrows(w), MoveSource(w) PROVE PathOK'
  <2> DEFINE j == Data(w).job
  <2>1. j \in Jobs
    BY <1>12, DataType DEF DelaySource, DelayThrows, At, TypeOK, EventData
  <2>2. source[j].state = "active" /\ source' = [source EXCEPT ![j].state = "delayed"]
        /\ Listen("queueJobDelayed", j)
        /\ UNCHANGED <<running, spent, cancels, extras, sourceFaults, eventJob>>
    BY <1>12 DEF MoveSource, DelaySource, DelayThrows, MoveToDelay
  <2> HIDE DEF j
  <2>3. Keeps(source, source') /\ source'[j].state = "delayed"
    BY <2>1, <2>2, Moved DEF PathOK, SourceState
  <2>4. CallsOK(calls', source') /\ DOMAIN calls' \subseteq EventIds \ DOMAIN eventJob'
    BY <2>1, <2>2, <2>3, ListenOK DEF EventType
  <2>5. QED BY <2>2, <2>3, <2>4, RunsStay DEF PathOK, Keeps
<1>13. ASSUME NEW w \in Workers,
              HandleOwn(w) \/ (DelayThrows(w) /\ ~ MoveSource(w)) \/ DelayNothing(w)
                \/ \E e \in EventIds : Deliver(w, e)
       PROVE  PathOK'
  <2>1. UNCHANGED sourceVars
    BY <1>13 DEF HandleOwn, DelayThrows, DelayNothing, Deliver, sourceVars
  <2>2. DOMAIN eventJob' = DOMAIN eventJob
    BY <1>13, SameEvents DEF HandleEvent
  <2>3. QED BY <1>1, <2>1, <2>2 DEF sourceVars, PathOK
<1>14. ASSUME NEW w \in Workers, FetchSourceJob(w) \/ FetchFails(w) \/ CancelSource(w) PROVE PathOK'
  <2>1. sourceFaults' \in 0 .. MaxFaults
    <3>1. CASE FetchFails(w)
      BY <3>1, ProcessorAssumption DEF FetchFails, SourceFault, FaultsLeft, PathOK, TypeOK
    <3>2. CASE FetchSourceJob(w) \/ CancelSource(w)
      BY <3>2 DEF FetchSourceJob, CancelSource, PathOK
    <3>3. QED BY <1>14, <3>1, <3>2
  <2>2. UNCHANGED <<source, running, calls, extras>> /\ spent' \subseteq Workers
    BY <1>14 DEF FetchSourceJob, CancelSource, FetchFails, PathOK
  <2>3. cancels' \subseteq DOMAIN eventJob
    <3>1. CASE CancelSource(w)
      <4>1. attempt[w].event \in DOMAIN eventJob /\ cancels' = cancels \cup {attempt[w].event}
        BY <3>1 DEF CancelSource, At, TypeOK, AttemptTypeOK
      <4>2. QED BY <4>1 DEF PathOK
    <3>2. CASE FetchSourceJob(w) \/ FetchFails(w)
      BY <3>2 DEF FetchSourceJob, FetchFails, PathOK
    <3>3. QED BY <1>14, <3>1, <3>2
  <2>4. DOMAIN eventJob' = DOMAIN eventJob
    BY <1>14, SameEvents DEF HandleEvent
  <2>5. QED BY <1>1, <2>1, <2>2, <2>3, <2>4
<1>15. ASSUME Elsewhere \/ \E e \in EventIds : Redeliver(e)
       PROVE  PathOK'
  <2>1. UNCHANGED sourceVars
    BY <1>15 DEF Elsewhere, Redeliver
  <2>2. QED BY <1>1, <1>15, <2>1, SameEventsInTrouble DEF sourceVars, PathOK
<1>16. ASSUME UNCHANGED pipelineVars PROVE PathOK'
  BY <1>1, <1>16 DEF pipelineVars, sourceVars, vars, PathOK
<1>17. ASSUME NEW w \in SourceWorkers, LoseLock(w) PROVE PathOK'
  <2>1. running' = [running EXCEPT ![w].locked = FALSE]
        /\ UNCHANGED <<source, calls, spent, cancels, extras, eventJob>>
    BY <1>17 DEF LoseLock, vars
  <2>2. sourceFaults' \in 0 .. MaxFaults
    BY <1>17, ProcessorAssumption DEF LoseLock, SourceFault, FaultsLeft, PathOK, TypeOK
  <2>3. RunsOK(running', source)
    <3> DEFINE run == [running[w] EXCEPT !.locked = FALSE]
    <3>1. run \in Run /\ run.job = running[w].job
      BY <1>17 DEF LoseLock, PathOK, RunsOK, Run
    <3>2. running' = [running EXCEPT ![w] = run]
      BY <2>1
    <3> HIDE DEF run
    <3>3. QED BY <3>1, <3>2 DEF PathOK, RunsOK
  <2>4. QED BY <2>1, <2>2, <2>3 DEF PathOK
<1>18. ASSUME NEW e \in EventIds, CancelSucceeds(e) PROVE PathOK'
  <2> DEFINE j == eventJob[e].data.job
  <2>1. j \in Jobs
    BY <1>18 DEF CancelSucceeds, PathOK, TypeOK, EventJobTypeOK, EventJob, EventData
  <2>2. source[j].state = "active" /\ source' = FailedOnce(j) /\ cancels' \subseteq cancels
        /\ UNCHANGED <<running, calls, spent, extras, sourceFaults, eventJob>>
    BY <1>18 DEF CancelSucceeds, vars
  <2> HIDE DEF j
  <2>3. Keeps(source, source')
    BY <2>1, <2>2, FailedAgain DEF PathOK
  <2>4. QED BY <2>2, <2>3, CallsStay, RunsStay DEF PathOK, Keeps
<1>19. ASSUME NEW e \in EventIds, CancelFails(e) PROVE PathOK'
  <2>1. cancels' \subseteq cancels
        /\ UNCHANGED <<source, running, calls, spent, extras, sourceFaults, eventJob>>
    BY <1>19 DEF CancelFails, vars
  <2>2. QED BY <2>1 DEF PathOK
<1>20. QED
  BY <1>2, <1>3, <1>4, <1>5, <1>6, <1>7, <1>8, <1>9, <1>10, <1>11, <1>12, <1>13, <1>14, <1>15, <1>16,
     <1>17, <1>18, <1>19
     DEF PipelineNext, SourceQueueStep, SourceWorkerStep, ListenerStep, HandleEvent, DelaySource

-----------------------------------------------------------------------------
(* The processor's invariant and the path's own, together.                 *)
LEMMA PipelineInvariant == PipelineSpec => []PipelineInv
<1>1. PipelineInit => PipelineInv
  BY TypeInit, PipelineAssumption, ProcessorAssumption
     DEF PipelineInit, PipelineInv, PathOK, SourceOK, SourceJob, SourceState, RunsOK, CallsOK
<1>2. PipelineInv /\ [PipelineNext]_pipelineVars => PipelineInv'
  BY ProcessorStep, TypeStep, PathStep DEF PipelineInv
<1>3. QED BY <1>1, <1>2, PTL DEF PipelineSpec

(* PipelineTypeOK: source jobs have the attempts and states of BullMQ, and *)
(* no call has the id of an event that was added.                          *)
THEOREM PathTypeCorrect == PipelineSpec => []PipelineTypeOK
<1>1. PipelineInv => PipelineTypeOK
  BY DEF PipelineInv, PathOK, PipelineTypeOK, SourceOK, RunsOK, CallsOK, CallOK
<1>2. QED BY <1>1, PipelineInvariant, PTL

(* ImplementsProcessor: the source queue, its workers and listeners are an *)
(* environment of the event processor, whatever races or is lost there.    *)
THEOREM ProcessorImplemented == PipelineSpec => ImplementsProcessor
<1>1. PipelineInit => Init
  BY DEF PipelineInit
<1>2. QED BY <1>1, ProcessorStep, PipelineInvariant, PTL DEF PipelineSpec, ImplementsProcessor, Spec

(* RecordedOnce: so the events of real runs, too, are in their job's       *)
(* history at most once.                                                   *)
THEOREM RunsRecordedOnce == PipelineSpec => []RecordedOnce
BY ProcessorImplemented, HistoryOnce, PTL DEF ImplementsProcessor

(* ImplementsHistory: and what those runs leave in the store is a history  *)
(* of the abstract kind.                                                   *)
THEOREM RunsMakeHistory == PipelineSpec => ImplementsHistory
BY ProcessorImplemented, HistoryImplemented, PTL DEF ImplementsProcessor
-----------------------------------------------------------------------------
(* RunsAreTracked.  Until something fails, a job that a worker took is     *)
(* told of by a call or an event of onActive's until it is tracked, and an *)
(* event that is given up is one of a job that is tracked.                 *)

FaultFree == faults = 0 /\ sourceFaults = 0
IsOpening(c) == c.type = "workerJobActive"

ToldOf(j) ==
  \/ j \in DOMAIN jobs
  \/ \E e \in DOMAIN calls : IsOpening(calls[e]) /\ calls[e].job = j
  \/ \E e \in DOMAIN eventJob : IsOpening(eventJob[e].data) /\ eventJob[e].data.job = j

(* An event job that is active is being handled, by a worker with its lock.*)
Attended == \A e \in DOMAIN eventJob : Status(e, "active") => \E w \in DOMAIN attempt : Locked(w, e)

GivenUpTracked ==
  /\ \A e \in DOMAIN eventJob :
       Status(e, "failed") /\ IsOpening(eventJob[e].data) => eventJob[e].data.job \in DOMAIN jobs
  /\ \A w \in DOMAIN attempt :
       attempt[w].pc = "throw" /\ IsOpening(Data(w)) => Data(w).job \in DOMAIN jobs

OnTheWay == Attended /\ GivenUpTracked /\ \A j \in Jobs : source[j].taken => ToldOf(j)
TrackInv == PipelineInv /\ ActiveInv /\ (FaultFree => OnTheWay)

(* A fault is never taken back.                                            *)
LEMMA FaultsStay ==
  ASSUME PipelineInv, [PipelineNext]_pipelineVars
  PROVE  FaultFree' => FaultFree /\ UNCHANGED <<faults, sourceFaults>>
<1> USE DEF FaultFree, PipelineInv, TypeOK, PathOK
<1>1. faults' = 0 => faults = 0
  <2>1. ASSUME NEW w \in Workers, Handle(w) PROVE UNCHANGED faults
    BY <2>1 DEF Handle, OnActiveFind, TakeTime, OnActiveTrack, OnActiveTrackRefused, OnDelayedFind,
       FetchJobAndLog, UpdateExists, MoveToDelay, UpdateRead, UpdateWrite, UpdateWriteRefused,
       Ack, Throw
  <2>2. ASSUME NEW w \in Workers, DatabaseError(w) \/ ReplyLost(w) \/ Crash(w) PROVE Fault
    BY <2>2 DEF DatabaseError, ReplyLost, Crash
  <2>3. Fault => faults' # 0
    BY ProcessorAssumption DEF Fault
  <2>4. QED
    BY <2>1, <2>2, <2>3, ProcessorStep
       DEF Next, Process, StallAbandoned, StallAlive, ClockTick, Emit, EmitEvent, vars
<1>2. sourceFaults' = 0 => sourceFaults = 0
  <2>1. SourceFault => sourceFaults' # 0
    BY DEF SourceFault
  <2>2. ASSUME NEW j \in Jobs, AddJob(j) \/ SourceQueueStep(j) PROVE UNCHANGED sourceFaults
    BY <2>2 DEF AddJob, SourceQueueStep, OnStalled, OnFailedUndefined, Promote
  <2>3. ASSUME NEW w \in SourceWorkers, SourceWorkerStep(w) \/ ReportProgress(w)
        PROVE  UNCHANGED sourceFaults
    BY <2>3 DEF SourceWorkerStep, Take, Complete, Fail, Refused, ReportProgress
  <2>4. ASSUME NEW w \in Workers, HandleEvent(w) PROVE UNCHANGED sourceFaults
    BY <2>4 DEF HandleEvent, HandleOwn, FetchSourceJob, DelaySource, DelayThrows, DelayNothing,
       CancelSource, sourceVars
  <2>5. ASSUME NEW e \in EventIds, ListenerStep(e) \/ Redeliver(e) \/ CancelSucceeds(e) \/ CancelFails(e)
                                     \/ \E w \in Workers : Deliver(w, e)
        PROVE  UNCHANGED sourceFaults
    BY <2>5 DEF ListenerStep, AskState, AddEvent, Redeliver, CancelSucceeds, CancelFails, Deliver,
       sourceVars
  <2>6. Elsewhere \/ UNCHANGED pipelineVars => UNCHANGED sourceFaults
    BY DEF Elsewhere, pipelineVars, sourceVars
  <2>7. QED
    BY <2>1, <2>2, <2>3, <2>4, <2>5, <2>6
       DEF PipelineNext, SourceCrash, LoseLock, LoseEvent, FetchFails
<1>3. QED BY <1>1, <1>2

(* Without a fault, an active event's handler throws only once its job is  *)
(* tracked: a create or an update that is refused finds the record there.  *)
LEMMA ThrowsTracked ==
  ASSUME ActiveInv, GivenUpTracked, [Next]_vars, UNCHANGED faults, faults = 0,
         NEW v \in DOMAIN attempt', attempt'[v].pc = "throw", IsOpening(Data(v)')
  PROVE  Data(v)'.job \in DOMAIN jobs'
<1>1. TypeOK
  BY DEF ActiveInv, HistoryInv
<1>2. ~ Starts(v)
  <2> SUFFICES ASSUME Starts(v) PROVE FALSE
    OBVIOUS
  <2>1. Data(v)' = eventJob[attempt'[v].event].data
    BY <1>1, DataStep DEF Starts, Data
  <2> QED BY <2>1 DEF Starts, FirstStep, IsOpening
<1>3. GoesOn(v)
  BY <1>1, <1>2, AttemptStep
<1>4. v \in DOMAIN attempt /\ attempt[v].event \in DOMAIN eventJob /\ attempt[v] \in Attempt
  BY <1>1, <1>3 DEF GoesOn, TypeOK, AttemptTypeOK
<1>5. Data(v)' = Data(v)
  BY <1>1, <1>3, <1>4, DataStep DEF GoesOn, Data
<1>6. IsOpening(Data(v)) /\ HandlerOK(v)
  BY <1>4, <1>5 DEF ActiveInv
<1>7. Data(v).job \in DOMAIN jobs
  <2>1. CASE attempt[v].pc = "throw"
    BY <1>4, <1>6, <2>1 DEF GivenUpTracked
  <2>2. CASE attempt[v].pc # "throw"
    <3>1. attempt' # attempt
      BY <2>2
    <3>2. ASSUME NEW w \in Workers, NEW e \in EventIds, Process(w, e) PROVE FALSE
      <4>1. w # v
        BY <1>4, <3>2 DEF Process
      <4> QED BY <2>2, <3>2, <4>1 DEF Process, With
    <3>3. ASSUME NEW w \in Workers, Handle(w) PROVE Data(v).job \in DOMAIN jobs
      <4>1. w = v
        BY <1>1, <2>2, <3>3, HandleOthers
      <4>2. CASE OnActiveTrackRefused(v)
        BY <4>2 DEF OnActiveTrackRefused, JobIsNew
      <4>3. ~ OnDelayedFind(v) /\ \A moved \in BOOLEAN : ~ MoveToDelay(v, moved)
        BY <1>6 DEF HandlerOK, IsOpening, OnDelayedFind, MoveToDelay, At
      <4>4. CASE UpdateRead(v) \/ UpdateWriteRefused(v)
        BY <1>6, <4>4 DEF HandlerOK, UpdateRead, UpdateWriteRefused, At
      <4>5. ~ Ack(v) /\ ~ Throw(v)
        BY DEF Ack, Throw, Without
      <4>6. ~ OnActiveFind(v) /\ ~ TakeTime(v) /\ ~ OnActiveTrack(v) /\ ~ UpdateWrite(v)
        BY <1>4 DEF OnActiveFind, TakeTime, OnActiveTrack, UpdateWrite, Goto, Attempt
      <4>7. ~ UpdateExists(v)
        <5>1. UpdateExists(v) => attempt'[v].pc \in {"updateTime", "delay"}
          BY <1>4 DEF UpdateExists, Attempt
        <5> QED BY <5>1
      <4>8. ASSUME NEW b \in BOOLEAN, FetchJobAndLog(v, b) PROVE FALSE
        <5>1. attempt'[v].pc = "exists"
          BY <1>4, <4>8 DEF FetchJobAndLog, At, Attempt
        <5> QED BY <5>1
      <4> QED BY <3>3, <4>1, <4>2, <4>3, <4>4, <4>5, <4>6, <4>7, <4>8 DEF Handle
    <3>4. ASSUME NEW w \in Workers, DatabaseError(w) \/ ReplyLost(w) \/ Crash(w) PROVE FALSE
      BY <1>1, <3>4 DEF DatabaseError, ReplyLost, Crash, Fault, TypeOK
    <3>5. ASSUME NEW e \in EventIds, StallAbandoned(e) \/ StallAlive(e) PROVE FALSE
      BY <1>1, <1>4, <2>2, <3>5 DEF StallAbandoned, StallAlive, Stall, TypeOK, AttemptTypeOK, Attempt
    <3>6. QED
      BY <3>1, <3>2, <3>3, <3>4, <3>5 DEF Next, Emit, EmitEvent, ClockTick, vars
  <2>3. QED BY <2>1, <2>2
<1>8. QED BY <1>5, <1>7, StoreGrows

(* Without a fault, an event job fails when its handler throws for the     *)
(* last time: a stall needs a worker that died.                            *)
LEMMA FailedStep ==
  ASSUME TypeOK, Attended, [Next]_vars, UNCHANGED faults, NEW e, Status(e, "failed")'
  PROVE  \/ Status(e, "failed")
         \/ \E w \in DOMAIN attempt : attempt[w].event = e /\ attempt[w].pc = "throw"
<1> USE DEF TypeOK, EventJobTypeOK, EventJob, Status
<1>1. CASE UNCHANGED eventJob
  BY <1>1
<1>2. CASE Emit
  BY <1>2 DEF Emit, EmitEvent, With
<1>3. ASSUME NEW w \in Workers, NEW x \in EventIds, Process(w, x)
      PROVE  Status(e, "failed")
  BY <1>3 DEF Process
<1>4. ASSUME NEW w \in Workers, Ack(w)
      PROVE  Status(e, "failed")
  BY <1>4 DEF Ack
<1>5. ASSUME NEW w \in Workers, Throw(w)
      PROVE  \/ Status(e, "failed")
             \/ w \in DOMAIN attempt /\ attempt[w].event = e /\ attempt[w].pc = "throw"
  <2>1. CASE w \in DOMAIN attempt /\ attempt[w].event = e
    BY <1>5, <2>1 DEF Throw, At
  <2>2. CASE ~ (w \in DOMAIN attempt /\ attempt[w].event = e)
    BY <1>5, <2>2, ThrowStep
  <2> QED BY <2>1, <2>2
<1>6. ASSUME NEW w \in Workers, Handle(w), ~ Ack(w), ~ Throw(w)
      PROVE  UNCHANGED eventJob
  BY <1>6 DEF Handle, OnActiveFind, OnActiveTrack, OnActiveTrackRefused, OnDelayedFind,
     FetchJobAndLog, UpdateExists, MoveToDelay, UpdateRead, UpdateWrite,
     UpdateWriteRefused, TakeTime
<1>7. ASSUME NEW x \in EventIds, StallAbandoned(x) \/ StallAlive(x) PROVE FALSE
  BY <1>7 DEF StallAbandoned, StallAlive, Abandoned, Attended, Locked, Fault
<1>8. QED
  BY <1>1, <1>2, <1>3, <1>4, <1>5, <1>6, <1>7
     DEF Next, DatabaseError, ReplyLost, Crash, ClockTick, vars

(* A handler that goes on does so with the event and the lock that it has. *)
LEMMA HandleKeepsLock ==
  ASSUME TypeOK, NEW w \in Workers, Handle(w), ~ Ack(w), ~ Throw(w)
  PROVE  \A v \in DOMAIN attempt : v \in DOMAIN attempt'
           /\ attempt'[v].event = attempt[v].event /\ attempt'[v].locked = attempt[v].locked
<1> DEFINE Kept == \A v \in DOMAIN attempt : v \in DOMAIN attempt'
             /\ attempt'[v].event = attempt[v].event /\ attempt'[v].locked = attempt[v].locked
<1> USE DEF TypeOK, AttemptTypeOK, Attempt
<1>1. ASSUME NEW pc, Goto(w, pc) PROVE Kept
  BY <1>1 DEF Goto
<1>2. CASE TakeTime(w)
  BY <1>2 DEF TakeTime
<1>3. ASSUME NEW b \in BOOLEAN, FetchJobAndLog(w, b) PROVE Kept
  BY <1>3 DEF FetchJobAndLog
<1>4. CASE UpdateExists(w)
  BY <1>4 DEF UpdateExists
<1>5. CASE UpdateRead(w)
  BY <1>5 DEF UpdateRead
<1>6. ASSUME NEW b \in BOOLEAN, MoveToDelay(w, b) PROVE Kept
  BY <1>1, <1>6 DEF MoveToDelay
<1>7. CASE OnActiveFind(w) \/ OnActiveTrack(w) \/ OnActiveTrackRefused(w) \/ OnDelayedFind(w)
           \/ UpdateWrite(w) \/ UpdateWriteRefused(w)
  <2>1. PICK pc : Goto(w, pc)
    BY <1>7 DEF OnActiveFind, OnActiveTrack, OnActiveTrackRefused, OnDelayedFind, UpdateWrite,
       UpdateWriteRefused
  <2> QED BY <1>1, <2>1
<1> QED BY <1>2, <1>3, <1>4, <1>5, <1>6, <1>7 DEF Handle

(* The worker with an event's lock keeps it until the event job leaves the *)
(* active state, when nothing fails.                                       *)
LEMMA AttendedStep ==
  ASSUME TypeOK, Attended, [Next]_vars, UNCHANGED faults
  PROVE  Attended'
<1> SUFFICES ASSUME NEW e, Status(e, "active")' PROVE \E w \in DOMAIN attempt' : Locked(w, e)'
  BY DEF Attended
<1> USE DEF Status
<1>1. ASSUME Status(e, "active"),
             \A w \in DOMAIN attempt : attempt[w].event = e /\ attempt[w].locked =>
               /\ w \in DOMAIN attempt'
               /\ attempt'[w].event = attempt[w].event /\ attempt'[w].locked = attempt[w].locked
      PROVE  \E w \in DOMAIN attempt' : Locked(w, e)'
  BY <1>1 DEF Attended, Locked
<1>2. CASE Emit
  <2>1. Status(e, "active") /\ attempt' = attempt
    BY <1>2 DEF Emit, EmitEvent, With
  <2> QED BY <1>1, <2>1
<1>3. ASSUME NEW w \in Workers, NEW x \in EventIds, Process(w, x)
      PROVE  \E v \in DOMAIN attempt' : Locked(v, e)'
  <2> DEFINE a == [event |-> x, pc |-> FirstStep(eventJob[x].data), delayable |-> FALSE,
                   at |-> 0, last |-> 0, locked |-> TRUE]
  <2>1. a.event = x /\ a.locked /\ attempt' = With(attempt, w, a) /\ w \notin DOMAIN attempt
    BY <1>3 DEF Process
  <2> HIDE DEF a
  <2>2. w \in DOMAIN attempt' /\ attempt'[w] = a
        /\ \A v \in DOMAIN attempt : v \in DOMAIN attempt' /\ attempt'[v] = attempt[v]
    BY <2>1 DEF With
  <2>3. CASE e = x
    BY <2>1, <2>2, <2>3 DEF Locked
  <2>4. CASE e # x
    <3>1. Status(e, "active")
      BY <1>3, <2>4 DEF Process
    <3> QED BY <1>1, <2>2, <3>1
  <2> QED BY <2>3, <2>4
<1>4. ASSUME NEW w \in Workers, Ack(w) \/ Throw(w)
      PROVE  \E v \in DOMAIN attempt' : Locked(v, e)'
  <2>1. /\ w \in DOMAIN attempt
        /\ DOMAIN attempt' = DOMAIN attempt \ {w}
        /\ \A v \in DOMAIN attempt' : attempt'[v] = attempt[v]
    BY <1>4 DEF Ack, Throw, At, Without
  <2>2. /\ Status(e, "active")
        /\ attempt[w].locked => attempt[w].event # e
    <3>1. attempt[w].event \in DOMAIN eventJob
      BY <2>1 DEF TypeOK, AttemptTypeOK
    <3>2. CASE Ack(w)
      BY <3>1, <3>2 DEF Ack, HoldsLock, TypeOK, EventJobTypeOK, EventJob
    <3>3. CASE Throw(w)
      <4>1. CASE ~ HoldsLock(w)
        BY <3>3, <4>1 DEF Throw, HoldsLock
      <4>2. CASE HoldsLock(w) /\ e = attempt[w].event
        <5>1. eventJob[e] \in EventJob
          BY <3>1, <4>2 DEF TypeOK, EventJobTypeOK
        <5>2. eventJob'[e].status # "active"
          BY <3>1, <3>3, <4>2, <5>1 DEF Throw, EventJob
        <5> QED BY <5>2
      <4>3. CASE HoldsLock(w) /\ e # attempt[w].event
        BY <3>3, <4>3, ThrowStep
      <4> QED BY <4>1, <4>2, <4>3
    <3> QED BY <1>4, <3>2, <3>3
  <2> QED BY <1>1, <2>1, <2>2
<1>5. ASSUME NEW w \in Workers, Handle(w), ~ Ack(w), ~ Throw(w)
      PROVE  \E v \in DOMAIN attempt' : Locked(v, e)'
  <2>1. UNCHANGED eventJob
    BY <1>5 DEF Handle, OnActiveFind, OnActiveTrack, OnActiveTrackRefused, OnDelayedFind,
       FetchJobAndLog, UpdateExists, MoveToDelay, UpdateRead, UpdateWrite,
       UpdateWriteRefused, TakeTime
  <2>2. \A v \in DOMAIN attempt : v \in DOMAIN attempt'
          /\ attempt'[v].event = attempt[v].event /\ attempt'[v].locked = attempt[v].locked
    BY <1>5, HandleKeepsLock
  <2> QED BY <1>1, <2>1, <2>2
<1>6. ASSUME NEW w \in Workers, DatabaseError(w) \/ ReplyLost(w) \/ Crash(w) PROVE FALSE
  BY <1>6 DEF DatabaseError, ReplyLost, Crash, Fault, TypeOK
<1>7. ASSUME NEW x \in EventIds, StallAbandoned(x) \/ StallAlive(x) PROVE FALSE
  BY <1>7 DEF StallAbandoned, StallAlive, Abandoned, Attended, Locked, Fault, TypeOK
<1>8. CASE ClockTick \/ UNCHANGED vars
  BY <1>1, <1>8 DEF ClockTick, vars
<1> QED BY <1>2, <1>3, <1>4, <1>5, <1>6, <1>7, <1>8 DEF Next

LEMMA GivenUpStep ==
  ASSUME ActiveInv, Attended, GivenUpTracked, [Next]_vars, UNCHANGED faults, faults = 0
  PROVE  GivenUpTracked'
<1>1. TypeOK
  BY DEF ActiveInv, HistoryInv
<1>2. ASSUME NEW e, Status(e, "failed")', IsOpening(eventJob'[e].data)
      PROVE  eventJob'[e].data.job \in DOMAIN jobs'
  <2>1. CASE Status(e, "failed")
    <3>1. e \in DOMAIN eventJob /\ eventJob'[e].data = eventJob[e].data
      BY <1>1, <2>1, DataStep DEF Status
    <3> QED BY <1>2, <2>1, <3>1, StoreGrows DEF GivenUpTracked
  <2>2. ASSUME NEW w \in DOMAIN attempt, attempt[w].event = e, attempt[w].pc = "throw"
        PROVE  eventJob'[e].data.job \in DOMAIN jobs'
    <3>1. e \in DOMAIN eventJob /\ eventJob'[e].data = Data(w)
      BY <1>1, <2>2, DataStep DEF Data, TypeOK, AttemptTypeOK
    <3> QED BY <1>2, <2>2, <3>1, StoreGrows DEF GivenUpTracked
  <2> QED BY <1>1, <1>2, <2>1, <2>2, FailedStep
<1>3. ASSUME NEW w \in DOMAIN attempt', attempt'[w].pc = "throw", IsOpening(Data(w)')
      PROVE  Data(w)'.job \in DOMAIN jobs'
  BY <1>3, ThrowsTracked
<1> QED BY <1>2, <1>3 DEF GivenUpTracked

-----------------------------------------------------------------------------
(* A call goes on to the event job that tells the same, or is lost.        *)
LEMMA CallGoesOn ==
  ASSUME PipelineInv, [PipelineNext]_pipelineVars, UNCHANGED sourceFaults,
         NEW e \in DOMAIN calls
  PROVE  \/ /\ e \in DOMAIN calls'
            /\ calls'[e].type = calls[e].type /\ calls'[e].job = calls[e].job
         \/ /\ e \in DOMAIN eventJob'
            /\ eventJob'[e].data.type = calls[e].type /\ eventJob'[e].data.job = calls[e].job
<1> USE DEF PipelineInv
<1>1. sourceFaults # sourceFaults + 1
  BY DEF PathOK
<1>2. ASSUME UNCHANGED calls
      PROVE  e \in DOMAIN calls' /\ calls'[e] = calls[e]
  BY <1>2
<1>3. ASSUME NEW type, NEW j, Listen(type, j)
      PROVE  e \in DOMAIN calls' /\ calls'[e] = calls[e]
  BY <1>3 DEF Listen, FreshIds, With
<1>4. ASSUME NEW j \in Jobs, AddJob(j) \/ SourceQueueStep(j)
      PROVE  e \in DOMAIN calls' /\ calls'[e] = calls[e]
  BY <1>2, <1>3, <1>4 DEF AddJob, SourceQueueStep, OnStalled, OnFailedUndefined, Promote
<1>5. ASSUME NEW w \in SourceWorkers,
             SourceWorkerStep(w) \/ ReportProgress(w) \/ SourceCrash(w) \/ LoseLock(w)
      PROVE  e \in DOMAIN calls' /\ calls'[e] = calls[e]
  BY <1>2, <1>3, <1>5
     DEF SourceWorkerStep, Take, Complete, Fail, Refused, ReportProgress, SourceCrash, LoseLock
<1>6. ASSUME NEW x \in EventIds, AskState(x)
      PROVE  /\ e \in DOMAIN calls'
             /\ calls'[e].type = calls[e].type /\ calls'[e].job = calls[e].job
  BY <1>6 DEF AskState, PathOK, CallsOK, CallOK, Call
<1>7. ASSUME NEW x \in EventIds, AddEvent(x), x # e
      PROVE  e \in DOMAIN calls' /\ calls'[e] = calls[e]
  BY <1>7 DEF AddEvent, Without
<1>8. ASSUME AddEvent(e)
      PROVE  /\ e \in DOMAIN eventJob'
             /\ eventJob'[e].data.type = calls[e].type /\ eventJob'[e].data.job = calls[e].job
  BY <1>8 DEF AddEvent, EmitEvent, CallContent, With
<1>9. ~ \E x \in EventIds : LoseEvent(x)
  BY <1>1 DEF LoseEvent, SourceFault
<1>10. ASSUME NEW w \in Workers, HandleEvent(w) \/ FetchFails(w) \/ \E x \in EventIds : Deliver(w, x)
       PROVE  e \in DOMAIN calls' /\ calls'[e] = calls[e]
  BY <1>2, <1>3, <1>10 DEF HandleEvent, HandleOwn, FetchSourceJob, FetchFails, DelaySource,
     DelayThrows, MoveSource, DelayNothing, CancelSource, Deliver, sourceVars
<1>11. ASSUME Elsewhere \/ UNCHANGED pipelineVars
              \/ \E x \in EventIds : Redeliver(x) \/ CancelSucceeds(x) \/ CancelFails(x)
       PROVE  e \in DOMAIN calls' /\ calls'[e] = calls[e]
  BY <1>2, <1>11 DEF Elsewhere, Redeliver, CancelSucceeds, CancelFails, sourceVars, pipelineVars
<1> QED
  BY <1>4, <1>5, <1>6, <1>7, <1>8, <1>9, <1>10, <1>11 DEF PipelineNext, ListenerStep

(* What is told of a job is told until it is tracked.                      *)
LEMMA ToldStays ==
  ASSUME PipelineInv, [PipelineNext]_pipelineVars, UNCHANGED sourceFaults,
         NEW j \in Jobs, ToldOf(j)
  PROVE  ToldOf(j)'
<1>1. [Next]_vars /\ TypeOK
  BY ProcessorStep DEF PipelineInv
<1>2. CASE j \in DOMAIN jobs
  BY <1>1, <1>2, StoreGrows DEF ToldOf
<1>3. ASSUME NEW e \in DOMAIN calls, IsOpening(calls[e]), calls[e].job = j PROVE ToldOf(j)'
  BY <1>3, CallGoesOn DEF ToldOf, IsOpening
<1>4. ASSUME NEW e \in DOMAIN eventJob, IsOpening(eventJob[e].data), eventJob[e].data.job = j
      PROVE  ToldOf(j)'
  BY <1>1, <1>4, DataStep DEF ToldOf, IsOpening
<1> QED BY <1>2, <1>3, <1>4 DEF ToldOf

(* A job is taken by a worker, whose listener starts with it.              *)
LEMMA TakenIsTold ==
  ASSUME PipelineInv, [PipelineNext]_pipelineVars, NEW j \in Jobs, source'[j].taken
  PROVE  source[j].taken \/ ToldOf(j)'
<1> USE DEF PipelineInv, PathOK, SourceOK, SourceJob
<1>1. ASSUME NEW k \in Jobs, NEW s, source' = [source EXCEPT ![k].state = s]
      PROVE  source[j].taken
  BY <1>1
<1>2. ASSUME NEW k \in Jobs, AddJob(k) \/ SourceQueueStep(k) PROVE source[j].taken
  BY <1>1, <1>2 DEF AddJob, SourceQueueStep, OnStalled, OnFailedUndefined, Promote
<1>3. ASSUME NEW w \in SourceWorkers, NEW k \in Jobs, Take(w, k)
      PROVE  source[j].taken \/ ToldOf(j)'
  <2>1. CASE k # j
    BY <1>3, <2>1 DEF Take
  <2>2. CASE k = j
    <3> DEFINE c == [type |-> "workerJobActive", job |-> j, state |-> Undefined,
                     pc |-> FirstCallStep("workerJobActive")]
    <3>1. PICK e : calls' = With(calls, e, c)
      BY <1>3, <2>2 DEF Take, Listen
    <3>2. e \in DOMAIN calls' /\ calls'[e] = c
      BY <3>1 DEF With
    <3>3. QED BY <3>2 DEF ToldOf, IsOpening
  <2> QED BY <2>1, <2>2
<1>4. ASSUME NEW w \in SourceWorkers, Complete(w) PROVE source[j].taken
  BY <1>4 DEF Complete, RunsOK
<1>5. ASSUME NEW k \in Jobs, source' = FailedOnce(k) PROVE source[j].taken
  <2> DEFINE n == Failures(k)
             s == IF IsRetried(k) THEN "waiting" ELSE "failed"
  <2>1. source' = [source EXCEPT ![k] = [@ EXCEPT !.failures = n, !.state = s]]
    BY <1>5 DEF FailedOnce
  <2> HIDE DEF n, s
  <2> QED BY <2>1
<1>6. ASSUME NEW w \in SourceWorkers, Fail(w) PROVE source[j].taken
  BY <1>5, <1>6 DEF Fail, RunsOK, Run
<1>11. ASSUME NEW e \in EventIds, CancelSucceeds(e) PROVE source[j].taken
  <2>1. eventJob[e].data.job \in Jobs
    BY <1>11 DEF CancelSucceeds, TypeOK, EventJobTypeOK, EventJob, EventData
  <2> QED BY <1>5, <1>11, <2>1 DEF CancelSucceeds
<1>12. ASSUME NEW w \in SourceWorkers,
              Refused(w) \/ ReportProgress(w) \/ SourceCrash(w) \/ LoseLock(w)
       PROVE  source[j].taken
  BY <1>12 DEF Refused, ReportProgress, SourceCrash, LoseLock
<1>7. ASSUME NEW e \in EventIds, ListenerStep(e) \/ LoseEvent(e) \/ Redeliver(e) \/ CancelFails(e)
      PROVE  source[j].taken
  BY <1>7 DEF ListenerStep, AskState, AddEvent, LoseEvent, Redeliver, CancelFails, sourceVars
<1>8. ASSUME NEW w \in Workers, DelaySource(w) \/ DelayThrows(w), MoveSource(w) PROVE source[j].taken
  <2>1. Data(w).job \in Jobs
    BY <1>8, DataType DEF DelaySource, DelayThrows, At, TypeOK, EventData
  <2> QED BY <1>1, <1>8, <2>1 DEF MoveSource
<1>9. ASSUME NEW w \in Workers, HandleOwn(w) \/ FetchSourceJob(w) \/ FetchFails(w)
                                \/ (DelayThrows(w) /\ ~ MoveSource(w)) \/ DelayNothing(w)
                                \/ CancelSource(w) \/ \E e \in EventIds : Deliver(w, e)
      PROVE  source[j].taken
  BY <1>9 DEF HandleOwn, FetchSourceJob, FetchFails, DelayThrows, DelayNothing, CancelSource,
     Deliver, sourceVars
<1>10. ASSUME Elsewhere \/ UNCHANGED pipelineVars PROVE source[j].taken
  BY <1>10 DEF Elsewhere, sourceVars, pipelineVars
<1> QED
  BY <1>2, <1>3, <1>4, <1>6, <1>7, <1>8, <1>9, <1>10, <1>11, <1>12
     DEF DelaySource, PipelineNext, SourceWorkerStep, HandleEvent

LEMMA TrackStep == TrackInv /\ [PipelineNext]_pipelineVars => TrackInv'
<1> SUFFICES ASSUME TrackInv, [PipelineNext]_pipelineVars PROVE TrackInv'
  OBVIOUS
<1>1. PipelineInv /\ ActiveInv /\ TypeOK /\ [Next]_vars
  BY ProcessorStep DEF TrackInv, PipelineInv
<1>2. PipelineInv' /\ ActiveInv'
  BY <1>1, TypeStep, PathStep, ActiveStep DEF PipelineInv
<1>3. ASSUME FaultFree' PROVE OnTheWay'
  <2>1. FaultFree /\ UNCHANGED <<faults, sourceFaults>>
    BY <1>1, <1>3, FaultsStay
  <2>2. OnTheWay /\ faults = 0
    BY <2>1 DEF TrackInv, FaultFree
  <2>3. Attended'
    BY <1>1, <2>1, <2>2, AttendedStep DEF OnTheWay
  <2>4. GivenUpTracked'
    BY <1>1, <2>1, <2>2, GivenUpStep DEF OnTheWay
  <2>5. ASSUME NEW j \in Jobs, source'[j].taken PROVE ToldOf(j)'
    BY <1>1, <2>1, <2>2, <2>5, ToldStays, TakenIsTold DEF OnTheWay
  <2> QED BY <2>3, <2>4, <2>5 DEF OnTheWay
<1> QED BY <1>2, <1>3 DEF TrackInv

(* RunsAreTracked: as long as nothing fails, every job a worker ever took  *)
(* is tracked once its events have been dealt with.                        *)
THEOREM TakenJobsTracked == PipelineSpec => []RunsAreTracked
<1>1. PipelineInit => TrackInv
  <2> SUFFICES ASSUME PipelineInit PROVE TrackInv
    OBVIOUS
  <2>1. PipelineInv
    BY TypeInit, PipelineAssumption, ProcessorAssumption
       DEF PipelineInit, PipelineInv, PathOK, SourceOK, SourceJob, SourceState, RunsOK, CallsOK
  <2>2. ActiveInv
    BY TypeInit DEF PipelineInit, Init, StoreInit, ActiveInv, HistoryInv, TenantIsTheMessages,
       RecordedOnce, AckedActiveIsRecorded
  <2>3. OnTheWay
    BY DEF PipelineInit, Init, OnTheWay, Attended, GivenUpTracked
  <2> QED BY <2>1, <2>2, <2>3 DEF TrackInv
<1>2. TrackInv => RunsAreTracked
  <2> SUFFICES ASSUME TrackInv, Quiet, faults + sourceFaults = 0, NEW j \in Jobs, source[j].taken
               PROVE  j \in DOMAIN jobs
    BY DEF RunsAreTracked
  <2>1. OnTheWay
    BY DEF TrackInv, FaultFree, PipelineInv, TypeOK, PathOK
  <2>2. ASSUME NEW e \in DOMAIN eventJob, IsOpening(eventJob[e].data), eventJob[e].data.job = j
        PROVE  j \in DOMAIN jobs
    <3>1. CASE Status(e, "failed")
      BY <2>1, <2>2, <3>1 DEF OnTheWay, GivenUpTracked
    <3>2. CASE Status(e, "completed")
      <4>1. Recorded(e)
        BY <2>2, <3>2 DEF TrackInv, ActiveInv, AckedActiveIsRecorded, Status, IsOpening
      <4> QED BY <2>2, <4>1 DEF Recorded, TrackInv, ActiveInv, HistoryInv, TenantIsTheMessages
    <3> QED BY <2>2, <3>1, <3>2 DEF Quiet, Status
  <2> QED BY <2>1, <2>2 DEF OnTheWay, ToldOf, Quiet
<1> QED BY <1>1, <1>2, TrackStep, PTL DEF PipelineSpec

=============================================================================
