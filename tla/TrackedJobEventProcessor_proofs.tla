------------------- MODULE TrackedJobEventProcessor_proofs -------------------
(* What holds of the event processor for every set of jobs, events and     *)
(* workers, and every bound on attempts, stalls and faults.                *)
EXTENDS TrackedJobEventProcessor, TLAPS

(* A queue job's counters and status stay in their types, one by one.      *)
LEMMA EventJobFields ==
  ASSUME NEW ej \in EventJob
  PROVE  /\ \A s \in {"waiting", "active", "completed", "failed"} :
              [ej EXCEPT !.status = s] \in EventJob
         /\ \A n \in Nat : [ej EXCEPT !.attemptsMade = n] \in EventJob
         /\ \A k \in 0 .. MaxStalls : [ej EXCEPT !.stalls = k] \in EventJob
BY DEF EventJob

(* Moving a handler to another step keeps the type of the attempts.        *)
LEMMA GotoType ==
  ASSUME AttemptTypeOK, NEW w \in DOMAIN attempt, NEW s \in Step,
         Goto(w, s), UNCHANGED eventJob
  PROVE  AttemptTypeOK'
BY DEF AttemptTypeOK, Goto, Attempt

(* A handler that ends leaves well-typed attempts.                         *)
LEMMA WithoutType ==
  ASSUME AttemptTypeOK, NEW w, attempt' = Without(attempt, w),
         DOMAIN eventJob' = DOMAIN eventJob
  PROVE  AttemptTypeOK'
BY DEF AttemptTypeOK, Without

(* A running handler's event, and the tenants it uses, are in their types. *)
LEMMA DataType ==
  ASSUME EventJobTypeOK, AttemptTypeOK, NEW w \in DOMAIN attempt
  PROVE  /\ attempt[w].event \in EventIds
         /\ Data(w) \in EventData
         /\ UpdateTenant(Data(w)) \in Tenants
         /\ TenantOf[Data(w).job] \in Tenants
BY ProcessorAssumption DEF EventJobTypeOK, AttemptTypeOK, Attempt, Data, EventJob,
   EventData, UpdateTenant

(* trackJob keeps the tables well-typed.                                   *)
LEMMA TrackJobType ==
  ASSUME StoreTypeOK, NEW t \in Tenants, NEW j \in Jobs, NEW at \in Time,
         TrackJob(t, j, at)
  PROVE  StoreTypeOK'
<1> DEFINE rec == [tenant |-> t, state |-> "waiting", updatedAt |-> at]
           row == [tenant |-> t, job |-> j, id |-> CreationId,
                   event |-> "workerJobActive", state |-> "waiting", createdAt |-> at]
<1>1. jobs' = With(jobs, j, rec) /\ rows' = rows \cup {row} /\ now' = now
  BY DEF TrackJob
<1>2. rec \in TrackedQueueJob /\ row \in TrackedQueueJobEvent
  BY DEF StoreTypeOK, TrackedQueueJob, TrackedQueueJobEvent, JobState, EventType
<1> HIDE DEF rec, row
<1>3. DOMAIN jobs' \subseteq Jobs /\ \A k \in DOMAIN jobs' : jobs'[k] \in TrackedQueueJob
  BY <1>1, <1>2 DEF StoreTypeOK, With
<1>4. QED BY <1>1, <1>2, <1>3 DEF StoreTypeOK

(* So does updateTrackedJob: the state it stores is one of the enum.       *)
LEMMA UpdateTrackedJobType ==
  ASSUME StoreTypeOK, NEW t \in Tenants, NEW j \in Jobs, NEW id \in EventIds,
         NEW event \in EventType, NEW state, NEW at \in Time, NEW last \in Time,
         UpdateTrackedJob(t, j, id, event, state, at, last)
  PROVE  StoreTypeOK'
<1>1. j \in DOMAIN jobs /\ jobs[j].state \in JobState
  BY DEF UpdateTrackedJob, Writable, FindJobById, StoreTypeOK, TrackedQueueJob
<1>2. (IF state = Undefined THEN jobs[j].state ELSE state) \in JobState
  BY <1>1 DEF UpdateTrackedJob, Writable
<1>3. (IF state = Undefined THEN "unknown" ELSE state) \in JobState
  BY DEF UpdateTrackedJob, Writable, JobState
<1> DEFINE rec == [tenant |-> t, updatedAt |-> at,
                   state |-> IF state = Undefined THEN jobs[j].state ELSE state]
<1>4. DOMAIN jobs' \subseteq Jobs /\ \A k \in DOMAIN jobs' : jobs'[k] \in TrackedQueueJob
  <2>1. rec \in TrackedQueueJob
    BY <1>2 DEF TrackedQueueJob
  <2>2. jobs' = With(jobs, j, rec) \/ jobs' = jobs
    BY DEF UpdateTrackedJob
  <2> HIDE DEF rec
  <2>3. QED BY <2>1, <2>2 DEF StoreTypeOK, With
<1>5. rows' \subseteq TrackedQueueJobEvent
  BY <1>3 DEF UpdateTrackedJob, StoreTypeOK, TrackedQueueJobEvent
<1>6. QED BY <1>4, <1>5 DEF StoreTypeOK, UpdateTrackedJob

(* TypeOK holds of the empty tables and the empty queue.                   *)
LEMMA TypeInit == Init => TypeOK
BY TimeAssumption, ProcessorAssumption
   DEF Init, StoreInit, TypeOK, StoreTypeOK, EventJobTypeOK, AttemptTypeOK, Time

(* The tables, the queue and the handlers keep their types under every     *)
(* step of the processor.                                                  *)
LEMMA TypeStep == TypeOK /\ [Next]_vars => TypeOK'
<1> SUFFICES ASSUME TypeOK, [Next]_vars PROVE TypeOK'
  OBVIOUS
<1> USE DEF TypeOK
<1>1. CASE Emit
  <2>1. PICK e \in EventIds, c \in Offered : EmitEvent(e, c)
    BY <1>1 DEF Emit
  <2> DEFINE ej == [data |-> [type |-> c.type, job |-> c.job, state |-> c.state, at |-> now],
                    status |-> "waiting", attemptsMade |-> 0, stalls |-> 0]
  <2>2. ej \in EventJob
    BY ProcessorAssumption DEF EventContent, EventJob, EventData, StoreTypeOK
  <2>3. eventJob' = With(eventJob, e, ej) /\ UNCHANGED <<jobs, rows, now, attempt, faults>>
    BY <2>1 DEF EmitEvent
  <2> HIDE DEF ej
  <2>4. EventJobTypeOK' /\ DOMAIN eventJob \subseteq DOMAIN eventJob'
    BY <2>2, <2>3 DEF EventJobTypeOK, With
  <2>5. QED BY <2>3, <2>4 DEF AttemptTypeOK, StoreTypeOK
<1>2. ASSUME NEW w \in Workers, NEW e \in EventIds, Process(w, e)
      PROVE  TypeOK'
  <2>1. EventJobTypeOK' /\ DOMAIN eventJob' = DOMAIN eventJob
    BY <1>2 DEF Process, EventJobTypeOK, EventJob
  <2> DEFINE a == [event |-> e, pc |-> FirstStep(eventJob[e].data), delayable |-> FALSE,
                   at |-> 0, last |-> 0, locked |-> TRUE]
  <2>2. a \in Attempt /\ a.event \in DOMAIN eventJob
    BY <1>2, TimeAssumption DEF Process, Attempt, FirstStep, Step, Time
  <2>3. attempt' = With(attempt, w, a)
    BY <1>2 DEF Process
  <2> HIDE DEF a
  <2>4. AttemptTypeOK'
    BY <2>1, <2>2, <2>3 DEF AttemptTypeOK, With
  <2>5. QED BY <1>2, <2>1, <2>4 DEF Process, StoreTypeOK
<1>3. ASSUME NEW w \in Workers, Handle(w)
      PROVE  TypeOK'
  <2>1. w \in DOMAIN attempt
    BY <1>3 DEF Handle, OnActiveFind, OnActiveTrack, OnActiveTrackRefused, OnDelayedFind,
       FetchJobAndLog, UpdateExists, MoveToDelay, UpdateRead, UpdateWrite,
       UpdateWriteRefused, Ack, Throw, TakeTime, At
  <2>2. ASSUME NEW s \in Step, Goto(w, s), UNCHANGED <<eventJob, faults>>, StoreTypeOK'
        PROVE  TypeOK'
    BY <2>1, <2>2, GotoType DEF EventJobTypeOK
  <2>3. ASSUME UNCHANGED <<jobs, rows, now>> PROVE StoreTypeOK'
    BY <2>3 DEF StoreTypeOK
  <2> DEFINE d == Data(w)
  <2>4. /\ d \in EventData
        /\ attempt[w].event \in EventIds
        /\ UpdateTenant(d) \in Tenants
        /\ TenantOf[d.job] \in Tenants
    BY <2>1, DataType
  <2>5. attempt[w] \in Attempt
    BY <2>1 DEF AttemptTypeOK
  <2>6. CASE OnActiveFind(w)
    BY <2>6, <2>2, <2>3 DEF OnActiveFind, Step
  <2>7. CASE OnActiveTrack(w)
    BY <2>7, <2>2, <2>4, <2>5, TrackJobType DEF OnActiveTrack, Step, EventData, Attempt
  <2>8. CASE OnActiveTrackRefused(w)
    BY <2>8, <2>2, <2>3 DEF OnActiveTrackRefused, Step
  <2>9. CASE OnDelayedFind(w)
    BY <2>9, <2>2, <2>3 DEF OnDelayedFind, Step
  <2>10. ASSUME NEW b \in BOOLEAN, FetchJobAndLog(w, b) PROVE TypeOK'
    <3>1. AttemptTypeOK'
      BY <2>1, <2>10 DEF FetchJobAndLog, AttemptTypeOK, Attempt, Step
    <3>2. QED BY <3>1, <2>10 DEF FetchJobAndLog, StoreTypeOK, EventJobTypeOK
  <2>11. CASE UpdateExists(w)
    <3>1. AttemptTypeOK'
      BY <2>1, <2>11 DEF UpdateExists, AttemptTypeOK, Attempt, Step
    <3>2. QED BY <3>1, <2>11 DEF UpdateExists, StoreTypeOK, EventJobTypeOK
  <2>12. ASSUME NEW b \in BOOLEAN, MoveToDelay(w, b) PROVE TypeOK'
    BY <2>12, <2>2, <2>3 DEF MoveToDelay, Step
  <2>13. CASE UpdateRead(w)
    <3>1. FindJobById(UpdateTenant(d), d.job) => jobs[d.job].updatedAt \in Time
      BY DEF FindJobById, StoreTypeOK, TrackedQueueJob
    <3>2. AttemptTypeOK'
      BY <2>1, <2>13, <3>1 DEF UpdateRead, AttemptTypeOK, Attempt, Step
    <3>3. QED BY <3>2, <2>13 DEF UpdateRead, StoreTypeOK, EventJobTypeOK
  <2>14. CASE UpdateWrite(w)
    <3>1. attempt[w].at \in Time /\ attempt[w].last \in Time
      BY <2>5 DEF Attempt
    <3>2. d.job \in Jobs /\ d.type \in EventType
      BY <2>4 DEF EventData
    <3>3. UpdateTrackedJob(UpdateTenant(d), d.job, attempt[w].event, d.type,
            StateToWrite(d), attempt[w].at, attempt[w].last)
      BY <2>14 DEF UpdateWrite
    <3>4. StoreTypeOK'
      BY <2>4, <3>1, <3>2, <3>3, UpdateTrackedJobType
    <3>5. QED BY <2>14, <2>2, <3>4 DEF UpdateWrite, Step
  <2>15. CASE UpdateWriteRefused(w)
    BY <2>15, <2>2, <2>3 DEF UpdateWriteRefused, Step
  <2>16. CASE Ack(w)
    <3>1. EventJobTypeOK' /\ DOMAIN eventJob' = DOMAIN eventJob
      BY <2>1, <2>16 DEF Ack, EventJobTypeOK, EventJob, AttemptTypeOK
    <3>2. AttemptTypeOK'
      BY <2>16, <3>1, WithoutType DEF Ack
    <3>3. QED BY <3>1, <3>2, <2>16 DEF Ack, StoreTypeOK
  <2>17. CASE Throw(w)
    <3>1. EventJobTypeOK' /\ DOMAIN eventJob' = DOMAIN eventJob
      <4> DEFINE e == attempt[w].event
                 s == IF AttemptsMade(e) < MaxAttempts THEN "waiting" ELSE "failed"
                 ej == [eventJob[e] EXCEPT !.attemptsMade = AttemptsMade(e), !.status = s]
      <4>1. e \in DOMAIN eventJob /\ eventJob[e] \in EventJob
        BY <2>1 DEF EventJobTypeOK, AttemptTypeOK
      <4>2. ej \in EventJob
        <5>1. AttemptsMade(e) \in Nat /\ s \in {"waiting", "active", "completed", "failed"}
          BY <4>1 DEF EventJob, AttemptsMade
        <5> HIDE DEF e, s
        <5>2. [eventJob[e] EXCEPT !.attemptsMade = AttemptsMade(e)] \in EventJob
          BY <4>1, <5>1, EventJobFields
        <5>3. QED BY <5>1, <5>2, EventJobFields
      <4>3. eventJob' = eventJob \/ eventJob' = [eventJob EXCEPT ![e] = ej]
        BY <2>17 DEF Throw
      <4>4. QED BY <4>2, <4>3 DEF EventJobTypeOK
    <3>2. AttemptTypeOK'
      BY <2>17, <3>1, WithoutType DEF Throw
    <3>3. QED BY <3>1, <3>2, <2>17 DEF Throw, StoreTypeOK
  <2>18. CASE TakeTime(w)
    <3>1. TimestampAt(Received(d.at)) \in Time
      BY DEF TimestampAt, Received, StoreTypeOK
    <3>2. AttemptTypeOK'
      BY <2>1, <2>18, <3>1 DEF TakeTime, AttemptTypeOK, Attempt, Step
    <3>3. QED BY <3>2, <2>18 DEF TakeTime, StoreTypeOK, EventJobTypeOK
  <2>19. QED
    BY <1>3, <2>6, <2>7, <2>8, <2>9, <2>10, <2>11, <2>12, <2>13, <2>14, <2>15, <2>16,
       <2>17, <2>18 DEF Handle
<1>4. ASSUME NEW w \in Workers, DatabaseError(w) \/ ReplyLost(w) \/ Crash(w)
      PROVE  TypeOK'
  <2>1. w \in DOMAIN attempt /\ faults' \in 0 .. MaxFaults /\ UNCHANGED eventJob
    BY <1>4, ProcessorAssumption DEF DatabaseError, ReplyLost, Crash, Fault
  <2>2. StoreTypeOK'
    <3>1. CASE DatabaseError(w) \/ Crash(w)
      BY <3>1 DEF DatabaseError, Crash, StoreTypeOK
    <3> DEFINE d == Data(w)
    <3>2. /\ d \in EventData
          /\ attempt[w].event \in EventIds
          /\ UpdateTenant(d) \in Tenants
          /\ TenantOf[d.job] \in Tenants
      BY <2>1, DataType
    <3>4. attempt[w].at \in Time /\ attempt[w].last \in Time
      BY <2>1 DEF Attempt, AttemptTypeOK
    <3>3. CASE TrackJob(TenantOf[d.job], d.job, attempt[w].at)
      BY <3>2, <3>3, <3>4, TrackJobType DEF EventData
    <3>5. d.job \in Jobs /\ d.type \in EventType
      BY <3>2 DEF EventData
    <3>6. CASE UpdateTrackedJob(UpdateTenant(d), d.job, attempt[w].event, d.type,
                 StateToWrite(d), attempt[w].at, attempt[w].last)
      BY <3>2, <3>4, <3>5, <3>6, UpdateTrackedJobType
    <3>7. QED BY <1>4, <3>1, <3>3, <3>6 DEF ReplyLost
  <2>3. AttemptTypeOK'
    <3>1. CASE Goto(w, "throw")
      BY <2>1, <3>1, GotoType DEF Step
    <3>2. CASE Crash(w)
      BY <2>1, <3>2, WithoutType DEF Crash
    <3>3. QED BY <1>4, <3>1, <3>2 DEF DatabaseError, ReplyLost
  <2>4. QED BY <2>1, <2>2, <2>3 DEF EventJobTypeOK
<1>5. ASSUME NEW e \in EventIds, StallAbandoned(e) \/ StallAlive(e)
      PROVE  TypeOK'
  <2>1. Stall(e) /\ faults' \in 0 .. MaxFaults
    BY <1>5, ProcessorAssumption DEF StallAbandoned, StallAlive, Fault
  <2>2. EventJobTypeOK' /\ DOMAIN eventJob' = DOMAIN eventJob
    <3>1. eventJob[e].stalls # MaxStalls => eventJob[e].stalls + 1 \in 0 .. MaxStalls
      <4>1. eventJob[e].stalls \in 0 .. MaxStalls
        BY <2>1 DEF Stall, EventJobTypeOK, EventJob
      <4>2. QED BY <4>1, ProcessorAssumption
    <3>2. CASE eventJob[e].stalls = MaxStalls
      BY <2>1, <3>2 DEF Stall, EventJobTypeOK, EventJob
    <3>3. CASE eventJob[e].stalls # MaxStalls
      <4> DEFINE k == eventJob[e].stalls + 1
                 ej == [eventJob[e] EXCEPT !.status = "waiting", !.stalls = k]
      <4>1. eventJob[e] \in EventJob /\ k \in 0 .. MaxStalls
        BY <2>1, <3>1, <3>3 DEF Stall, EventJobTypeOK
      <4>2. eventJob' = [eventJob EXCEPT ![e] = ej]
        BY <2>1, <3>3 DEF Stall
      <4> HIDE DEF k
      <4>3. ej \in EventJob
        <5>1. [eventJob[e] EXCEPT !.status = "waiting"] \in EventJob
          BY <4>1, EventJobFields
        <5>2. QED BY <4>1, <5>1, EventJobFields
      <4> HIDE DEF ej
      <4>4. QED BY <4>2, <4>3 DEF EventJobTypeOK
    <3>4. QED BY <3>2, <3>3
  <2>3. AttemptTypeOK'
    BY <2>1, <2>2 DEF Stall, AttemptTypeOK, Attempt
  <2>4. QED BY <2>1, <2>2, <2>3 DEF Stall, StoreTypeOK
<1>6. CASE ClockTick
  BY <1>6, TimeAssumption DEF ClockTick, Tick, StoreTypeOK, EventJobTypeOK, AttemptTypeOK, Time
<1>7. CASE UNCHANGED vars
  BY <1>7 DEF vars, StoreTypeOK, EventJobTypeOK, AttemptTypeOK
<1>8. QED BY <1>1, <1>2, <1>3, <1>4, <1>5, <1>6, <1>7 DEF Next

(* TypeOK: every reachable state is well-typed.                            *)
THEOREM TypeCorrect == Spec => []TypeOK
<1>1. QED BY TypeInit, TypeStep, PTL DEF Spec

-----------------------------------------------------------------------------
(* The history of a job.  TenantIsTheMessages is what makes the key of the *)
(* event rows, which includes the tenant, a key on the job and the event.  *)

HistoryInv == TypeOK /\ TenantIsTheMessages /\ RecordedOnce

Tracks(w) ==
  At(w, "track") /\ TrackJob(TenantOf[Data(w).job], Data(w).job, attempt[w].at)
Updates(w) ==
  /\ At(w, "write")
  /\ UpdateTrackedJob(UpdateTenant(Data(w)), Data(w).job, attempt[w].event,
       Data(w).type, StateToWrite(Data(w)), attempt[w].at, attempt[w].last)

(* The tables change by a handler's create or by a handler's update only.  *)
LEMMA StoreStep ==
  ASSUME [Next]_vars
  PROVE  \/ UNCHANGED <<jobs, rows>>
         \/ \E w \in DOMAIN attempt : Tracks(w) \/ Updates(w)
<1>1. CASE Emit
  BY <1>1 DEF Emit, EmitEvent
<1>2. ASSUME NEW w \in Workers, NEW e \in EventIds, Process(w, e)
      PROVE  UNCHANGED <<jobs, rows>>
  BY <1>2 DEF Process
<1>3. ASSUME NEW w \in Workers, Handle(w)
      PROVE  UNCHANGED <<jobs, rows>> \/ (w \in DOMAIN attempt /\ (Tracks(w) \/ Updates(w)))
  <2>1. CASE OnActiveTrack(w)
    BY <2>1 DEF OnActiveTrack, Tracks, At
  <2>2. CASE UpdateWrite(w)
    BY <2>2 DEF UpdateWrite, Updates, At
  <2>3. CASE ~ OnActiveTrack(w) /\ ~ UpdateWrite(w)
    BY <1>3, <2>3 DEF Handle, OnActiveFind, TakeTime, OnActiveTrackRefused, OnDelayedFind,
       FetchJobAndLog, UpdateExists, MoveToDelay, UpdateRead, UpdateWriteRefused, Ack, Throw
  <2>4. QED BY <2>1, <2>2, <2>3
<1>4. ASSUME NEW w \in Workers, DatabaseError(w) \/ ReplyLost(w) \/ Crash(w)
      PROVE  UNCHANGED <<jobs, rows>> \/ (w \in DOMAIN attempt /\ (Tracks(w) \/ Updates(w)))
  BY <1>4 DEF DatabaseError, ReplyLost, Crash, Tracks, Updates
<1>5. ASSUME NEW e \in EventIds, StallAbandoned(e) \/ StallAlive(e)
      PROVE  UNCHANGED <<jobs, rows>>
  BY <1>5 DEF StallAbandoned, StallAlive, Stall
<1>6. CASE ClockTick
  BY <1>6 DEF ClockTick, Tick
<1>7. CASE UNCHANGED vars
  BY <1>7 DEF vars
<1>8. QED BY <1>1, <1>2, <1>3, <1>4, <1>5, <1>6, <1>7 DEF Next

(* A create opens the history of a job that had none.                      *)
LEMMA TracksHistory ==
  ASSUME HistoryInv, NEW w \in DOMAIN attempt, Tracks(w)
  PROVE  TenantIsTheMessages' /\ RecordedOnce'
<1> DEFINE j == Data(w).job
           t == TenantOf[j]
           rec == [tenant |-> t, state |-> "waiting", updatedAt |-> attempt[w].at]
           row == [tenant |-> t, job |-> j, id |-> CreationId, event |-> "workerJobActive",
                   state |-> "waiting", createdAt |-> attempt[w].at]
<1>1. jobs' = With(jobs, j, rec) /\ rows' = rows \cup {row} /\ j \notin DOMAIN jobs
  BY DEF Tracks, TrackJob, JobIsNew
<1>2. rec.tenant = t /\ row.job = j /\ row.tenant = t
  OBVIOUS
<1> HIDE DEF rec, row, j, t
<1>3. \A r \in rows : r.job # j
  BY <1>1 DEF HistoryInv, TenantIsTheMessages
<1>4. DOMAIN jobs' = DOMAIN jobs \cup {j} /\ jobs'[j] = rec
      /\ \A k \in DOMAIN jobs : jobs'[k] = jobs[k]
  BY <1>1 DEF With
<1>5. TenantIsTheMessages'
  BY <1>1, <1>2, <1>4 DEF HistoryInv, TenantIsTheMessages, t
<1>6. RecordedOnce'
  BY <1>1, <1>2, <1>3 DEF HistoryInv, RecordedOnce
<1>7. QED BY <1>5, <1>6

(* An update adds a row its event had not, under the tenant of its job.    *)
LEMMA UpdatesHistory ==
  ASSUME HistoryInv, NEW w \in DOMAIN attempt, Updates(w)
  PROVE  TenantIsTheMessages' /\ RecordedOnce'
<1> DEFINE j == Data(w).job
           e == attempt[w].event
           t == UpdateTenant(Data(w))
           s == StateToWrite(Data(w))
           rec == [tenant |-> t, updatedAt |-> attempt[w].at,
                   state |-> IF s = Undefined THEN jobs[j].state ELSE s]
           row == [tenant |-> t, job |-> j, id |-> e, event |-> Data(w).type,
                   createdAt |-> attempt[w].at,
                   state |-> IF s = Undefined THEN "unknown" ELSE s]
<1>1. /\ jobs' = With(jobs, j, rec) \/ jobs' = jobs
      /\ rows' = rows \cup {row}
      /\ j \in DOMAIN jobs /\ jobs[j].tenant = t
      /\ \A r \in rows : ~ (r.tenant = t /\ r.job = j /\ r.id = e)
  BY DEF Updates, UpdateTrackedJob, Writable, FindJobById, RowIsNew
<1>2. rec.tenant = t /\ row.job = j /\ row.tenant = t /\ row.id = e
  OBVIOUS
<1> HIDE DEF rec, row, j, t, e
<1>3. t = TenantOf[j]
  BY <1>1 DEF HistoryInv, TenantIsTheMessages
<1>4. \A r \in rows : r.job = j => r.id # e
  BY <1>1, <1>3 DEF HistoryInv, TenantIsTheMessages
<1>5. DOMAIN jobs' = DOMAIN jobs /\ \A k \in DOMAIN jobs : jobs'[k].tenant = jobs[k].tenant
  <2>1. CASE jobs' = jobs
    BY <2>1
  <2>2. CASE jobs' = With(jobs, j, rec)
    BY <1>1, <1>2, <2>2 DEF With
  <2>3. QED BY <1>1, <2>1, <2>2
<1>6. TenantIsTheMessages'
  BY <1>1, <1>2, <1>3, <1>5 DEF HistoryInv, TenantIsTheMessages
<1>7. RecordedOnce'
  BY <1>1, <1>2, <1>4 DEF HistoryInv, RecordedOnce
<1>8. QED BY <1>6, <1>7

(* Every step keeps the tenants and the rows' key.                         *)
LEMMA HistoryStep == HistoryInv /\ [Next]_vars => HistoryInv'
<1> SUFFICES ASSUME HistoryInv, [Next]_vars PROVE HistoryInv'
  OBVIOUS
<1>1. TypeOK'
  BY TypeStep DEF HistoryInv
<1>2. TenantIsTheMessages' /\ RecordedOnce'
  <2>1. CASE UNCHANGED <<jobs, rows>>
    BY <2>1 DEF HistoryInv, TenantIsTheMessages, RecordedOnce
  <2>2. ASSUME NEW w \in DOMAIN attempt, Tracks(w) \/ Updates(w)
        PROVE  TenantIsTheMessages' /\ RecordedOnce'
    BY <2>2, TracksHistory, UpdatesHistory
  <2>3. QED BY <2>1, <2>2, StoreStep
<1>3. QED BY <1>1, <1>2 DEF HistoryInv

(* The inductive invariant of a job's history.                             *)
LEMMA HistoryInvariant == Spec => []HistoryInv
<1>1. Init => HistoryInv
  BY TypeInit DEF Init, StoreInit, HistoryInv, TenantIsTheMessages, RecordedOnce
<1>2. QED BY <1>1, HistoryStep, PTL DEF Spec

(* RecordedOnce: however often an event is redelivered or retried, its     *)
(* job's history has one row of it.                                        *)
THEOREM HistoryOnce == Spec => []RecordedOnce
<1>1. HistoryInv => RecordedOnce
  BY DEF HistoryInv
<1>2. QED BY <1>1, HistoryInvariant, PTL

(* TenantIsTheMessages: jobs and rows are filed under the message's tenant.*)
THEOREM TenantsApart == Spec => []TenantIsTheMessages
<1>1. HistoryInv => TenantIsTheMessages
  BY DEF HistoryInv
<1>2. QED BY <1>1, HistoryInvariant, PTL

-----------------------------------------------------------------------------
(* What one step of the system does to a running handler.                  *)

Moves(w, from, to) == attempt[w].pc = from /\ attempt'[w].pc = to

Advances(w) ==
  LET d == Data(w) IN
  \/ Moves(w, "findById", "fetch") /\ FindJobById(TenantOf[d.job], d.job)
  \/ Moves(w, "findById", "trackTime")
  \/ Moves(w, "trackTime", "track") /\ attempt'[w].at = now
  \/ Moves(w, "track", "fetch") /\ Tracks(w)
  \/ Moves(w, "findByJobId", "fetch")
  \/ Moves(w, "fetch", "exists")
  \/ Moves(w, "exists", "updateTime") /\ Tracked(d)
  \/ Moves(w, "exists", "delay") /\ ~ Tracked(d)
  \/ Moves(w, "delay", "ack")
  \/ Moves(w, "updateTime", "read") /\ attempt'[w].at = now
  \/ Moves(w, "read", "write") /\ attempt'[w].at = attempt[w].at
  \/ Moves(w, "write", "ack") /\ Updates(w)

Starts(w) ==
  LET e == attempt'[w].event IN
  /\ w \notin DOMAIN attempt
  /\ e \in DOMAIN eventJob /\ eventJob[e].status = "waiting"
  /\ attempt'[w].pc = FirstStep(eventJob[e].data)

GoesOn(w) ==
  /\ w \in DOMAIN attempt
  /\ attempt'[w].event = attempt[w].event
  /\ attempt'[w].locked => attempt[w].locked
  /\ \/ attempt'[w].pc = attempt[w].pc /\ attempt'[w].at = attempt[w].at
     \/ attempt'[w].pc = "throw"
     \/ Advances(w)

(* The handler that takes a step advances or throws; it may end instead.   *)
LEMMA HandleAdvances ==
  ASSUME TypeOK, NEW w \in Workers, Handle(w), w \in DOMAIN attempt'
  PROVE  GoesOn(w)
<1>1. w \in DOMAIN attempt /\ attempt[w] \in Attempt
  BY DEF Handle, OnActiveFind, OnActiveTrack, OnActiveTrackRefused, OnDelayedFind,
     FetchJobAndLog, UpdateExists, MoveToDelay, UpdateRead, UpdateWrite,
     UpdateWriteRefused, Ack, Throw, TakeTime, At, TypeOK, AttemptTypeOK
<1> USE <1>1 DEF GoesOn, Moves, At, Attempt
<1>2. CASE OnActiveFind(w)
  BY <1>2 DEF OnActiveFind, Goto, Advances
<1>3. CASE TakeTime(w)
  BY <1>3 DEF TakeTime, Advances, TimestampAt, Received
<1>4. CASE OnActiveTrack(w)
  BY <1>4 DEF OnActiveTrack, Goto, Advances, Tracks
<1>5. CASE OnActiveTrackRefused(w)
  BY <1>5 DEF OnActiveTrackRefused, Goto
<1>6. CASE OnDelayedFind(w)
  BY <1>6 DEF OnDelayedFind, Goto, Advances
<1>7. ASSUME NEW b \in BOOLEAN, FetchJobAndLog(w, b) PROVE GoesOn(w)
  BY <1>7 DEF FetchJobAndLog, Advances
<1>8. CASE UpdateExists(w)
  BY <1>8 DEF UpdateExists, Advances
<1>9. ASSUME NEW b \in BOOLEAN, MoveToDelay(w, b) PROVE GoesOn(w)
  BY <1>9 DEF MoveToDelay, Goto, Advances
<1>10. CASE UpdateRead(w)
  BY <1>10 DEF UpdateRead, Advances
<1>11. CASE UpdateWrite(w)
  BY <1>11 DEF UpdateWrite, Goto, Advances, Updates
<1>12. CASE UpdateWriteRefused(w)
  BY <1>12 DEF UpdateWriteRefused, Goto
<1>13. ~ Ack(w) /\ ~ Throw(w)
  BY DEF Ack, Throw, Without
<1>14. QED
  BY <1>2, <1>3, <1>4, <1>5, <1>6, <1>7, <1>8, <1>9, <1>10, <1>11, <1>12, <1>13 DEF Handle

(* A step of one handler leaves the others where they are.                 *)
LEMMA HandleOthers ==
  ASSUME TypeOK, NEW w \in Workers, Handle(w), NEW v \in DOMAIN attempt', v # w
  PROVE  v \in DOMAIN attempt /\ attempt'[v] = attempt[v]
<1> USE DEF TypeOK, AttemptTypeOK
<1>1. CASE Ack(w) \/ Throw(w)
  BY <1>1 DEF Ack, Throw, Without
<1>2. CASE ~ Ack(w) /\ ~ Throw(w)
  BY <1>2 DEF Handle, OnActiveFind, OnActiveTrack, OnActiveTrackRefused, OnDelayedFind,
     FetchJobAndLog, UpdateExists, MoveToDelay, UpdateRead, UpdateWrite,
     UpdateWriteRefused, TakeTime, Goto
<1>3. QED BY <1>1, <1>2

(* Every handler running after a step was started by it or goes on.        *)
LEMMA AttemptStep ==
  ASSUME TypeOK, [Next]_vars, NEW v \in DOMAIN attempt'
  PROVE  Starts(v) \/ GoesOn(v)
<1>2. CASE attempt' = attempt
  BY <1>2 DEF GoesOn
<1>3. ASSUME NEW w \in Workers, NEW e \in EventIds, Process(w, e)
      PROVE  Starts(v) \/ GoesOn(v)
  <2>1. CASE v = w
    BY <1>3, <2>1 DEF Process, With, Starts
  <2>2. CASE v # w
    BY <1>3, <2>2 DEF Process, With, GoesOn
  <2>3. QED BY <2>1, <2>2
<1>4. ASSUME NEW w \in Workers, Handle(w) PROVE GoesOn(v)
  BY <1>4, HandleAdvances, HandleOthers DEF GoesOn
<1>5. ASSUME NEW w \in Workers, DatabaseError(w) \/ ReplyLost(w)
      PROVE  GoesOn(v)
  BY <1>5 DEF DatabaseError, ReplyLost, Goto, GoesOn, TypeOK, AttemptTypeOK, Attempt
<1>6. ASSUME NEW w \in Workers, Crash(w) PROVE GoesOn(v)
  BY <1>6 DEF Crash, Without, GoesOn
<1>7. ASSUME NEW e \in EventIds, StallAbandoned(e) \/ StallAlive(e)
      PROVE  GoesOn(v)
  BY <1>7 DEF StallAbandoned, StallAlive, Stall, GoesOn, TypeOK, AttemptTypeOK, Attempt
<1>8. Emit \/ ClockTick \/ UNCHANGED vars => attempt' = attempt
  BY DEF Emit, EmitEvent, ClockTick, vars
<1>9. QED BY <1>2, <1>3, <1>4, <1>5, <1>6, <1>7, <1>8 DEF Next

(* A handler that throws with its lock puts its event job back or fails it.*)
LEMMA ThrowStep ==
  ASSUME TypeOK, NEW w, Throw(w)
  PROVE  \/ UNCHANGED eventJob
         \/ LET e == attempt[w].event IN
            /\ w \in DOMAIN attempt /\ attempt[w].locked
            /\ \E ej : /\ eventJob' = [eventJob EXCEPT ![e] = ej]
                       /\ ej.data = eventJob[e].data
                       /\ ej.status \in {"waiting", "failed"}
<1> DEFINE e == attempt[w].event
           n == AttemptsMade(e)
           s == IF n < MaxAttempts THEN "waiting" ELSE "failed"
           ej == [eventJob[e] EXCEPT !.attemptsMade = n, !.status = s]
<1>1. CASE ~ HoldsLock(w)
  BY <1>1 DEF Throw
<1>2. CASE HoldsLock(w)
  <2>1. w \in DOMAIN attempt /\ attempt[w].locked /\ eventJob[e] \in EventJob
    BY <1>2 DEF Throw, At, HoldsLock, TypeOK, AttemptTypeOK, EventJobTypeOK
  <2>2. eventJob' = [eventJob EXCEPT ![e] = ej]
    BY <1>2 DEF Throw
  <2>3. s \in {"waiting", "failed"}
    OBVIOUS
  <2> HIDE DEF e, n, s
  <2>4. ej.data = eventJob[e].data /\ ej.status = s
    BY <2>1 DEF EventJob
  <2> HIDE DEF ej
  <2>5. QED BY <2>1, <2>2, <2>3, <2>4 DEF e
<1>3. QED BY <1>1, <1>2

(* A stall puts its event job back or fails it.                            *)
LEMMA StallStep ==
  ASSUME TypeOK, NEW e, Stall(e)
  PROVE  \E ej : /\ eventJob' = [eventJob EXCEPT ![e] = ej]
                /\ ej.data = eventJob[e].data
                /\ ej.status \in {"waiting", "failed"}
<1>1. e \in DOMAIN eventJob /\ eventJob[e] \in EventJob
  BY DEF Stall, TypeOK, EventJobTypeOK
<1>2. CASE eventJob[e].stalls = MaxStalls
  <2> DEFINE ej == [eventJob[e] EXCEPT !.status = "failed"]
  <2>1. ej.data = eventJob[e].data /\ ej.status = "failed"
    BY <1>1 DEF EventJob
  <2>2. eventJob' = [eventJob EXCEPT ![e] = ej]
    BY <1>2 DEF Stall
  <2> HIDE DEF ej
  <2>3. QED BY <2>1, <2>2
<1>3. CASE eventJob[e].stalls # MaxStalls
  <2> DEFINE k == eventJob[e].stalls + 1
             ej == [eventJob[e] EXCEPT !.status = "waiting", !.stalls = k]
  <2>1. eventJob' = [eventJob EXCEPT ![e] = ej]
    BY <1>3 DEF Stall
  <2> HIDE DEF k
  <2>2. ej.data = eventJob[e].data /\ ej.status = "waiting"
    BY <1>1 DEF EventJob
  <2> HIDE DEF ej
  <2>3. QED BY <2>1, <2>2
<1>4. QED BY <1>2, <1>3

(* The queue keeps every event job and what it says.                       *)
LEMMA DataStep ==
  ASSUME TypeOK, [Next]_vars, NEW e \in DOMAIN eventJob
  PROVE  e \in DOMAIN eventJob' /\ eventJob'[e].data = eventJob[e].data
<1> USE DEF TypeOK, EventJobTypeOK, EventJob
<1>1. CASE UNCHANGED eventJob
  BY <1>1
<1>2. CASE Emit
  BY <1>2 DEF Emit, EmitEvent, With
<1>3. ASSUME NEW w \in Workers, NEW x \in EventIds, Process(w, x)
      PROVE  e \in DOMAIN eventJob' /\ eventJob'[e].data = eventJob[e].data
  BY <1>3 DEF Process
<1>4. ASSUME NEW w \in Workers, Ack(w) \/ Throw(w)
      PROVE  e \in DOMAIN eventJob' /\ eventJob'[e].data = eventJob[e].data
  BY <1>4, ThrowStep DEF Ack
<1>5. ASSUME NEW w \in Workers, Handle(w), ~ Ack(w), ~ Throw(w)
      PROVE  UNCHANGED eventJob
  BY <1>5 DEF Handle, OnActiveFind, OnActiveTrack, OnActiveTrackRefused, OnDelayedFind,
     FetchJobAndLog, UpdateExists, MoveToDelay, UpdateRead, UpdateWrite,
     UpdateWriteRefused, TakeTime
<1>6. ASSUME NEW x \in EventIds, StallAbandoned(x) \/ StallAlive(x)
      PROVE  e \in DOMAIN eventJob' /\ eventJob'[e].data = eventJob[e].data
  BY <1>6, StallStep DEF StallAbandoned, StallAlive
<1>7. QED
  BY <1>1, <1>2, <1>3, <1>4, <1>5, <1>6
     DEF Next, DatabaseError, ReplyLost, Crash, ClockTick, vars

(* An event job is completed by the handler that holds its lock.           *)
LEMMA CompletedStep ==
  ASSUME TypeOK, [Next]_vars, NEW e, Status(e, "completed")'
  PROVE  \/ Status(e, "completed")
         \/ \E w \in DOMAIN attempt :
              attempt[w].event = e /\ attempt[w].pc = "ack" /\ attempt[w].locked
<1> USE DEF TypeOK, EventJobTypeOK, EventJob, Status
<1>1. CASE UNCHANGED eventJob
  BY <1>1
<1>2. CASE Emit
  BY <1>2 DEF Emit, EmitEvent, With
<1>3. ASSUME NEW w \in Workers, NEW x \in EventIds, Process(w, x)
      PROVE  Status(e, "completed")
  BY <1>3 DEF Process
<1>4. ASSUME NEW w \in Workers, Ack(w)
      PROVE  \/ Status(e, "completed")
             \/ w \in DOMAIN attempt /\ attempt[w].event = e /\ attempt[w].pc = "ack"
                /\ attempt[w].locked
  BY <1>4 DEF Ack, At, HoldsLock
<1>5. ASSUME NEW w \in Workers, Throw(w)
      PROVE  Status(e, "completed")
  BY <1>5, ThrowStep
<1>6. ASSUME NEW w \in Workers, Handle(w), ~ Ack(w), ~ Throw(w)
      PROVE  UNCHANGED eventJob
  BY <1>6 DEF Handle, OnActiveFind, OnActiveTrack, OnActiveTrackRefused, OnDelayedFind,
     FetchJobAndLog, UpdateExists, MoveToDelay, UpdateRead, UpdateWrite,
     UpdateWriteRefused, TakeTime
<1>7. ASSUME NEW x \in EventIds, StallAbandoned(x) \/ StallAlive(x)
      PROVE  Status(e, "completed")
  BY <1>7, StallStep DEF StallAbandoned, StallAlive
<1>8. QED
  BY <1>1, <1>2, <1>3, <1>4, <1>5, <1>6, <1>7
     DEF Next, DatabaseError, ReplyLost, Crash, ClockTick, vars

(* Records and rows are never deleted.                                     *)
LEMMA StoreGrows ==
  ASSUME [Next]_vars
  PROVE  DOMAIN jobs \subseteq DOMAIN jobs' /\ rows \subseteq rows'
<1>1. ASSUME NEW w, Tracks(w) \/ Updates(w)
      PROVE  DOMAIN jobs \subseteq DOMAIN jobs' /\ rows \subseteq rows'
  BY <1>1 DEF Tracks, Updates, TrackJob, UpdateTrackedJob, With
<1>2. QED BY <1>1, StoreStep

-----------------------------------------------------------------------------
(* Why an acknowledged active event has its row: its handler is always in  *)
(* a branch in which the job is tracked, and acknowledges after the write. *)

HandlerOK(w) ==
  LET d == Data(w)
      pc == attempt[w].pc
  IN
  /\ pc \in {"updateTime", "read", "write"} => d.job \in DOMAIN jobs
  /\ d.type = "workerJobActive" =>
       /\ pc \notin {"findByJobId", "delay"}
       /\ pc \in {"fetch", "exists"} => d.job \in DOMAIN jobs
       /\ pc = "ack" => Recorded(attempt[w].event)

ActiveInv ==
  /\ HistoryInv
  /\ \A w \in DOMAIN attempt : HandlerOK(w)
  /\ AckedActiveIsRecorded

(* A row stays, so does what it says of its event.                         *)
LEMMA RecordedStays ==
  ASSUME TypeOK, [Next]_vars, NEW e \in DOMAIN eventJob, Recorded(e)
  PROVE  Recorded(e)'
BY StoreGrows, DataStep DEF Recorded

(* The write of a handler records its event.                               *)
LEMMA UpdatesRecord ==
  ASSUME TypeOK, [Next]_vars, NEW w \in DOMAIN attempt, Updates(w),
         NEW e, e = attempt[w].event
  PROVE  Recorded(e)'
<1> DEFINE j == Data(w).job
           s == StateToWrite(Data(w))
           row == [tenant |-> UpdateTenant(Data(w)), job |-> j, id |-> e,
                   event |-> Data(w).type, createdAt |-> attempt[w].at,
                   state |-> IF s = Undefined THEN "unknown" ELSE s]
<1>1. e \in DOMAIN eventJob /\ j = eventJob[e].data.job
  BY DEF TypeOK, AttemptTypeOK, Data
<1>2. eventJob'[e].data.job = j
  BY <1>1, DataStep
<1>3. row \in rows'
  BY DEF Updates, UpdateTrackedJob
<1>4. row.job = j /\ row.id = e
  OBVIOUS
<1> HIDE DEF row, j
<1>5. QED BY <1>2, <1>3, <1>4 DEF Recorded

(* A job whose record is found is tracked, and one that is tracked is      *)
(* found under the tenant of its message.                                  *)
LEMMA TrackedMeans ==
  ASSUME TenantIsTheMessages, NEW d
  PROVE  Tracked(d) <=> d.job \in DOMAIN jobs
BY DEF TenantIsTheMessages, Tracked, FindJobById, FindJobByJobId

(* Every step keeps every handler in a branch that fits its event.         *)
LEMMA HandlerStep ==
  ASSUME ActiveInv, [Next]_vars, NEW v \in DOMAIN attempt'
  PROVE  HandlerOK(v)'
<1>1. TypeOK /\ TenantIsTheMessages
  BY DEF ActiveInv, HistoryInv
<1>2. CASE Starts(v)
  <2>1. Data(v)' = eventJob[attempt'[v].event].data
    BY <1>1, <1>2, DataStep DEF Starts, Data
  <2>2. attempt'[v].pc = FirstStep(Data(v)')
    BY <1>2, <2>1 DEF Starts
  <2>3. QED BY <2>2 DEF FirstStep, HandlerOK
<1>3. CASE GoesOn(v)
  <2> DEFINE d == Data(v)
  <2>a. PICK e \in DOMAIN eventJob : e = attempt[v].event
    BY <1>1, <1>3 DEF GoesOn, TypeOK, AttemptTypeOK
  <2>1. v \in DOMAIN attempt /\ attempt[v].event = e /\ attempt'[v].event = e
    BY <1>3, <2>a DEF GoesOn
  <2>2. Data(v)' = d
    BY <1>1, <2>1, DataStep DEF Data
  <2>3. HandlerOK(v)
    BY <2>1 DEF ActiveInv
  <2>4. DOMAIN jobs \subseteq DOMAIN jobs'
    BY StoreGrows
  <2>5. CASE attempt'[v].pc = attempt[v].pc
    <3>1. attempt[v].pc = "ack" /\ d.type = "workerJobActive" => Recorded(e)'
      BY <1>1, <2>1, <2>3, RecordedStays DEF HandlerOK
    <3>2. QED BY <2>1, <2>2, <2>3, <2>4, <2>5, <3>1 DEF HandlerOK
  <2>6. CASE attempt'[v].pc = "throw"
    BY <2>6 DEF HandlerOK
  <2>7. CASE Advances(v)
    <3>1. CASE Moves(v, "write", "ack") /\ Updates(v)
      <4>1. Recorded(e)'
        BY <1>1, <2>1, <3>1, UpdatesRecord
      <4>2. QED BY <2>1, <2>2, <3>1, <4>1 DEF HandlerOK, Moves
    <3>2. CASE Moves(v, "track", "fetch") /\ Tracks(v)
      <4>1. d.job \in DOMAIN jobs'
        BY <3>2 DEF Tracks, TrackJob, With
      <4>2. QED BY <2>2, <3>2, <4>1 DEF HandlerOK, Moves
    <3>3. CASE Moves(v, "findById", "fetch") /\ FindJobById(TenantOf[d.job], d.job)
      BY <2>2, <2>4, <3>3 DEF HandlerOK, Moves, FindJobById
    <3>4. CASE Moves(v, "exists", "updateTime") /\ Tracked(d)
      BY <1>1, <2>2, <2>4, <3>4, TrackedMeans DEF HandlerOK, Moves
    <3>5. CASE Moves(v, "exists", "delay") /\ ~ Tracked(d)
      BY <1>1, <2>2, <2>3, <3>5, TrackedMeans DEF HandlerOK, Moves
    <3>6. QED
      BY <2>2, <2>3, <2>4, <2>7, <3>1, <3>2, <3>3, <3>4, <3>5 DEF Advances, HandlerOK, Moves
  <2>8. QED BY <1>3, <2>5, <2>6, <2>7 DEF GoesOn
<1>4. QED BY <1>1, <1>2, <1>3, AttemptStep

(* The inductive invariant behind AckedActiveIsRecorded.                   *)
LEMMA ActiveStep == ActiveInv /\ [Next]_vars => ActiveInv'
<1> SUFFICES ASSUME ActiveInv, [Next]_vars PROVE ActiveInv'
  OBVIOUS
<1>1. HistoryInv' /\ TypeOK
  BY HistoryStep DEF ActiveInv, HistoryInv
<1>2. \A v \in DOMAIN attempt' : HandlerOK(v)'
  BY HandlerStep
<1>3. AckedActiveIsRecorded'
  <2> SUFFICES ASSUME NEW e \in DOMAIN eventJob',
                      eventJob'[e].status = "completed",
                      eventJob'[e].data.type = "workerJobActive"
               PROVE  Recorded(e)'
    BY DEF AckedActiveIsRecorded
  <2>1. CASE Status(e, "completed")
    BY <1>1, <2>1, DataStep, RecordedStays DEF Status, ActiveInv, AckedActiveIsRecorded
  <2>2. ASSUME NEW w \in DOMAIN attempt, attempt[w].event = e, attempt[w].pc = "ack"
        PROVE  Recorded(e)'
    <3>1. e \in DOMAIN eventJob /\ Data(w).type = "workerJobActive"
      BY <1>1, <2>2, DataStep DEF Data, TypeOK, AttemptTypeOK
    <3>2. Recorded(e)
      BY <2>2, <3>1 DEF ActiveInv, HandlerOK
    <3>3. QED BY <1>1, <3>1, <3>2, RecordedStays
  <2>3. Status(e, "completed")'
    BY DEF Status
  <2>4. QED BY <1>1, <2>1, <2>2, <2>3, CompletedStep
<1>4. QED BY <1>1, <1>2, <1>3 DEF ActiveInv

(* It holds from the empty system on.                                      *)
LEMMA ActiveInvariant == Spec => []ActiveInv
<1>1. Init => ActiveInv
  BY TypeInit DEF Init, StoreInit, ActiveInv, HistoryInv, TenantIsTheMessages,
     RecordedOnce, AckedActiveIsRecorded
<1>2. QED BY <1>1, ActiveStep, PTL DEF Spec

(* AckedActiveIsRecorded: an active event that was acknowledged has its row.*)
THEOREM ActiveRecorded == Spec => []AckedActiveIsRecorded
<1>1. ActiveInv => AckedActiveIsRecorded
  BY DEF ActiveInv
<1>2. QED BY <1>1, ActiveInvariant, PTL

-----------------------------------------------------------------------------
(* A history opens with its creation: the row a create leaves has a time   *)
(* of before the create, and an update takes its time after it has found   *)
(* the record.                                                             *)

(* c opens the history of j, as far as it is written and being written.    *)
Opens(c, j) ==
  /\ c.job = j /\ c.id = CreationId /\ c.createdAt <= now
  /\ \A r \in rows : r.job = j => c.createdAt <= r.createdAt
  /\ \A w \in DOMAIN attempt :
       Data(w).job = j /\ attempt[w].pc \in {"read", "write"}
       => c.createdAt <= attempt[w].at

OpeningInv ==
  /\ ActiveInv
  /\ \A w \in DOMAIN attempt : attempt[w].pc = "track" => attempt[w].at <= now
  /\ \A j \in DOMAIN jobs : \E c \in rows : Opens(c, j)

(* The clock does not go back.                                             *)
LEMMA ClockStep ==
  ASSUME TypeOK, [Next]_vars
  PROVE  now \in Nat /\ now' \in Nat /\ now <= now'
<1>1. now \in Nat /\ now' \in Nat
  BY TypeStep, TimeAssumption DEF TypeOK, StoreTypeOK, Time
<1>2. now' = now \/ now' = now + 1
  <2>1. CASE Tick
    BY <2>1 DEF Tick
  <2>2. ASSUME ~ Tick, [Next]_vars PROVE UNCHANGED now
    <3>1. ASSUME NEW w \in Workers, Handle(w) PROVE UNCHANGED now
      BY <3>1 DEF Handle, OnActiveFind, TakeTime, OnActiveTrack, OnActiveTrackRefused,
         OnDelayedFind, FetchJobAndLog, UpdateExists, MoveToDelay, UpdateRead, UpdateWrite,
         UpdateWriteRefused, Ack, Throw, TrackJob, UpdateTrackedJob
    <3>2. Emit => UNCHANGED now
      BY DEF Emit, EmitEvent
    <3>3. ASSUME NEW w \in Workers, NEW e \in EventIds, Process(w, e) PROVE UNCHANGED now
      BY <3>3 DEF Process
    <3>4. ASSUME NEW w \in Workers, DatabaseError(w) \/ ReplyLost(w) \/ Crash(w)
          PROVE  UNCHANGED now
      BY <3>4 DEF DatabaseError, ReplyLost, Crash, TrackJob, UpdateTrackedJob
    <3>5. ASSUME NEW e \in EventIds, StallAbandoned(e) \/ StallAlive(e)
          PROVE  UNCHANGED now
      BY <3>5 DEF StallAbandoned, StallAlive, Stall
    <3>6. ClockTick => Tick
      BY DEF ClockTick
    <3>7. QED BY <2>2, <3>1, <3>2, <3>3, <3>4, <3>5, <3>6 DEF Next, vars
  <2>3. QED BY <2>1, <2>2
<1>3. QED BY <1>1, <1>2

(* A handler that is to create or to write has a time it took before.      *)
LEMMA TimeStep ==
  ASSUME OpeningInv, [Next]_vars, NEW v \in DOMAIN attempt'
  PROVE  /\ attempt'[v].pc = "track" => attempt'[v].at <= now'
         /\ attempt'[v].pc \in {"read", "write"} =>
              \/ attempt'[v].at = now
              \/ /\ v \in DOMAIN attempt
                 /\ attempt[v].pc \in {"read", "write"}
                 /\ attempt'[v].at = attempt[v].at
                 /\ Data(v)' = Data(v)
<1>1. TypeOK /\ ActiveInv
  BY DEF OpeningInv, ActiveInv, HistoryInv
<1>2. now \in Nat /\ now' \in Nat /\ now <= now'
  BY <1>1, ClockStep
<1>3. CASE Starts(v)
  BY <1>3 DEF Starts, FirstStep
<1>4. CASE GoesOn(v)
  <2>1. v \in DOMAIN attempt /\ attempt[v] \in Attempt
    BY <1>1, <1>4 DEF GoesOn, TypeOK, AttemptTypeOK
  <2>2. Data(v)' = Data(v)
    BY <1>1, <1>4, <2>1, DataStep DEF GoesOn, Data, TypeOK, AttemptTypeOK
  <2>3. attempt[v].at \in Nat /\ (attempt[v].pc = "track" => attempt[v].at <= now)
    BY <2>1, TimeAssumption DEF OpeningInv, Attempt, Time
  <2>4. QED BY <1>2, <1>4, <2>1, <2>2, <2>3 DEF GoesOn, Advances, Moves
<1>5. QED BY <1>1, <1>3, <1>4, AttemptStep

(* An opening row that is there stays one: what is added is not older.     *)
LEMMA OpensStays ==
  ASSUME OpeningInv, [Next]_vars, NEW j \in DOMAIN jobs, NEW c \in rows, Opens(c, j)
  PROVE  Opens(c, j)'
<1>1. TypeOK
  BY DEF OpeningInv, ActiveInv, HistoryInv
<1>2. now \in Nat /\ now' \in Nat /\ now <= now' /\ c.createdAt \in Nat
  BY <1>1, ClockStep, TimeAssumption DEF TypeOK, StoreTypeOK, TrackedQueueJobEvent, Time
<1>3. c.createdAt <= now'
  BY <1>2 DEF Opens
<1>4. \A r \in rows' : r.job = j => c.createdAt <= r.createdAt
  <2>1. CASE UNCHANGED <<jobs, rows>>
    BY <2>1 DEF Opens
  <2>2. ASSUME NEW w \in DOMAIN attempt, Tracks(w)
        PROVE  \A r \in rows' : r.job = j => c.createdAt <= r.createdAt
    <3>1. Data(w).job # j
      BY <2>2 DEF Tracks, TrackJob, JobIsNew
    <3>2. \A r \in rows' : r \in rows \/ r.job = Data(w).job
      BY <2>2 DEF Tracks, TrackJob
    <3>3. QED BY <3>1, <3>2 DEF Opens
  <2>3. ASSUME NEW w \in DOMAIN attempt, Updates(w)
        PROVE  \A r \in rows' : r.job = j => c.createdAt <= r.createdAt
    <3>1. \A r \in rows' : r \in rows \/ (r.job = Data(w).job /\ r.createdAt = attempt[w].at)
      BY <2>3 DEF Updates, UpdateTrackedJob
    <3>2. Data(w).job = j => c.createdAt <= attempt[w].at
      BY <2>3 DEF Opens, Updates, At
    <3>3. QED BY <3>1, <3>2 DEF Opens
  <2>4. QED BY <2>1, <2>2, <2>3, StoreStep
<1>5. ASSUME NEW v \in DOMAIN attempt', Data(v)'.job = j, attempt'[v].pc \in {"read", "write"}
      PROVE  c.createdAt <= attempt'[v].at
  BY <1>5, TimeStep DEF Opens
<1>6. QED BY <1>3, <1>4, <1>5 DEF Opens

(* The row of a create opens its history.                                  *)
LEMMA TracksOpens ==
  ASSUME OpeningInv, [Next]_vars, NEW w \in DOMAIN attempt, Tracks(w),
         NEW j, j = Data(w).job
  PROVE  \E c \in rows' : Opens(c, j)'
<1> DEFINE row == [tenant |-> TenantOf[j], job |-> j, id |-> CreationId,
                   event |-> "workerJobActive", state |-> "waiting",
                   createdAt |-> attempt[w].at]
<1>1. TypeOK /\ TenantIsTheMessages
  BY DEF OpeningInv, ActiveInv, HistoryInv
<1>2. j \notin DOMAIN jobs /\ rows' = rows \cup {row}
  BY DEF Tracks, TrackJob, JobIsNew
<1>3. row.job = j /\ row.id = CreationId /\ row.createdAt = attempt[w].at
  OBVIOUS
<1> HIDE DEF row
<1>4. attempt[w].at \in Nat /\ attempt[w].at <= now'
  <2>1. attempt[w].at \in Nat /\ attempt[w].at <= now
    BY <1>1, TimeAssumption DEF TypeOK, AttemptTypeOK, Attempt, Time, OpeningInv, Tracks, At
  <2>2. QED BY <1>1, <2>1, ClockStep
<1>5. \A r \in rows' : r.job = j => row.createdAt <= r.createdAt
  <2>1. \A r \in rows : r.job # j
    BY <1>1, <1>2 DEF TenantIsTheMessages
  <2>2. QED BY <1>2, <1>3, <1>4, <2>1
<1>6. ASSUME NEW v \in DOMAIN attempt', Data(v)'.job = j, attempt'[v].pc \in {"read", "write"}
      PROVE  row.createdAt <= attempt'[v].at
  <2>1. CASE attempt'[v].at = now
    BY <1>3, <2>1 DEF OpeningInv, Tracks, At
  <2>2. CASE v \in DOMAIN attempt /\ attempt[v].pc \in {"read", "write"} /\ Data(v)' = Data(v)
    BY <1>2, <1>6, <2>2 DEF OpeningInv, ActiveInv, HandlerOK
  <2>3. QED BY <1>6, <2>1, <2>2, TimeStep
<1>7. QED BY <1>2, <1>3, <1>4, <1>5, <1>6 DEF Opens

(* Every step keeps every tracked job's history open with its creation.    *)
LEMMA OpeningStep == OpeningInv /\ [Next]_vars => OpeningInv'
<1> SUFFICES ASSUME OpeningInv, [Next]_vars PROVE OpeningInv'
  OBVIOUS
<1>1. ActiveInv'
  BY ActiveStep DEF OpeningInv
<1>2. \A v \in DOMAIN attempt' : attempt'[v].pc = "track" => attempt'[v].at <= now'
  BY TimeStep
<1>3. ASSUME NEW j \in DOMAIN jobs' PROVE \E c \in rows' : Opens(c, j)'
  <2>1. CASE j \in DOMAIN jobs
    BY <2>1, OpensStays, StoreGrows DEF OpeningInv
  <2>2. CASE j \notin DOMAIN jobs
    <3>1. \E w \in DOMAIN attempt : Tracks(w) \/ Updates(w)
      BY <1>3, <2>2, StoreStep
    <3>2. ASSUME NEW w \in DOMAIN attempt, Updates(w) PROVE DOMAIN jobs' = DOMAIN jobs
      BY <3>2 DEF Updates, UpdateTrackedJob, Writable, FindJobById, With
    <3>3. ASSUME NEW w \in DOMAIN attempt, Tracks(w) PROVE j = Data(w).job
      BY <1>3, <2>2, <3>3 DEF Tracks, TrackJob, With
    <3>4. QED BY <1>3, <2>2, <3>1, <3>2, <3>3, TracksOpens
  <2>3. QED BY <2>1, <2>2
<1>4. QED BY <1>1, <1>2, <1>3 DEF OpeningInv

(* HistoryOpensWithCreation: no row is older than its job's creation row.  *)
THEOREM HistoryOpens == Spec => []HistoryOpensWithCreation
<1>1. Init => ActiveInv
  BY TypeInit DEF Init, StoreInit, ActiveInv, HistoryInv, TenantIsTheMessages,
     RecordedOnce, AckedActiveIsRecorded
<1>2. Init => OpeningInv
  BY <1>1 DEF Init, StoreInit, OpeningInv
<1>3. OpeningInv => HistoryOpensWithCreation
  BY DEF OpeningInv, Opens, HistoryOpensWithCreation
<1>4. QED BY <1>2, <1>3, OpeningStep, PTL DEF Spec

-----------------------------------------------------------------------------
(* No silent loss.  An event that waits has no attempt with its lock, so   *)
(* every attempt that can still acknowledge it is yet to look for its job. *)

Locked(w, e) ==
  w \in DOMAIN attempt /\ attempt[w].event = e /\ attempt[w].locked

LocksOK ==
  /\ \A w \in DOMAIN attempt :
       attempt[w].locked => eventJob[attempt[w].event].status = "active"
  /\ \A v, w \in DOMAIN attempt :
       attempt[v].locked /\ attempt[w].locked /\ attempt[v].event = attempt[w].event
       => v = w

LockInv == ActiveInv /\ LocksOK

(* From here on e cannot be acknowledged without its row.                  *)
Safe(e) ==
  /\ e \in DOMAIN eventJob
  /\ eventJob[e].data.job \in DOMAIN jobs
  /\ eventJob[e].status = "completed" => Recorded(e)
  /\ \A w \in DOMAIN attempt :
       Locked(w, e) =>
         /\ attempt[w].pc # "delay"
         /\ attempt[w].pc = "ack" => Recorded(e)

(* A step that takes a lock, or ends the attempt of the one who has it.    *)
LEMMA LockStep == LockInv /\ [Next]_vars => LockInv'
<1> SUFFICES ASSUME LockInv, [Next]_vars PROVE LockInv'
  OBVIOUS
<1>1. TypeOK /\ ActiveInv'
  BY ActiveStep DEF LockInv, ActiveInv, HistoryInv
<1>2. \A w \in DOMAIN attempt : attempt[w].event \in DOMAIN eventJob
  BY <1>1 DEF TypeOK, AttemptTypeOK
<1>3. ASSUME UNCHANGED eventJob,
             \A w \in DOMAIN attempt' :
               /\ w \in DOMAIN attempt /\ attempt'[w].event = attempt[w].event
               /\ attempt'[w].locked => attempt[w].locked
      PROVE  LocksOK'
  BY <1>3 DEF LockInv, LocksOK
<1>4. ASSUME Emit PROVE LocksOK'
  BY <1>2, <1>4 DEF Emit, EmitEvent, With, LockInv, LocksOK
<1>5. ASSUME NEW w \in Workers, NEW e \in EventIds, Process(w, e)
      PROVE  LocksOK'
  <2> DEFINE a == [event |-> e, pc |-> FirstStep(eventJob[e].data), delayable |-> FALSE,
                   at |-> 0, last |-> 0, locked |-> TRUE]
  <2>1. a.event = e /\ attempt' = With(attempt, w, a)
    BY <1>5 DEF Process
  <2> HIDE DEF a
  <2>2. \A v \in DOMAIN attempt' : v # w => v \in DOMAIN attempt /\ attempt'[v] = attempt[v]
    BY <2>1 DEF With
  <2>3. attempt'[w].event = e
    BY <2>1 DEF With
  <2>4. \A v \in DOMAIN attempt : attempt[v].locked => attempt[v].event # e
    BY <1>5 DEF Process, LockInv, LocksOK
  <2>5. /\ eventJob'[e].status = "active"
        /\ \A x \in DOMAIN eventJob : x # e => eventJob'[x] = eventJob[x]
    BY <1>1, <1>5 DEF Process, TypeOK, EventJobTypeOK, EventJob
  <2>6. QED BY <1>2, <2>2, <2>3, <2>4, <2>5 DEF LockInv, LocksOK
<1>6. ASSUME NEW w \in Workers, Ack(w) \/ Throw(w)
      PROVE  LocksOK'
  <2>1. /\ w \in DOMAIN attempt
        /\ DOMAIN attempt' = DOMAIN attempt \ {w}
        /\ \A v \in DOMAIN attempt' : attempt'[v] = attempt[v]
    BY <1>6 DEF Ack, Throw, At, Without
  <2>2. UNCHANGED eventJob \/
        /\ attempt[w].locked
        /\ \A x \in DOMAIN eventJob : x # attempt[w].event => eventJob'[x] = eventJob[x]
    BY <1>1, <1>6, ThrowStep DEF Ack, HoldsLock
  <2>3. QED BY <1>2, <1>3, <2>1, <2>2 DEF LockInv, LocksOK
<1>7. ASSUME NEW w \in Workers, Handle(w), ~ Ack(w), ~ Throw(w)
      PROVE  LocksOK'
  <2>1. UNCHANGED eventJob
    BY <1>7 DEF Handle, OnActiveFind, OnActiveTrack, OnActiveTrackRefused, OnDelayedFind,
       FetchJobAndLog, UpdateExists, MoveToDelay, UpdateRead, UpdateWrite,
       UpdateWriteRefused, TakeTime
  <2>2. QED BY <1>1, <1>3, <1>7, <2>1, HandleAdvances, HandleOthers DEF GoesOn
<1>8. ASSUME NEW w \in Workers, DatabaseError(w) \/ ReplyLost(w)
      PROVE  LocksOK'
  BY <1>1, <1>3, <1>8 DEF DatabaseError, ReplyLost, Goto, TypeOK, AttemptTypeOK, Attempt
<1>9. ASSUME NEW w \in Workers, Crash(w)
      PROVE  LocksOK'
  BY <1>3, <1>9 DEF Crash, Without
<1>10. ASSUME NEW e \in EventIds, StallAbandoned(e) \/ StallAlive(e)
       PROVE  LocksOK'
  <2>1. /\ DOMAIN attempt' = DOMAIN attempt
        /\ \A v \in DOMAIN attempt :
             /\ attempt'[v].event = attempt[v].event
             /\ attempt'[v].locked => attempt[v].locked /\ attempt[v].event # e
    BY <1>1, <1>10 DEF StallAbandoned, StallAlive, Stall, TypeOK, AttemptTypeOK, Attempt
  <2>2. \A x \in DOMAIN eventJob : x # e => eventJob'[x] = eventJob[x]
    BY <1>1, <1>10, StallStep DEF StallAbandoned, StallAlive
  <2>3. QED BY <1>2, <2>1, <2>2 DEF LockInv, LocksOK
<1>11. ASSUME ClockTick \/ UNCHANGED vars PROVE LocksOK'
  BY <1>11 DEF ClockTick, vars, LockInv, LocksOK
<1>12. LocksOK'
  BY <1>4, <1>5, <1>6, <1>7, <1>8, <1>9, <1>10, <1>11 DEF Next
<1>13. QED BY <1>1, <1>12 DEF LockInv, LocksOK

(* Safe(e) is stable: an attempt with the lock finds the job when it looks *)
(* for it, and acknowledges after its write.                               *)
LEMMA SafeStep ==
  ASSUME LockInv, [Next]_vars, NEW e, Safe(e)
  PROVE  Safe(e)'
<1>1. TypeOK /\ TenantIsTheMessages /\ ActiveInv
  BY DEF LockInv, ActiveInv, HistoryInv
<1>2. e \in DOMAIN eventJob /\ e \in DOMAIN eventJob' /\ eventJob'[e].data = eventJob[e].data
  BY <1>1, DataStep DEF Safe
<1>3. eventJob'[e].data.job \in DOMAIN jobs'
  BY <1>2, StoreGrows DEF Safe
<1>4. eventJob'[e].status = "completed" => Recorded(e)'
  BY <1>1, <1>2, CompletedStep, RecordedStays DEF Safe, Status, Locked
<1>5. ASSUME NEW v \in DOMAIN attempt', Locked(v, e)'
      PROVE  attempt'[v].pc # "delay" /\ (attempt'[v].pc = "ack" => Recorded(e)')
  <2>1. CASE Starts(v)
    BY <2>1 DEF Starts, FirstStep
  <2>2. CASE GoesOn(v)
    <3>1. v \in DOMAIN attempt /\ Locked(v, e) /\ Data(v) = eventJob[e].data
      BY <1>5, <2>2 DEF GoesOn, Locked, Data
    <3>2. attempt[v].pc # "delay" /\ (attempt[v].pc = "ack" => Recorded(e)')
      BY <1>1, <1>2, <3>1, RecordedStays DEF Safe
    <3>3. Tracked(Data(v))
      BY <1>1, <3>1, TrackedMeans DEF Safe
    <3>4. Updates(v) => Recorded(e)'
      BY <1>1, <3>1, UpdatesRecord DEF Locked
    <3>5. QED BY <2>2, <3>2, <3>3, <3>4 DEF GoesOn, Advances, Moves
  <2>3. QED BY <1>1, <1>5, <2>1, <2>2, AttemptStep
<1>6. QED BY <1>2, <1>3, <1>4, <1>5 DEF Safe

(* NoSilentLossOnceTracked: an event that waits while its job is tracked   *)
(* is acknowledged, if ever, after its row was written.                    *)
THEOREM NoSilentLoss == Spec => NoSilentLossOnceTracked
<1> SUFFICES ASSUME NEW e \in EventIds
             PROVE  Spec => [](Status(e, "waiting") /\ eventJob[e].data.job \in DOMAIN jobs
                               => [](Status(e, "completed") => Recorded(e)))
  BY DEF NoSilentLossOnceTracked
<1>1. Init => LockInv
  BY TypeInit DEF Init, StoreInit, LockInv, LocksOK, ActiveInv, HistoryInv, TenantIsTheMessages,
     RecordedOnce, AckedActiveIsRecorded
<1>2. LockInv /\ [Next]_vars => LockInv'
  BY LockStep
<1>3. LockInv /\ Status(e, "waiting") /\ eventJob[e].data.job \in DOMAIN jobs => Safe(e)
  BY DEF LockInv, LocksOK, Status, Safe, Locked
<1>4. LockInv /\ Safe(e) /\ [Next]_vars => Safe(e)'
  BY SafeStep
<1>5. Safe(e) => (Status(e, "completed") => Recorded(e))
  BY DEF Safe, Status
<1>6. QED BY <1>1, <1>2, <1>3, <1>4, <1>5, PTL DEF Spec

-----------------------------------------------------------------------------
(* The processor implements TrackedHistory.  Announced and the entries of  *)
(* the rows are opaque but for the facts that follow.                      *)

ImplInv == OpeningInv /\ LocksOK

(* The outcome of each status.                                             *)
LEMMA OutcomeOf ==
  /\ Outcome("waiting") = "open" /\ Outcome("active") = "open"
  /\ Outcome("completed") = "acknowledged" /\ Outcome("failed") = "abandoned"
BY DEF Outcome

(* What is announced of an event job.                                      *)
LEMMA AnnouncedAt ==
  /\ DOMAIN Announced = DOMAIN eventJob
  /\ \A e \in DOMAIN eventJob :
       /\ Announced[e].job = eventJob[e].data.job
       /\ Announced[e].tracks <=> eventJob[e].data.type = "workerJobActive"
       /\ Announced[e].outcome = Outcome(eventJob[e].status)
BY DEF Announced

(* An event is entered in the history exactly when it has a row.           *)
LEMMA EnteredMeans ==
  ASSUME NEW e \in DOMAIN eventJob
  PROVE  History!Entered(e) <=> Recorded(e)
<1>1. Announced[e].job = eventJob[e].data.job
  BY AnnouncedAt
<1>2. \A r : Entry(r).job = r.job /\ Entry(r).event = r.id
  BY DEF Entry
<1> HIDE DEF Entry, Announced
<1>3. QED BY <1>1, <1>2 DEF History!Entered, History!Entries, Recorded

(* What is announced says nothing of an event job but this.                *)
LEMMA AnnouncedSame ==
  ASSUME DOMAIN eventJob' = DOMAIN eventJob,
         \A e \in DOMAIN eventJob :
           /\ eventJob'[e].data = eventJob[e].data
           /\ Outcome(eventJob'[e].status) = Outcome(eventJob[e].status)
  PROVE  UNCHANGED Announced
BY DEF Announced

(* One event job changes its status.                                       *)
LEMMA AnnouncedExcept ==
  ASSUME NEW e \in DOMAIN eventJob, NEW ej, ej.data = eventJob[e].data,
         eventJob' = [eventJob EXCEPT ![e] = ej]
  PROVE  Announced' = [Announced EXCEPT ![e].outcome = Outcome(ej.status)]
<1>1. \A f \in DOMAIN eventJob : eventJob'[f] = IF f = e THEN ej ELSE eventJob[f]
  OBVIOUS
<1>2. DOMAIN eventJob' = DOMAIN eventJob
  OBVIOUS
<1>3. Announced' = [f \in DOMAIN eventJob |->
         [job |-> eventJob[f].data.job,
          tracks |-> eventJob[f].data.type = "workerJobActive",
          outcome |-> IF f = e THEN Outcome(ej.status) ELSE Outcome(eventJob[f].status)]]
  BY <1>1, <1>2 DEF Announced
<1>4. QED BY <1>3 DEF Announced

(* A settled event was open, and it is entered if it has to be.            *)
LEMMA SettleMaps ==
  ASSUME UNCHANGED rows, NEW e \in EventIds, e \in DOMAIN eventJob,
         eventJob[e].status = "active", NEW ej, ej.data = eventJob[e].data,
         ej.status \in {"waiting", "completed", "failed"},
         eventJob' = [eventJob EXCEPT ![e] = ej],
         ej.status = "completed" /\ eventJob[e].data.type = "workerJobActive" => Recorded(e)
  PROVE  [History!HistoryNext]_(History!historyVars)
<1>1. Announced' = [Announced EXCEPT ![e].outcome = Outcome(ej.status)]
  BY AnnouncedExcept
<1>2. /\ e \in DOMAIN Announced /\ Announced[e].outcome = "open"
      /\ Announced[e].tracks <=> eventJob[e].data.type = "workerJobActive"
  BY AnnouncedAt, OutcomeOf
<1>3. UNCHANGED {Entry(r) : r \in rows}
  OBVIOUS
<1>4. CASE ej.status = "waiting"
  <2>1. UNCHANGED Announced
    BY <1>4, AnnouncedSame, OutcomeOf
  <2>2. QED BY <1>3, <2>1 DEF History!historyVars
<1>5. ASSUME ej.status # "waiting"
      PROVE  \E outcome \in {"acknowledged", "abandoned"} : History!Settle(e, outcome)
  <2> DEFINE outcome == Outcome(ej.status)
  <2>1. outcome \in {"acknowledged", "abandoned"}
    BY <1>5 DEF Outcome
  <2>2. outcome = "acknowledged" => ej.status = "completed"
    BY <1>5 DEF Outcome
  <2> HIDE DEF outcome
  <2>3. outcome = "acknowledged" /\ Announced[e].tracks => History!Entered(e)
    BY <1>2, <2>2, EnteredMeans
  <2>4. Announced' = [Announced EXCEPT ![e].outcome = outcome]
    BY <1>1 DEF outcome
  <2>5. History!Settle(e, outcome)
    BY <1>2, <1>3, <2>3, <2>4 DEF History!Settle
  <2>6. QED BY <2>1, <2>5
<1>6. QED BY <1>4, <1>5 DEF History!HistoryNext

(* trackJob opens the history of a job that had no entry.                  *)
LEMMA TracksMaps ==
  ASSUME ImplInv, NEW w \in DOMAIN attempt, Tracks(w), UNCHANGED eventJob
  PROVE  History!HistoryNext
<1>1. TypeOK /\ TenantIsTheMessages
  BY DEF ImplInv, OpeningInv, ActiveInv, HistoryInv
<1>2. PICK j \in Jobs, at \in Time : j = Data(w).job /\ at = attempt[w].at
  BY <1>1, DataType DEF TypeOK, AttemptTypeOK, Attempt, EventData
<1> DEFINE row == [tenant |-> TenantOf[j], job |-> j, id |-> CreationId,
                   event |-> "workerJobActive", state |-> "waiting", createdAt |-> at]
<1>3. j \notin DOMAIN jobs /\ rows' = rows \cup {row}
  BY <1>2 DEF Tracks, TrackJob, JobIsNew
<1>4. Entry(row) = [owner |-> TenantOf[j], job |-> j, event |-> CreationId, at |-> at]
  BY DEF Entry
<1> HIDE DEF row
<1>5. {Entry(r) : r \in rows}' = {Entry(r) : r \in rows} \cup {Entry(row)}
  BY <1>3
<1>6. \A r \in rows : Entry(r).job # j
  BY <1>1, <1>3 DEF TenantIsTheMessages, Entry
<1>7. UNCHANGED Announced
  BY AnnouncedSame
<1>8. History!Open(j, at)
  BY <1>4, <1>5, <1>6, <1>7 DEF History!Open, History!TrackedJobs
<1>9. QED BY <1>8 DEF History!HistoryNext

(* updateTrackedJob enters an event that was not, after the opening.       *)
LEMMA UpdatesMaps ==
  ASSUME ImplInv, NEW w \in DOMAIN attempt, Updates(w), UNCHANGED eventJob
  PROVE  History!HistoryNext
<1>1. TypeOK /\ TenantIsTheMessages
  BY DEF ImplInv, OpeningInv, ActiveInv, HistoryInv
<1>2. PICK e \in EventIds, at \in Time :
        e = attempt[w].event /\ at = attempt[w].at /\ e \in DOMAIN eventJob
  BY <1>1 DEF TypeOK, AttemptTypeOK, Attempt
<1> DEFINE j == eventJob[e].data.job
           d == Data(w)
           t == UpdateTenant(d)
           s == StateToWrite(d)
           row == [tenant |-> t, job |-> j, id |-> e, event |-> d.type,
                   createdAt |-> at, state |-> IF s = Undefined THEN "unknown" ELSE s]
<1>3. d.job = j
  BY <1>2 DEF Data
<1>4. /\ rows' = rows \cup {row}
      /\ j \in DOMAIN jobs /\ jobs[j].tenant = t
      /\ \A r \in rows : ~ (r.tenant = t /\ r.job = j /\ r.id = e)
  BY <1>2, <1>3 DEF Updates, UpdateTrackedJob, Writable, FindJobById, RowIsNew
<1>5. t = TenantOf[j]
  BY <1>1, <1>4 DEF TenantIsTheMessages
<1>6. Entry(row) = [owner |-> t, job |-> j, event |-> e, at |-> at]
  BY DEF Entry
<1>7. ~ Recorded(e)
  BY <1>1, <1>4, <1>5 DEF TenantIsTheMessages, Recorded
<1>8. PICK c \in rows : c.job = j /\ c.id = CreationId /\ c.createdAt <= at
  <2>1. attempt[w].pc = "write"
    BY DEF Updates, At
  <2>2. QED BY <1>2, <1>3, <1>4, <2>1 DEF ImplInv, OpeningInv, Opens
<1> HIDE DEF row, t, s, d, j
<1>9. {Entry(r) : r \in rows}' = {Entry(r) : r \in rows} \cup {Entry(row)}
  BY <1>4
<1>10. Entry(c).job = j /\ Entry(c).event = CreationId /\ Entry(c).at <= at
  BY <1>8 DEF Entry
<1>11. UNCHANGED Announced
  BY AnnouncedSame
<1>12. e \in DOMAIN Announced /\ Announced[e].job = j
  BY <1>2, AnnouncedAt DEF j
<1>13. ~ History!Entered(e)
  BY <1>2, <1>7, EnteredMeans
<1>14. History!Enter(e, at)
  BY <1>5, <1>6, <1>9, <1>10, <1>11, <1>12, <1>13 DEF History!Enter, History!Entries
<1>15. QED BY <1>14 DEF History!HistoryNext

(* Every step of the processor is one of the abstract history's, or none.  *)
LEMMA ImplementsStep ==
  ASSUME ImplInv, [Next]_vars
  PROVE  [History!HistoryNext]_(History!historyVars)
<1>1. TypeOK /\ TenantIsTheMessages /\ ActiveInv /\ LocksOK
  BY DEF ImplInv, OpeningInv, ActiveInv, HistoryInv
<1>2. ASSUME UNCHANGED <<rows, eventJob>> PROVE UNCHANGED History!historyVars
  BY <1>2, AnnouncedSame DEF History!historyVars
<1>3. ASSUME Emit PROVE History!HistoryNext
  <2>1. PICK e \in EventIds, c \in Offered : EmitEvent(e, c)
    BY <1>3 DEF Emit
  <2> DEFINE ej == [data |-> [type |-> c.type, job |-> c.job, state |-> c.state, at |-> now],
                    status |-> "waiting", attemptsMade |-> 0, stalls |-> 0]
             tracks == c.type = "workerJobActive"
  <2>2. e \notin DOMAIN eventJob /\ eventJob' = With(eventJob, e, ej) /\ UNCHANGED rows
    BY <2>1 DEF EmitEvent
  <2>3. ej.data.job = c.job /\ ej.data.type = c.type /\ Outcome(ej.status) = "open"
    BY DEF Outcome
  <2> HIDE DEF ej
  <2>4. /\ DOMAIN eventJob' = DOMAIN eventJob \cup {e}
        /\ eventJob'[e] = ej
        /\ \A f \in DOMAIN eventJob : f # e /\ eventJob'[f] = eventJob[f]
    BY <2>2 DEF With
  <2>5. DOMAIN Announced = DOMAIN eventJob
    BY AnnouncedAt
  <2>6. Announced' = [f \in DOMAIN Announced \cup {e} |->
           IF f = e THEN [job |-> c.job, tracks |-> tracks, outcome |-> "open"]
                    ELSE Announced[f]]
    BY <2>3, <2>4, <2>5 DEF Announced
  <2>7. History!Announce(e, c.job, tracks)
    BY <2>2, <2>5, <2>6 DEF History!Announce
  <2>8. c.job \in Jobs /\ tracks \in BOOLEAN
    BY ProcessorAssumption DEF EventContent
  <2> HIDE DEF tracks
  <2>9. QED BY <2>7, <2>8 DEF History!HistoryNext
<1>4. ASSUME NEW w \in Workers, NEW e \in EventIds, Process(w, e)
      PROVE  UNCHANGED History!historyVars
  <2>1. UNCHANGED Announced
    <3>1. /\ DOMAIN eventJob' = DOMAIN eventJob
          /\ \A f \in DOMAIN eventJob : f # e => eventJob'[f] = eventJob[f]
          /\ eventJob[e] \in EventJob
          /\ eventJob'[e].data = eventJob[e].data
          /\ eventJob[e].status = "waiting" /\ eventJob'[e].status = "active"
      BY <1>1, <1>4 DEF Process, TypeOK, EventJobTypeOK, EventJob
    <3>2. QED BY <3>1, AnnouncedSame, OutcomeOf
  <2>2. QED BY <1>4, <2>1 DEF Process, History!historyVars
<1>5. ASSUME NEW w \in Workers, Ack(w)
      PROVE  [History!HistoryNext]_(History!historyVars)
  <2>1. CASE ~ HoldsLock(w)
    BY <1>2, <1>5, <2>1 DEF Ack
  <2>2. CASE HoldsLock(w)
    <3>1. PICK e \in EventIds : e = attempt[w].event /\ e \in DOMAIN eventJob
      BY <1>1, <1>5 DEF Ack, At, TypeOK, AttemptTypeOK, Attempt
    <3> DEFINE ej == [eventJob[e] EXCEPT !.status = "completed"]
    <3>2. eventJob[e] \in EventJob
      BY <1>1, <3>1 DEF TypeOK, EventJobTypeOK
    <3>3. ej.data = eventJob[e].data /\ ej.status = "completed"
      BY <3>2 DEF EventJob
    <3>4. eventJob' = [eventJob EXCEPT ![e] = ej] /\ UNCHANGED rows
      BY <1>5, <2>2, <3>1 DEF Ack
    <3> HIDE DEF ej
    <3>5. eventJob[e].status = "active"
      BY <1>1, <1>5, <2>2, <3>1 DEF Ack, At, HoldsLock, LocksOK
    <3>6. eventJob[e].data.type = "workerJobActive" => Recorded(e)
      BY <1>1, <1>5, <3>1 DEF Ack, At, ActiveInv, HandlerOK, Data
    <3>7. QED BY <3>1, <3>3, <3>4, <3>5, <3>6, SettleMaps
  <2>3. QED BY <2>1, <2>2
<1>6. ASSUME NEW w \in Workers, Throw(w)
      PROVE  [History!HistoryNext]_(History!historyVars)
  <2>1. UNCHANGED rows
    BY <1>6 DEF Throw
  <2>2. CASE UNCHANGED eventJob
    BY <1>2, <2>1, <2>2
  <2>3. ASSUME ~ UNCHANGED eventJob
        PROVE  [History!HistoryNext]_(History!historyVars)
    <3>1. PICK e \in EventIds :
            e = attempt[w].event /\ e \in DOMAIN eventJob /\ eventJob[e].status = "active"
      BY <1>1, <1>6, <2>3, ThrowStep DEF TypeOK, AttemptTypeOK, Attempt, LocksOK
    <3>2. PICK ej : /\ eventJob' = [eventJob EXCEPT ![e] = ej]
                    /\ ej.data = eventJob[e].data
                    /\ ej.status \in {"waiting", "failed"}
      BY <1>1, <1>6, <2>3, <3>1, ThrowStep
    <3>3. QED BY <2>1, <3>1, <3>2, SettleMaps
  <2>4. QED BY <2>2, <2>3
<1>7. ASSUME NEW w \in Workers, Handle(w), ~ Ack(w), ~ Throw(w)
      PROVE  UNCHANGED eventJob
  BY <1>7 DEF Handle, OnActiveFind, OnActiveTrack, OnActiveTrackRefused, OnDelayedFind,
     FetchJobAndLog, UpdateExists, MoveToDelay, UpdateRead, UpdateWrite,
     UpdateWriteRefused, TakeTime
<1>8. ASSUME NEW w \in Workers, DatabaseError(w) \/ ReplyLost(w) \/ Crash(w)
      PROVE  UNCHANGED eventJob
  BY <1>8 DEF DatabaseError, ReplyLost, Crash
<1>9. ASSUME UNCHANGED eventJob
      PROVE  [History!HistoryNext]_(History!historyVars)
  BY <1>2, <1>9, StoreStep, TracksMaps, UpdatesMaps
<1>10. ASSUME NEW e \in EventIds, StallAbandoned(e) \/ StallAlive(e)
       PROVE  [History!HistoryNext]_(History!historyVars)
  <2>1. Stall(e) /\ UNCHANGED rows /\ e \in DOMAIN eventJob /\ eventJob[e].status = "active"
    BY <1>10 DEF StallAbandoned, StallAlive, Stall
  <2>2. PICK ej : /\ eventJob' = [eventJob EXCEPT ![e] = ej]
                  /\ ej.data = eventJob[e].data
                  /\ ej.status \in {"waiting", "failed"}
    BY <1>1, <2>1, StallStep
  <2>3. QED BY <2>1, <2>2, SettleMaps
<1>11. ASSUME ClockTick \/ UNCHANGED vars PROVE UNCHANGED eventJob
  BY <1>11 DEF ClockTick, vars
<1>12. QED
  BY <1>3, <1>4, <1>5, <1>6, <1>7, <1>8, <1>9, <1>10, <1>11 DEF Next

(* ImplementsHistory: workers, retries, stalls and lost replies add up to  *)
(* a history that each event enters at most once and an outcome that is    *)
(* final.                                                                  *)
THEOREM HistoryImplemented == Spec => ImplementsHistory
<1>1. Init => ImplInv
  BY TypeInit DEF Init, StoreInit, ImplInv, OpeningInv, LocksOK, ActiveInv, HistoryInv,
     TenantIsTheMessages, RecordedOnce, AckedActiveIsRecorded
<1>2. ImplInv /\ [Next]_vars => ImplInv'
  <2>1. ImplInv => OpeningInv /\ LockInv
    BY DEF ImplInv, OpeningInv, LockInv
  <2>2. QED BY <2>1, OpeningStep, LockStep DEF ImplInv, LockInv
<1>3. Init => History!HistoryInit
  BY DEF Init, StoreInit, History!HistoryInit, Announced
<1>4. ImplInv /\ [Next]_vars => [History!HistoryNext]_(History!historyVars)
  BY ImplementsStep
<1>5. QED
  BY <1>1, <1>2, <1>3, <1>4, PTL DEF Spec, ImplementsHistory, History!HistorySpec
=============================================================================
