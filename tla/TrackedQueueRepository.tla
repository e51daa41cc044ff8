----------------------- MODULE TrackedQueueRepository -----------------------
(***************************************************************************)
(* The tracked-job tables and the repository calls that read and write     *)
(* them: packages/nestjs-dmq-repository/src/TrackedQueueRepository.ts over *)
(* the models TrackedQueueJob and TrackedQueueJobEvent of schema.prisma.   *)
(*                                                                         *)
(* Each definition below is ONE database statement.  A repository method   *)
(* made of several statements (updateTrackedJob takes the time, reads, then *)
(* writes, with no transaction around them) is put together by its caller, *)
(* one action per statement, so that other workers run in between.         *)
(***************************************************************************)
EXTENDS Naturals

CONSTANTS
  Jobs,         \* jobId values of the tracked (source) jobs
  Tenants,      \* tenantId values
  EventIds,     \* jobEventId values: the ids of the event jobs (createId)
  CreationId,   \* stands for the cuid() the schema gives a job's first row
  MaxTime       \* BOUND: the clock stops here

ASSUME TimeAssumption == MaxTime \in Nat
ASSUME CreationIdAssumption == CreationId \notin EventIds

VARIABLES
  jobs,         \* the TrackedQueueJob rows: a function on the tracked jobIds
  rows,         \* the TrackedQueueJobEvent rows
  now           \* DateTime.now(), a logical clock

storeVars == <<jobs, rows, now>>

(* enum JobState; a TypeScript `undefined` in a write is Undefined.        *)
JobState == {"active", "added", "completed", "delayed", "failed", "stalled",
             "waiting", "waitingChilden", "unknown"}
Undefined == "undefined"

(* What BullMQ's job.getState() answers.  Two of the answers are not in    *)
(* the enum above, although the producers cast them to JobState.           *)
BullState == {"active", "completed", "delayed", "failed", "prioritized",
              "waiting", "waiting-children", "unknown"}

EventType == {"workerJobActive", "workerJobCompleted", "workerJobFailed",
              "workerJobProgress", "workerJobStalled", "queueJobDelayed"}

Time == 0 .. MaxTime

TrackedQueueJob == [tenant : Tenants, state : JobState, updatedAt : Time]

TrackedQueueJobEvent ==
  [tenant : Tenants, job : Jobs, id : EventIds \cup {CreationId},
   event : EventType, state : JobState, createdAt : Time]

StoreTypeOK ==
  /\ DOMAIN jobs \subseteq Jobs
  /\ \A j \in DOMAIN jobs : jobs[j] \in TrackedQueueJob
  /\ rows \subseteq TrackedQueueJobEvent
  /\ now \in Time

StoreInit ==
  /\ jobs = [j \in {} |-> {}]
  /\ rows = {}
  /\ now = 0

With(f, x, v) == [y \in DOMAIN f \cup {x} |-> IF y = x THEN v ELSE f[y]]
Without(f, x) == [y \in DOMAIN f \ {x} |-> f[y]]

-----------------------------------------------------------------------------
(* Reads, of the tables and of the clock.                                  *)

FindJobByJobId(j) == j \in DOMAIN jobs

\* Mutant: the tenant half of the key is ignored.
FindJobByAnyTenant(t, j) == j \in DOMAIN jobs
FindJobById(t, j) == j \in DOMAIN jobs /\ jobs[j].tenant = t

\* Mutant: any timestamp is believed.
TimestampBelieved(createdAt) == createdAt.at
TimestampAt(createdAt) == IF createdAt.isValid THEN createdAt.at ELSE now

(* Writes.                                                                 *)

(* @@unique([jobId]): a job is created once, whatever its tenant.          *)
JobIsNew(j) == j \notin DOMAIN jobs

(* @@id([tenantId, jobId, jobEventId]) of the event rows.                  *)
\* Mutant: no primary key on the event rows.
AlwaysNewRow(t, j, id) == TRUE
RowIsNew(t, j, id) == ~ \E r \in rows : r.tenant = t /\ r.job = j /\ r.id = id

TrackJob(t, j, at) ==
  /\ JobIsNew(j)
  /\ jobs' = With(jobs, j, [tenant |-> t, state |-> "waiting", updatedAt |-> at])
  /\ rows' = rows \cup
       {[tenant |-> t, job |-> j, id |-> CreationId,
         event |-> "workerJobActive", state |-> "waiting", createdAt |-> at]}
  /\ UNCHANGED now

IsNewer(last, at) == last < at

(* prisma.trackedQueueJob.update: the job's columns when the event is      *)
(* newer than the updatedAt that was read, and the event row, in one       *)
(* transaction.  Prisma refuses a state outside the enum; an undefined one *)
(* leaves the job's state alone and gives the row the column's default.    *)
\* Mutant: any state is stored.
WritableWithoutEnum(t, j, id, state) == FindJobById(t, j) /\ RowIsNew(t, j, id)
Writable(t, j, id, state) ==
  /\ FindJobById(t, j)
  /\ RowIsNew(t, j, id)
  /\ state \in JobState \cup {Undefined}

UpdateTrackedJob(t, j, id, event, state, at, last) ==
  /\ Writable(t, j, id, state)
  /\ jobs' = IF IsNewer(last, at)
             THEN With(jobs, j,
                    [tenant |-> t, updatedAt |-> at,
                     state |-> IF state = Undefined THEN jobs[j].state ELSE state])
             ELSE jobs
  /\ rows' = rows \cup
       {[tenant |-> t, job |-> j, id |-> id, event |-> event, createdAt |-> at,
         state |-> IF state = Undefined THEN "unknown" ELSE state]}
  /\ UNCHANGED now

Tick ==
  /\ now < MaxTime
  /\ now' = now + 1
  /\ UNCHANGED <<jobs, rows>>
=============================================================================
