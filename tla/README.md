# Formal models of etk

TLA+ models of the parts of this repository that keep state or make decisions,
with TLC configurations that check them on small instances and proofs that the
TLA+ proof system checks for every instance.

## 1. The system

etk is a set of packages around a message queue and a data grid, and the tools
that generate code for them. The parts with logic of their own, the state each
keeps, and what makes it correct:

| component | state | operations | what makes it correct |
|---|---|---|---|
| tracked-job store (`packages/nestjs-dmq-repository`) | Postgres tables `TrackedQueueJob`, `TrackedQueueJobEvent` | `findJobById`, `findJobByJobId`, `trackJob`, `updateTrackedJob` | one row per event, one job per id, the job's state is that of its newest row, tenants do not mix |
| tracked-job event processor (`packages/nestjs-dmq/src/queue`) | the event queue (Redis), the running handlers | `TrackedJobEventProcessor.process` and its six handlers | every event is applied once or fails visibly, whatever is retried or redelivered |
| tracked source queue (same directory) | the source queue (Redis), the listeners' calls in progress | listeners of `TrackedQueueProcessor` and `TrackedQueueListener`, `TrackedJobEventQueue.track*`, `moveToDelayed` from the event processor | every transition of a job is reported; a job that its own events delay is still run |
| message queue, exchange and routing (`src/message/base`, the generated gateways) | the gateway's queue, the consumers' queues | the generated router, `isAllowed`, `add` | a message reaches the queues bound to it, no other |
| task gateway and scheduler (`src/message`) | repeatable and delayed jobs (Redis) | `scheduleAt`, `scheduleEvery`, `schedule` | one schedule per task |
| message builder | the message being built, messages that share data | `build`, `with*`, `seal`, `verify`, `encrypt`, `decrypt`, `correlateWith` | decrypt undoes encrypt; a message verifies while it is encrypted as it was sealed |
| vault (`TrackedQueueRepository.ts:131-210`) | Postgres table `VaultRecord` | create, find, destroy | a destroyed key is never handed out |
| telemetry (`packages/nestjs-telemetry`) | none beyond a call | log contexts, the loggers, forwarding to Sentry | the context written first is found; every error is reported |
| data grid state (`packages/react-edg`) | React state, the filters store, the URL, two timers | filters, search, sorting, pages, views, selection | the address restores the grid; new filters show their first page |
| columns manager (same) | the grid's columns, the draft of the modal | search, tick, pin, drag, remove, save, reset | no column is lost or doubled |
| filters, options and chips (same) | builders, the store's items, fetches under way | mount, search, pick, fetch, chips | nothing waits for a fetch that has ended |
| data providers (same) | react-query's entries | list requests of NestJS GraphQL and of Cube | what is shown is what was asked for |
| column builders and theme (same) | none | rendering | layout |
| OpenAPI tools (`tools/domain`) | the merged document | merge, tree shake, the commands | a reference of what is written leads wherever the merge keeps what it names |
| GraphQL tool (same) | the operations so far | the `auto-operations` command | the operations are valid for the schema |
| message types tool (same) | schemas, files | the `messages` and `components` commands | types module and schemas agree |
| message flow documentation (same) | the walk's call stack | the `docs` command | the diagram has every hop that can follow |
| prisma-typeorm (`tools/prisma-typeorm`) | entity definitions, files | the generator | the sides of a relation pair, imports resolve |
| asyncapi and test collector (`tools`) | none | text generation, copying of reports | their text |

How the messaging parts interact. A message is built, sealed and perhaps
encrypted by a `MessageBuilder` and added to a *gateway's* queue. The gateway's
worker routes it: the generated router adds it to the queues of the consumers
it is bound to. Every worker is a `TrackedQueueProcessor`, whose queue is a
*source* queue of the tracking: BullMQ calls its listeners (`active`,
`completed`, `failed`, `progress`, `stalled`), and a `TrackedQueueListener`
hears `delayed`. Each adds an *event job* to one more BullMQ queue, the event
queue. Workers of that queue (`TrackedJobEventProcessor`) apply the event to
the store: the `active` event creates the job's record when it is missing,
every event adds a row to the job's history and, when it is newer than the
record, changes the record's state. An event whose job has no record makes the
processor move the *source* job to delayed, or, past ten attempts, fail. Tasks reach the gateways' queues
through the scheduler, which keeps repeatable jobs in Redis.

How the grid's parts interact. The builders describe columns and filters; the
grid's component keeps selected filters, sorting, page and view, mirrors them in
the URL and gives them to `useList`, which asks a data provider. The filters
store is shared by the panel, the toolbar and the chips.

What is hard in it: the event workers run concurrently, in several processes;
each handler makes three to six calls that other workers' calls interleave
with; BullMQ delivers an event at least once, in an order that priorities and
delays only bias; a worker can lose its lock and go on; the database can commit
a write and lose the reply; no statement but the last is in a transaction. A
router that fails half way has already sent. Messages share their data with the
builder they come from. Processes of different releases schedule at the same
time. In the grid, effects, timers and answers arrive in orders nobody chose.
The tools merge and walk graphs that may be cyclic, and write files one by one.

## 2. The plan

Done, in the order of importance: the store and the event processor
(`TrackedQueueRepository`, `TrackedJobEventProcessor`) and their proofs; the
abstract history they implement (`TrackedHistory`); the source queue and its
listeners, composed with the processor (`TrackedPipeline`), shown to be one of
the environments the processor is open to, and proved so; the scheduler; the
router; messages with the vault; the grid and its parts; the tools; and the
proofs of every safety property the runs check, but for the search of a log
context (section 7).

Left, in this order:

1. the source queue with several queues and job priorities;
2. the page size and multi-column sorting of the grid, the sorting and the CSV
   export of the providers.

## 3. Modules and the code

### Tracking

**`TrackedQueueRepository`** (from `TrackedQueueRepository.ts` and
`schema.prisma`). `jobs` is the table `TrackedQueueJob` as a function on the
tracked job ids (`@@unique([jobId])` makes a job id one job, whatever its
tenant), `rows` the set of `TrackedQueueJobEvent` rows, `now` the clock. Each
operator is one database statement; a repository method of several statements
is put together by its caller. `TimestampAt` is the expression of lines 66
and 95. `IsNewer` is line 118. `Writable` is what makes the final
`update` fail: no job under that tenant, a primary key that is taken, a state
outside the enum. The job columns other than tenant, state and updatedAt, and
the row columns statePrev, metadata and log, are left out: no decision reads
them. `updatedAt` has Prisma's `@updatedAt`, which fills the column only when
the update has columns of its own; an event that is not newer leaves it alone.

**`TrackedHistory`** is what the store and its handlers promise, with no
workers, attempts or statements: a history per job that its creation opens and
each event enters at most once and not before the opening, filed under the job's
tenant; an outcome per event that is final, and that cannot be "acknowledged"
for an event that tracks its job unless it has been entered.
`TrackedJobEventProcessor` maps its state to it (`History`): an event row is an
entry, a completed event job is acknowledged, a failed one abandoned.

**`TrackedJobEventProcessor`** (from `TrackedJobEventProcessor.ts`,
`TrackedJobEventQueue.ts` and BullMQ's rules as `src/` relies on them).
`eventJob` is the event queue: each event's data, BullMQ status and counters.
`attempt` is the running handlers: for each busy worker, the event and the next
await. Handlers are cut at every await:

| step (`pc`) | action | code |
|---|---|---|
| | `Process` | `process`: telemetry, switch (50-86) |
| `findById` | `OnActiveFind` | `onWorkerJobActive` (88-99) |
| `trackTime`, `updateTime` | `TakeTime` | `DateTime.now()` in the repository (66, 95) |
| `track` | `OnActiveTrack`, `OnActiveTrackRefused` | `trackJob` (217-246), the create |
| `findByJobId` | `OnDelayedFind` | `onQueueJobDelayed` (160-163) |
| `fetch` | `FetchJobAndLog` | `fetchJobAndLog` (176-210) |
| `exists` | `UpdateExists` | `updateTrackedJob` (263-273) |
| `delay` | `MoveToDelay` | `moveToDelay` (302-335) |
| `read` | `UpdateRead` | repository lines 97-102 |
| `write` | `UpdateWrite`, `UpdateWriteRefused` | repository lines 116-126 |
| `ack`, `throw` | `Ack`, `Throw` | the handler returns or throws; BullMQ's answer |

The four handlers for completed, failed, progress and stalled events differ
only in data that is left out, and share the steps from `fetch` on. `Crash`,
`DatabaseError`, `ReplyLost` and `StallAlive` are faults. A stall of an event
whose worker is gone (`StallAbandoned`) is recovery, not a fault.

External, modelled from how `src/` uses it: BullMQ delivers a waiting job to
one idle worker, in any order; a handler that returns completes the job and one
that throws fails the attempt, both only with the job's lock; attempts count
failures (`attempts: 5`), stalls are counted apart (`maxStalledCount: 3`). An
event's timestamp crosses Redis as JSON, so `isValid` is undefined on arrival
(`Received`). What the environment chooses: which events are emitted (`Emit`),
whether the source job is found (`FetchJobAndLog`), whether BullMQ accepts to
move it (`MoveToDelay`).

**`TrackedPipeline`** (from `TrackedQueueProcessor.ts`,
`TrackedQueueListener.ts`, `TrackedJobEventQueue.ts`) resolves all three.
`source` is the source queue's jobs, `running` the workers that run one, `calls`
the listeners that have started and not yet added their event: a listener of a
full event asks Redis for the job's state (`AskState`) in one step and adds the
event (`AddEvent`) in another, and may be lost in between (`LoseEvent`). A run
has the job's lock or has lost it: whoever takes the job later has it, and only
the run with the lock of an active job can end it (`Ends`), as BullMQ compares
the token. `moveToDelay` has none and moves the job whoever runs it.

`cancels` is the calls of `moveToFailed` that `moveToDelay` makes past the job's
attempts and does not wait for (313-317): the handler goes on and is
acknowledged, while the call takes effect later (`CancelSucceeds`, on whatever
run the job then is in) or is refused or lost without anybody hearing of it
(`CancelFails`). `spent` is the workers whose `fetch` found such a job.

| action | code |
|---|---|
| `Take`, `Complete`, `Fail`, `ReportProgress` | `onActive`, `onCompleted`, `onFailed`, `onProgress` of `TrackedQueueProcessor` and the outcome BullMQ gives the job |
| `OnStalled`, `OnFailedUndefined` | `onStalled`; `onFailed` without a job |
| `Refused` | `onError`: BullMQ refuses the outcome of a job that was moved away or that another worker has taken |
| `SourceCrash` | the process dies, of itself or by `process.exit` |
| `LoseLock` | external: a worker does not renew its lock in time and goes on |
| `FetchSourceJob`, `FetchFails` | what `fetchJobAndLog` finds |
| `DelaySource` | `moveToDelay` (322-332) moves an active job, whoever runs it, and the `delayed` event it causes |
| `DelayThrows` | the same, when the move is refused or fails, or the job was moved and the progress report or the question for its state after it fails: the event's attempt fails |
| `DelayNothing` | without a job, the handler returns (311) |
| `CancelSource`, `CancelSucceeds`, `CancelFails` | `moveToFailed`, not awaited (313-317) |
| `Promote` | external: a delayed job waits again |

### Messages

**`MessageRouting`** (from `MessageQueueInput.ts`, `strong-gateway.ts.hbs`,
`MessageConsumer.ts`, `MessageQueue.ts`). `definition` is a gateway's bindings,
`job` the gateway's job of each message with the place its router is at,
`received` counts the copies each consumer's queue has. A case is the index of
its binding, `Default` is 0; `Before` is the order in which the generator writes
the cases, those without a pattern first; `FallThrough` is the case
whose pattern does not match and that has no `break` then. `Send` goes on,
`SendRefused` is `isAllowed`, `SendFails` a rejected `add` that may have stored
the message, `Stall` a worker that is gone, `Retry` BullMQ's next attempt from
the start.

**`Messages`** (from `MessageBuilder.ts`, the vault of
`TrackedQueueRepository.ts`, `crypto.ts`). `heap` holds data objects, `messages`
and `builder` refer to them: `seal`, `encrypt` and `decrypt` copy a message and
share its data, and change it in place. A ciphertext is the sequence of the keys
it was encrypted under, a seal is what was hashed. `queue` holds serialized
copies; `forgotten` remembers whose keys were destroyed, `touched` whose data
was changed in place after it was built. `sealedWith`, in a message, is the key
it was encrypted under when `build` sealed it: `seal` comes after `encrypt`, so
the seal is of the ciphertext.

**`TaskScheduler`** (from `TaskScheduler.ts`, `TaskGateway.ts`,
`MessageQueue.ts`). `repeatables` and `delayed` are what the queue holds in
Redis; `proc` is, for each process of the application, where its `schedule()`
is. A release is a sequence of tasks; processes start, die and start again with
any release.

| action | code |
|---|---|
| `Start`, `Finish` | `schedule`, its loop (18-32) |
| `Check` | `scheduleAt` 62-68, `scheduleEvery` 101-108 |
| `List` | `removeExistingRepeatableJobs`: the awaited list (221) and the test (229) |
| `Remove`, `RemoveFails` | the removals nobody awaits (224-234) |
| `Add`, `AddUnanswered` | `AbstractMessageQueue.add` (64-89) |
| `AddRefused` | the same, for a type the queue does not allow (67-71) |
| `CallFails` | a rejected call, caught in the loop (28-30) |
| `Die`, `RunDelayed` | external: a process dies, BullMQ runs a delayed job |

A job's name is a base (`opts.name` or the type) and the repeat options; the
model keeps the two apart, and `Includes` says which bases contain which types.
The hash of the data is `Data`. A process's removals reach Redis before its
add: they are sent first on the same connection. `scheduleEvery` is not told
how they end. `IdListed` is whether BullMQ lists the id of a repeatable job:
versions since 5.10, which `package.json` asks for, do not. `startAt` and
`endAt`, which change a definition's key and not its name, are left out.

The logger is three modules, so that its recursion is apart from its states.
**`Logged`** has the trees that are logged. **`LogContext`** (from
`LogContext.ts`, `NestjsLogger.ts`) is the recursive search of such a tree for a
context, to `maximumDepth`. **`Telemetry`** (from `NestjsLogger.ts`, `utils.ts`,
`TrackedJobTelemetry.ts`) is one call of a logger, from the context (`GetContext`)
over what goes to Sentry (`Report`) to the entry (`WriteEntry`, `WriteThrows`)
and a job's own log (`LogToJob`). `log.given` is the parameters as the caller
gave them, `log.params` what is left of them after the line that takes the first
one of a call through Nest's logger for its caller (`NestjsLogger.ts:119`). It
takes the search as a parameter, and `MCParts` gives it that of `LogContext`.

### The data grid

**`DataGrid`** (from `DataGrid.component.tsx`, its hooks and the filters store).
`tab` is one browser tab: selected and interim filters, sorting, page, view,
selection, what the search shows and what it is about to apply. `url` is the
address. A handler and the effects of the commit it causes are one step, as
React flushes them before the next event; the two debounces are steps of their
own (`Navigate` writes the address, `ApplySearch` the search), and so are
reloading and opening a link. One column stands for the sorted ones.

**`ColumnsManager`** (from `useColumnsManager.ts`, `useColumnsManagerSort.ts`,
`GroupedColumns`, `ColumnsManagerModal`): the draft of the modal, one action per
handler, and the views that replace the grid's columns under it.

**`FilterOptions`** (from `BaseFilter.ts`, `filters.store.ts`,
`DataGridFilterItem`, `DataGridFiltersChips`): builders and their calls, the
items that fetch options when they are mounted, in the panel and in the toolbar,
fetches that outlive their items, and the chips.

**`GridQueries`** (from `createUseList.ts`, the two providers and their
`generateFilters`): a question becomes a query, an answer becomes rows;
requests may be left, aborted, fail and be repeated.

**`Filtering`** has `Picked`, JavaScript's `filter`, by the ranks of the indices
that are kept: `ColumnsManager`, `GridQueries`, `MessageTypes` and `Telemetry`
use it. It is no recursion, so that what it does can be proved.

### The tools

**`OpenApi`** (`merge.ts`, `tree-shake.ts`, `command.ts`): documents and
component files are merged one at a time (`MergeComponents`, `MergeDocument`),
under a prefix, and shaken once (`TreeShake`): a schema stays if anything in the
document refers to it, be it a schema that goes. Then they are written or
rendered. A reference is a group and a name, of schemas, responses, parameters
and security schemes alike; `Survives` says which components a command keeps.
What an operation means is the least set of schemas that its references lead to.
**`GraphqlOperations`** (`graphql-parse.ts`): the reduce over a schema's
resolvers. **`MessageTypes`** (`message_types/generator`): declarations become
schemas, a module of types and files, some of which fail. **`MessageFlow`**
(`message_types/docs/index.ts`): the recursive walk, with its call stack as
`frames`; what it should draw (`Reached`) is the least set of hops that the first
ones lead to. **`PrismaTypeorm`** (`prisma-typeorm/src/index.ts`): entities, their
relations and imports, file by file, some of which cannot be written.

**`MCParts`** puts instances of the parts that share no state with one another
into one module: the tools, the logger, the columns manager, the filters'
options and the queries. A behaviour runs one of the parts (`part`) and leaves
the others as they were, so the run explores each as if it were alone. The other
`MC` modules give the constants of one module values for TLC.

## 4. The runs

| run | property | what it shows |
|---|---|---|
| `Redelivery` | `RecordedOnce`, `AckedActiveIsRecorded` | two workers, with a retry, crash, lost reply or lost lock: each event is in its history at most once, and an acknowledged active event is in it |
| | `HistoryOpensWithCreation` | no row is older than the creation row, when two workers race to create |
| | `NoSilentLossOnceTracked` | an event that waits while its job is tracked is not lost without a trace |
| | `ImplementsHistory` | all of that implements `TrackedHistory` |
| `Settle` | `TypeOK`, `EventsSettle` | every event job ends, whatever it says and whatever fails |
| | `TenantIsTheMessages` | events that carry no tenant are never filed under a wrong one |
| `Pipeline` | `ImplementsProcessor` | source queue and listeners are an environment of the event processor: what holds of it holds of the whole path |
| | `RunsAreTracked` | without a fault, every job that ran is tracked when all is quiet, in whatever order its events are processed |
| | `SourceJobsSettle` | a job that its own events move to delayed or, past its attempts, fail once more, is run to its end nevertheless, whichever of two workers has its lock |
| `Schedules` | `TypeOK`, `ScheduledTasksRecur` | what all processes scheduled is there in the end |
| | `SingleSchedule` | a task has one schedule after upgrades, unless two processes ran at once or a removal failed |
| | `ScheduleEnds` | `schedule()` gets past what cannot be scheduled |
| `Routing` | `CompletedMeansDelivered` | where patterns tell the types, a completed job reached the queues of one of its bindings and no others, over any failed sends and stalls |
| | `CopiesAreRetries` | a queue has no more copies than the job had runs |
| | `JobsSettle` | the router ends, and no refused message is retried for ever |
| `Messages` | `SealedMessagesVerify` | what carries a seal of `build` verifies exactly when it is encrypted as it was sealed, however its builder, its copies and other messages are used afterwards |
| | `EncryptedIsReadable` | what `build` encrypted can be decrypted while its key is kept, unless `encrypt` or `decrypt` of a copy has changed its data in place |
| | `DestroyedStaysUnreadable` | after an entity's keys are destroyed none of its messages is readable |
| | `TraceStartsTheChain` | the trace id is that of the first message of the chain |
| `Grid` | `TypeOK`, `AddressRestoresTheGrid` | once the timer has run, the address gives back what was left, when the search of the reopened grid has settled too; what it does not give back is named below |
| | `FiltersStayReachable` | the search is always in the toolbar and shows the text that filters |
| | `FirstPageOfNewFilters` | whoever changes the filters, page 1 is shown |
| `Parts` | `ColumnsAreKept`, `OneColumnAtATime` | the grid keeps every column once; one gesture changes one column, also while the search hides others |
| | `LoadingMeansPending`, `ChipsAreNamed` | no chip waits for a fetch that has ended, and none shows a bare value its fetch can name |
| | `SettledShowsAsked` | whatever was asked and left before, the grid shows the page it asks for, of the rows that meet its filters |
| | `ReferencesLead` | a reference of what is written leads to a component exactly when the merge keeps what it names |
| | `OperationsAreKept` | every operation is in the merged document unless a later one has its very path, secured by what it declares or by the FIRST document's root, and means what it meant unless a later document redefines a schema |
| | `OperationsAreValid` | the generated GraphQL operations are valid for their schema |
| | `ModuleAndSchemasAgree` | a failed command writes nothing; one that ends well wrote the same schemas twice |
| | `FlowIsDrawn` | the diagram has the hops that can follow, and no others, in an order that can happen |
| | `RelationsPair`, `ImportsResolve` | where one relation alone joins two models its two sides agree, and imported files exist |
| | `ContextIsFirstFound`, `ErrorsReachSentry` | a context is what is written first; every error an `error()` is given reaches Sentry as often as it is given, but for one that is taken for the caller, and once more what could not be written |

Four runs end in a violation. Each is a statement of a comment or a test that
the code does not keep:

- `LostUpdate`: the test title at
  `TrackedQueueRepository.integration.test.ts:212` promises the latest event's
  state; two workers' reads and writes interleave and the older one stays.
- `FinalState`: the test at `TrackedQueueProcessor.integration.test.ts:485`
  expects a job that was delayed and then completed to be tracked as completed;
  rows are stamped with the time of processing, so an older event that is
  processed after the completion has the newer row.
- `Misrouted`: the comment at `MessageBinding.ts:44-45` has messages sent to
  queues "depending on successful matches"; the generated case
  (`strong-gateway.ts.hbs:168`) breaks only after a match, and without one the
  switch runs the body of the next case, of whatever type.
- `DelayedTwice`: `TaskGateway.ts:73-75` allows a single scheduled job per
  configuration; the id meant for it is replaced.

More disagreements follow from the same modules and have no run of their own:
`TrackedJobEventProcessor.ts:113` takes a row's time to derive from
`job.finishedOn`, which is what `FinalState` turns on; a delayed event of a job
of another tenant than the default fails for good (`OnDelayedFind`); the log at
line 270 says "delaying" while the event itself is acknowledged and gone
(`MoveToDelay`); `TaskGateway.ts:120-122` allows a single repeatable job, and
two releases that start together leave two, which `SingleSchedule` sets apart
with `astray`. From the test at `TaskGateway.ts:229`: a task with an `opts.name`
that does not contain its type keeps its old schedule when its frequency
changes, and a task removes the definitions of every task whose name contains
its type: the releases of the run name tasks by types of their own.

Some properties say exactly what the code does where one would wish for more.
Each is an equivalence or names its exceptions, so that the weak cases are in
the formula and in the run:

- `SealedMessagesVerify`: a copy made by `encrypt` or `decrypt` keeps the seal
  and does not verify. Where fields are encrypted the copy shares its data
  (`MessageBuilder.ts:240`), so the original does not verify either, until that
  data is encrypted again. `EncryptedIsReadable` leaves the data so changed out
  (`AsBuilt`): an original whose data a copy has decrypted has nothing left to
  decrypt.
- `AddressRestoresTheGrid`: a view that brings a search text opens at page 1
  whatever page the address has, because the search applies its value 200 ms
  later as if it had been typed (`Search.component.tsx:28-36`); filters or a
  sort that were all removed come back from the view or the default, since the
  address keeps no sign of their removal; a word with a comma comes back as two.
- `ReferencesLead`: a group of the first document replaces the same group of the
  component files, though it be empty (`merge.ts:109-116`), and of later
  documents only the schemas are merged (158-164): references to the rest
  dangle, and `merge` writes such a document without validating it.
- `OperationsAreKept`: an operation that declares no security is secured by the
  first document's root, not by its own document's (`merge.ts:86`). Behind a
  first document without security it becomes public.
- `ErrorsReachSentry`: through Nest's logger the first parameter is taken for
  the caller and dropped, also when it is an error (`NestjsLogger.ts:119`).
- `RelationsPair`: of two relations between two models it says nothing. The
  other side of a relation is found by its type alone
  (`prisma-typeorm/src/index.ts:467`), so both lead to the first.

### Bounds

- `Redelivery`, `Settle`, `LostUpdate`: two workers are what a race needs; two
  events are a create and an update, a third is one to overtake it.
  `MaxAttempts` is 2 for the code's 5 and `MaxStalls` 1 for its 3: one retry
  and one redelivery are the first that can repeat a write. What the bounds cut
  off is covered by the proofs (section 6). `MaxFaults` counts database errors,
  lost replies, crashes and lost locks. `MaxTime` bounds the clock; ticks are
  free, so two writes may share a millisecond. `Settle` has the clock standing
  still: no guard reads it. `Offered` is the events of a run.
- `Pipeline`: one job, two source workers, one event worker, five events:
  taken, delayed, taken again and completed are four. Two workers are what it
  takes for one to run a job whose lock the other has. `SourceAttempts` is 2 and
  `CancelAfter` 1, for the code's 10: after one failed attempt an early event
  no longer delays the job but fails it. `MaxFaults` is one budget, of one, for
  the faults of both queues, lost locks, retries and reports of progress; a stall
  follows from a crash or a lost lock and has no bound of its own, and neither
  has a delay whose handler throws. The clock stands still: no guard of the
  path reads it. Event jobs have one attempt: retries are `Redelivery`'s. More
  event workers and more faults are covered by the proofs, which hold for any
  number of both.
- `FinalState`: one source worker and one attempt, and a clock of two ticks,
  which its property is about.
- `Schedules`: `MaxStarts` 3, `MaxFaults` 2: with three starts one of two
  processes is upgraded, and dies or not, while the other works.
- `Routing`: three attempts and three faults on five definitions, among them
  several bindings of a type, patterns that match and do not, a queue that
  refuses the type, and a job whose label is not its type.
- `Messages`: two messages, three data objects, one job in the queue and two
  vault records: the original, a derived message and the builder, which is what
  sharing needs. Tenants and record ids are symmetric; the run has no temporal
  property.
- `Grid`: two filters (one of them the search), three words, one of which is
  read as two, two views, two pages; the grid is opened without parameters, and
  any address it has written is opened again by a reload.
- `Parts`: the constants of each part are in `MCParts`. `MaxDepth` (of
  `MessageFlow`) 6 calls, `Defects` 2, `MaxLeft` 1 request left under way,
  `MaxCalls` 2 on a builder, `MaxFetches` 2 of a filter.

Runs switch deadlock checking off because the bounds let the system come to
rest.

## 5. Fairness

`FairSpec` of the event processor: a waiting event is eventually given to an
idle worker (BullMQ's workers poll for ever), a handler that runs makes its
next step (each `await` settles), the stalled check runs for an event whose
worker is gone (BullMQ's `stalledInterval`). All of it is weak fairness, per
worker and event: none of these actions is disabled again and again by others
but by being done, except the delivery of one event to one worker, which
another worker's delivery may replace: then the event has moved on.
Emission, the clock, faults and the loss of a lock by a living worker are not
fair: they may never happen.

`PipelineFairness` adds, for the same reasons, that a source worker that is idle
takes a waiting job and one that runs comes to an end (a handler that never
returns is outside what the code can promise), and that BullMQ promotes delayed
jobs and checks for stalled ones, which a run that lost its lock does not
prevent. That a cancelled job's `moveToFailed` ever takes effect is not assumed.
Of the event queue it asks only that, while a
listener's call can settle or an event can be delivered or redelivered, one of
these happens (`EventQueueStep`): which event goes first is left open. Adding
source jobs, progress and faults, lost locks among them, are not fair.

`FairSpec` of the task scheduler: a process that is up goes on; starts and
faults may never come. `FairRouteSpec`: the gateway's worker goes on with the
router it runs and takes what waits; sends that fail and stalls are not fair.

## 6. Proofs

`TrackedJobEventProcessor_proofs` proves, for any finite or infinite sets of
jobs, events, tenants and workers and any bounds, from the assumptions the
modules name (`ProcessorAssumption`, `TimeAssumption`, `CreationIdAssumption`):

| theorem | states | through |
|---|---|---|
| `TypeCorrect` | `Spec => []TypeOK` | `TypeStep`: inductive by itself |
| `TenantsApart` | `[]TenantIsTheMessages` | `HistoryInv` |
| `HistoryOnce` | `[]RecordedOnce` | `HistoryInv` |
| `ActiveRecorded` | `[]AckedActiveIsRecorded` | `ActiveInv` |
| `HistoryOpens` | `[]HistoryOpensWithCreation` | `OpeningInv` |
| `NoSilentLoss` | `NoSilentLossOnceTracked` | `LockInv`, then `Safe(e)` |
| `HistoryImplemented` | `Spec => ImplementsHistory` | the invariants above, action by action |

`TrackedPipeline_proofs` proves, with `PipelineAssumption` besides, of any number
of source jobs and source workers:

| theorem | states | through |
|---|---|---|
| `PathTypeCorrect` | `PipelineSpec => []PipelineTypeOK` | `PipelineInv` |
| `ProcessorImplemented` | `PipelineSpec => ImplementsProcessor` | `PipelineInv`, `ProcessorStep` |
| `RunsRecordedOnce` | `PipelineSpec => []RecordedOnce` | `ProcessorImplemented`, `HistoryOnce` |
| `RunsMakeHistory` | `PipelineSpec => ImplementsHistory` | `ProcessorImplemented`, `HistoryImplemented` |
| `TakenJobsTracked` | `PipelineSpec => []RunsAreTracked` | `TrackInv` |

Four more modules prove the properties of a component each, `GridParts_proofs`
those of the rest of the grid and `ToolParts_proofs` those of the tools and the
logger, from the assumptions of the components' modules and those the theorem
names:

| module | theorem | states | through |
|---|---|---|---|
| `TaskScheduler_proofs` | `SchedulesTyped` | `Spec => []TypeOK` | `Typed` |
| `TaskScheduler_proofs` | `OneScheduleEach` | `NamesTell` implies `Spec => []SingleSchedule` | `ScheduleInv` |
| `TaskScheduler_proofs` | `TasksGoOnRecurring` | `TasksApart` implies `Spec => []ScheduledTasksRecur` | `RecurInv` |
| `MessageRouting_proofs` | `CopiesBounded` | `EachQueueOnce` implies `RouteSpec => []CopiesAreRetries` | `CopiesInv` |
| `MessageRouting_proofs` | `CompletedDelivered` | `LabelsTell` implies `RouteSpec => []CompletedMeansDelivered` | `DeliveryInv` |
| `Messages_proofs` | `ForgottenForGood` | `Spec => []DestroyedStaysUnreadable` | `VaultInv` |
| `Messages_proofs` | `MessagesTyped` | `Spec => []TypeOK` | `MessagesInv` |
| `Messages_proofs` | `SealedVerify` | `Spec => []SealedMessagesVerify` | `MessagesInv`, `SealsOK` |
| `Messages_proofs` | `EncryptedReadable` | `Spec => []EncryptedIsReadable` | `MessagesInv` |
| `Messages_proofs` | `ChainsTraced` | `Spec => []TraceStartsTheChain` | `MessagesInv` |
| `DataGrid_proofs` | `GridTyped` | `Spec => []TypeOK` | `GridInv` |
| `DataGrid_proofs` | `GridRestored` | `Spec => []AddressRestoresTheGrid` | `GridInv` |
| `DataGrid_proofs` | `SearchReachable` | `Spec => []FiltersStayReachable` | `GridInv` |
| `DataGrid_proofs` | `NewFiltersFirstPage` | `Spec => FirstPageOfNewFilters` | `GridInv` |
| `GridParts_proofs` | `LoadingIsPending` | `FilterSpec => []LoadingMeansPending` | `StoreInv` |
| `GridParts_proofs` | `ChipsNamed` | `FilterSpec => []ChipsAreNamed` | `NamedInv` |
| `GridParts_proofs` | `ColumnsKept` | `ColumnsSpec => []ColumnsAreKept` | `ColumnsInv` |
| `GridParts_proofs` | `ColumnsOneAtATime` | `ColumnsSpec => OneColumnAtATime` | `ColumnsInv` |
| `GridParts_proofs` | `AskedIsShown` | `QueriesSpec => []SettledShowsAsked` | `QueriesInv` |
| `ToolParts_proofs` | `ImportsThere` | `PrismaSpec => []ImportsResolve` | `PrismaInv` |
| `ToolParts_proofs` | `RelationsMatch` | `PrismaSpec => []RelationsPair` | `PrismaInv` |
| `ToolParts_proofs` | `OperationsValid` | `GqlSpec => []OperationsAreValid` | `GqlInv` |
| `ToolParts_proofs` | `ReferencesLeadToTheKept` | `ApiSpec => []ReferencesLead` | `ApiInv` |
| `ToolParts_proofs` | `OperationsStay` | `ApiSpec => []OperationsAreKept` | `ApiInv` |
| `ToolParts_proofs` | `TypesAgree` | `TypesSpec => []ModuleAndSchemasAgree` | `TypesInv` |
| `ToolParts_proofs` | `DiagramIsComplete` | `FlowSpec => []FlowIsDrawn` | `FlowInv` |
| `ToolParts_proofs` | `ErrorsReported` | `LogsSpec => []ErrorsReachSentry` | `LogInv` |

What the theorems suppose of the constants, beside their types:

- `EachQueueOnce`: no binding of a gateway names a queue twice. The generated
  router adds to a queue as often as it is named.
- `LabelsTell`: a job that goes by another name than its message's type meets no
  pattern-less binding of that name, or only one whose queues refuse the
  message. A pattern-less case asks for the job's name alone, so without it a
  message is sent where it is not bound to.
- `NamesTell`: the repeatable jobs' ids are listed, or every task's name includes
  its type. `scheduleEvery` recognizes what to remove by the id or the name,
  and a task named after something else is added beside its old definition.
- `TasksApart`: what `scheduleEvery` takes for a task has the task's name and
  data, and a release has the task once. A process removes what it takes for
  its own, so a task taken for another would be removed by it and not replaced.
- `ColumnsAssumption`: the columns of the builders and of each view have every
  key once and two at most on a side.
- `QuestionsAssumption`: pages count from 1, the operators are those the
  providers know, groups hold plain filters and are not of a time field, and no
  answer is `None`.
- `DocumentsAssumption`: a document has a name, and its paths are sequences of
  strings.
- `SchemasAssumption`: a GraphQL schema has every type once, and no type or
  scalar is called "name", what a type under deep wrappers is taken for.
- `PrismaAssumption`: what Prisma's own validation grants. Models have names of
  their own, an enum field is of an enum of the schema, and a relation between two
  models has one opposite field and foreign keys on one side at most. A relation
  field is not in the key, and not called "createdAt" or "updatedAt": the
  generator makes these something else.
- `RepositoriesAssumption`: a queue that a binding sends to is not named as a
  gateway, and a message has one handler at most behind a gateway, of the class of
  its first outgoing binding. Where there are more, the documentation draws the
  first and is silent on the rest.
- `SourcesAssumption` and `ParamsAssumption`: declarations and parameters come as
  sequences; the call's message is none of its parameters.
- `DataGridAssumption` and `AddressesAssumption`: there is a page, the search is
  in the toolbar, the parts of a word are words, the addresses that are typed in
  are addresses.

The instances of the runs `Routing`, `Schedules` and `Grid` satisfy them.
The specifications of `GridParts_proofs` and `ToolParts_proofs` are each that
part's share of the run `Parts`, whose instances satisfy their assumptions and
which checks the thirteen properties on them.

The argument, from one invariant to the next:

- `HistoryInv` adds the tenants to `RecordedOnce`. The key of the event rows
  includes the tenant, so a key that is unique says nothing of a job and an
  event unless all rows of a job have one tenant. They do: `trackJob` files a
  job under its message's tenant, and an update under another finds no job.
  `TracksHistory` and `UpdatesHistory` are the two statements that write;
  `StoreStep` shows that there are no others.
- `ActiveInv` says where a handler can be (`HandlerOK`): one that reads or
  writes has a tracked job; one of an active event never reaches `delay`,
  because it found or created the job first, and comes to `ack` only through the
  write. The create that is refused throws. Jobs and rows are never taken away
  (`StoreGrows`).
- `OpeningInv` is about time. The creation row is stamped with the time taken
  before the create (`at <= now` while the create is on its way), and a handler
  that will write takes its time after it has seen the job, hence after the
  creation row's. So `Opens` carries a bound on the pending times of the running
  handlers beside the one on the rows.
- `LockInv` says that at most one running handler holds an event's lock, and
  that the event is then active. From a state in which `e` waits nobody holds
  its lock; a handler that takes it later starts when the job is tracked.
  `Safe(e)` says so of the handlers with the lock only: an earlier handler that
  decided on a state in which the job was unknown may still run, but cannot
  acknowledge. `SafeStep` shows that `Safe(e)` is kept for ever.
- `HistoryImplemented` needs all of them: that an event is entered only after
  the opening and not before its time is `OpeningInv`, that it is entered once
  and under the job's owner `HistoryInv`, that an active event is acknowledged
  only when entered `ActiveInv`.
- `PipelineInv` is `TypeOK` with `PathOK`: the source queue and its runs are
  typed (a job that has not failed for good has attempts left, which a failure
  by any worker or by a late cancel respects, `FailedAgain`), and every
  listener's call (`CallOK`) is of a job that is or was in the queue, with an id
  no event has, and past `getState` carries an answer of Redis. Without it
  nothing says that what a listener adds is among the events the processor may
  be offered; with it, every step of the path is a step of the processor or
  leaves it alone (`ProcessorStep`). `Keeps` is what every step does to the
  source queue: no job vanishes.

- `TrackInv` is for `RunsAreTracked`, whose run goes through three actors: the
  source worker, the listener and a worker of the event queue. `ToldOf` follows
  it: until the job is in the table, a listener's call or an event of `onActive`
  names it (`OnTheWay`, as long as nothing failed). An event may end without
  having tracked its job only in two ways, and both are excluded: it is given
  up, which `GivenUpTracked` allows for tracked jobs only (a create is refused
  when the job is already there), or its handler is gone without a fault
  counted, which `Attended` excludes. That a completed opening event has tracked
  its job is `ActiveInv`.

- `CopiesInv` bounds the copies in every state of a run, not only where they
  are counted. A run has sent to the queues before the one it is at, once to
  each (`SentTo`), so a run that fails or stalls costs a copy at most, which
  the retry it counts pays for. It falls through to the next case only from the
  first queue, that is before it has sent: without `Placed` a run could fall
  through after a send and send again.
- `DeliveryInv` follows a run through the cases. The cases are ordered by
  `Before`; no binding of the message is behind the case the run is at
  (`Ahead`), a case that takes the message has sent to the queues before the
  current one (`Sent`), so the case that ends a run has reached all of its
  queues, and it is one without a pattern if the message has such a binding.
  That a nonempty set of bindings has a `First` is the one induction needed: a
  set of naturals has a least element (`NatLeast`, `NatGreatest`, from the
  well-foundedness of the order).
- `ScheduleInv` is `Typed` with `Tidy`: one process at most is at work, and
  whatever its next definition would double is among the removals under way
  (`Clears`), which the step that adds waits for. What an earlier process left
  by dying between its removals and its add is found by the next one.
- `RecurInv` is about several processes: if every one says it has scheduled a
  task (`Covers`), the definition that one of them left is there (`Leaves`). A
  definition goes away only in a process that is about to add the task again,
  and that process does not cover it meanwhile; only by `TasksApart` is what it
  takes away of no other task.
- `VaultInv` says that an entity has one record, and that one that was to be
  forgotten has lost its key. Without the first a destroyed key could be
  found again in a second record.
- `MessagesInv` has three parts. `ObjectsOK`: every message refers to data there
  is, and none to the caller's object. `ChainOK`: messages of one id (a message
  and its copies) have the same parent and trace, so a message correlated to a
  copy continues the same chain. `ContentOK`: what `build()` made is as it was
  built, sealed over its content and encrypted once, as long as nothing touched
  the data object, which `seal`, `encrypt` and `decrypt` share between copies;
  a job in the queue has its own copy for good.
- `SealsOK` drops that condition, for `SealedVerify`. Whatever was done with a
  message since, its seal is of some content that was encrypted under
  `sealedWith`, and its content now can differ from that one only in how it is
  encrypted (`Alike`), for nothing else changes a data object in place. So the
  two are equal exactly when the content is encrypted as it was then.
- `GridInv` relates the grid to its address in every state, not only when the
  debounce has run: `Synced` says what of the grid the query parameters have,
  and that the address has them unless the debounce is pending; an order that
  is not written is the view's own or none that shows. `Pending` and `Settled`
  say the same of the search: what its debounce will write is the text that is
  typed, and with none pending the text is the filter's. What an address opens
  is then computed from it (`OpenedOK`), and what it comes to rest with, when a
  view's search has been applied (`AtRestIs`), for `GridRestored`. One induction
  gives all four theorems.
- `StoreInv` counts every fetch that an item has started (`FetchesPending`), also the
  ones of items that are gone, and says that the store is empty while the grid
  is closed: a late answer finds no filter to mark. `NamedInv` adds that a
  filter that fetches and is shown is loading, has the options its fetch
  answers, or has failed: there is no moment between the mounting of its item
  and the mark in which chips could be drawn.
- `ColumnsInv` says of the columns and of the draft that each lists a set, every
  element once (`Lists`), and what set: `Complete` with all the keys, `Selection`
  with two at most on a side. Lemmas say what the operations on sequences do to
  the set that is listed (`PickedLists`, `MappedLists`, `JoinedLists`,
  `RemovedLists`, `InsertedLists`, `ExchangedLists`); every handler is then one
  `OneChange` of a set, from which both theorems follow. That `Kth` finds an
  index for every rank is the pigeonhole principle (`KthOf`): no induction.
- `QueriesInv`: the cache has for a question nothing or its own `Answer`,
  whichever request brought it, and a question that nothing runs for has been
  answered or has failed. That an answer is what the question asks for is a
  matter of its query: each provider's filters mean what the grid's do where they
  can be put (`Expressible`), and the page cut out of the answer is the page that
  was asked for. Both are about sequences that are filtered: `PickedIs` and
  `KthOrder` say what `Picked` keeps and in what order.
- `PrismaInv` says how far the two loops of the generator are: definitions and
  files are those of the models so far, in the order of the schema. Imports and
  relations are then facts about the schema alone; a relation's two entries are
  each computed from one side, and agree because the foreign keys are on one
  side at most.
- `GqlInv`: what is rendered is valid at once and stays so. The work is in what
  the reduce makes of one query: the relations it selects, the type it takes a
  field for.
- `ApiInv` follows the document through the stages. `Gathering` and `Merging`
  say exactly which components it has while the loops run, those it was given so
  far and no others, in whatever order names are redefined; `Gathered` that
  these are what `Survives` once the loops are done, and `RefsLead` that after the
  shaking this still is so of all that is referred to: what a single pass takes
  away, nothing refers to, not even a schema that goes with it. `MergeIsKept`
  says of every document that its paths are there under its prefix and mean the
  same, unless a later document has the very path (`Overtaken`) or a schema of
  that name (`LastOfItsName`), and that the root security is the first one's.
- `TypesInv`: every declaration that is wanted is pending, faulty or made, and
  nothing is written before all are made.
- `FlowInv` holds of a walk with its stack. Every hop drawn (`Walk`) has each of
  its calls either followed to a hop that is drawn as well, or left in a frame
  that is still to go on; so once the frames are empty the drawn set is closed,
  and contains the least closed one. That it is no larger is the other half: only
  what can follow is entered. Messages that lead to each other fill the stack, and
  the command fails: the theorem is of diagrams that are finished.
- `LogInv`: the parameters are those given, without the first one if it was taken
  for the caller, and what has been captured is what the level asks for of them,
  with the errors once more if no entry was written. Times are counted, not members: `Times` of a
  sequence put together of two is the sum (`TimesConcat`), and of one filtered is
  what the filter leaves (`TimesPicked`).

The clock of the code is the wall clock of one machine or several; the model and
hence `HistoryOpens` assume that it does not go back.

## 7. Model-checked only

- Liveness (`EventsSettle`, `SourceJobsSettle`, `ScheduleEnds`, `JobsSettle`) is
  beyond the proof system.
- `ContextIsFirstFound`: `LogContext` searches trees with recursive operators,
  which the prover does not take, and what the search finds in a tree of any depth
  is an induction over the tree. Only its result enters `Telemetry`, and
  `ErrorsReported` holds whatever it finds.

## 8. Not modelled

- Of the tracking: metadata, logs and progress of a job. Progress that is an
  object is turned to `NaN` by `Number(progress)`; `recalcProgress` and its
  branches are left out with it. Jobs with a parent or a priority, whose state
  is neither of those in `Answer`.
- Of the scheduler: `removeExistingDelayedJob`, which nothing calls, and the
  checks of an option's text. Of the builder: `validate`, whose answer `build`
  ignores. Ciphers are abstract: who has the key can read. The
  vault's own secret, `NESTJS_DMQ__VAULT_SECRET_KEY`, is taken as configured:
  without it every record is encrypted under a random key that is thrown away.
- Of the grid: the page size, several sorted columns, two grids on one page
  (which share an address), what columns, filters and the theme render, and how
  a filter builder reads its text. A provider's sorting, selected fields and
  CSV export. Questions a provider cannot put (a group with a member that has
  no value; a filter that covers another of its field for NestJS; `nin`, `null`
  and `nnull`, and several filters of one time field for Cube) are outside
  `SettledShowsAsked`: its `Expressible` names them.
- Of the tools: templates, handlebars helpers, the rules of the Istio policy,
  what `orval`, `ts-json-schema-generator`, Prisma and the GraphQL parser do
  inside, decorators' text. The asyncapi generator and the test collector keep
  no state: text over third-party parsers, and copied files.
- Of telemetry: the Sentry service and decorator, which run inside Sentry's
  client.
