CONSTANTS
  j1 = j1
  t0 = t0
  w1 = w1
  v1 = v1
  v2 = v2
  e1 = e1
  e2 = e2
  e3 = e3
  e4 = e4
  e5 = e5
  CreationId = CreationId
  Jobs = {j1}
  Tenants = {t0}
  EventIds = {e1, e2, e3, e4, e5}
  Workers = {w1}
  TenantOf <- DefaultOnly
  DefaultTenant = t0
  HasQueueSuffix = FALSE
  MaxAttempts = 1
  MaxStalls = 0
  MaxFaults = 1
  MaxTime = 0
  Offered <- ListenerContent
  SourceWorkers = {v1, v2}
  SourceAttempts = 2
  CancelAfter = 1
  MaxExtras = 1
  RemoveOnComplete = TRUE
SPECIFICATION FairPipelineSpec
CHECK_DEADLOCK FALSE
INVARIANTS
  RunsAreTracked
PROPERTIES
  ImplementsProcessor
  SourceJobsSettle
