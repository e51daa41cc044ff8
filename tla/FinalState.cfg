CONSTANTS
  j1 = j1
  t0 = t0
  w1 = w1
  v1 = v1
  v2 = v2
  e1 = e1
  e2 = e2
  e3 = e3
  e4 = e4
  e5 = e5
  CreationId = CreationId
  Jobs = {j1}
  Tenants = {t0}
  EventIds = {e1, e2, e3, e4, e5}
  Workers = {w1}
  TenantOf <- DefaultOnly
  DefaultTenant = t0
  HasQueueSuffix = FALSE
  MaxAttempts = 1
  MaxStalls = 0
  MaxFaults = 1
  MaxTime = 2
  Offered <- ListenerContent
  SourceWorkers = {v1}
  SourceAttempts = 1
  CancelAfter = 10
  MaxExtras = 1
  RemoveOnComplete = FALSE
SPECIFICATION PipelineSpec
CHECK_DEADLOCK FALSE
INVARIANTS
  TrackedAsCompleted
