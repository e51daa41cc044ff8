CONSTANTS
  j1 = j1
  t0 = t0
  t1 = t1
  w1 = w1
  w2 = w2
  e1 = e1
  e2 = e2
  e3 = e3
  CreationId = CreationId
  Jobs = {j1}
  Tenants = {t0, t1}
  EventIds = {e1, e2}
  Workers = {w1, w2}
  TenantOf <- DefaultOnly
  DefaultTenant = t0
  HasQueueSuffix = FALSE
  MaxAttempts = 2
  MaxStalls = 1
  MaxFaults = 1
  MaxTime = 1
  Offered <- RefusedLifecycle
SPECIFICATION Spec
CHECK_DEADLOCK FALSE
INVARIANTS
  RecordedOnce
  AckedActiveIsRecorded
  HistoryOpensWithCreation
PROPERTIES
  ImplementsHistory
  NoSilentLossOnceTracked
