CONSTANTS
  j1 = j1
  t0 = t0
  t1 = t1
  w1 = w1
  w2 = w2
  e1 = e1
  e2 = e2
  e3 = e3
  CreationId = CreationId
  Jobs = {j1}
  Tenants = {t0, t1}
  EventIds = {e1, e2}
  Workers = {w1, w2}
  TenantOf <- OneTenant
  DefaultTenant = t0
  HasQueueSuffix = TRUE
  MaxAttempts = 2
  MaxStalls = 1
  MaxFaults = 1
  MaxTime = 0
  Offered <- StalledLifecycle
SPECIFICATION FairSpec
CHECK_DEADLOCK FALSE
INVARIANTS
  TypeOK
  TenantIsTheMessages
PROPERTIES
  EventsSettle
