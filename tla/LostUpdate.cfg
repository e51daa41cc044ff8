CONSTANTS
  j1 = j1
  t0 = t0
  t1 = t1
  w1 = w1
  w2 = w2
  e1 = e1
  e2 = e2
  e3 = e3
  CreationId = CreationId
  Jobs = {j1}
  Tenants = {t0, t1}
  EventIds = {e1, e2, e3}
  Workers = {w1, w2}
  TenantOf <- OneTenant
  DefaultTenant = t0
  HasQueueSuffix = FALSE
  MaxAttempts = 2
  MaxStalls = 0
  MaxFaults = 0
  MaxTime = 2
  Offered <- ActiveAndCompleted
SPECIFICATION Spec
CHECK_DEADLOCK FALSE
INVARIANTS
  StateOfNewestRow
