CONSTANTS
  p1 = p1
  p2 = p2
  old = old
  new = new
  sync = sync
  purge = purge
  audit = audit
  north = north
  south = south
  hourly = hourly
  daily = daily
  Types = {sync, purge, audit}
  Names = {sync, purge, audit}
  Data = {north, south}
  Options = {hourly, daily}
  Includes <- NamesOfTypes
  IdListed = FALSE
  Processes = {p1, p2}
  Releases = {old, new}
  Tasks <- MixedUpgrade
  Bindings <- SyncAndPurge
  MaxStarts = 3
  MaxFaults = 2
CHECK_DEADLOCK FALSE
SPECIFICATION FairSpec
INVARIANTS
  TypeOK
  ScheduledTasksRecur
  SingleSchedule
PROPERTIES
  ScheduleEnds
