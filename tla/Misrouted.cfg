CONSTANTS
  signup = signup
  billing = billing
  nightly = nightly
  first = first
  second = second
  task = task
  mails = mails
  ledger = ledger
  audit = audit
  Types = {signup, billing}
  Messages = {first, second, task}
  TypeOf <- TypesOf
  Label <- Labels
  Queues = {mails, ledger, audit}
  Allows <- AllowsOf
  Gateways <- Untyped
  Attempts = 3
  MaxFaults = 0
CHECK_DEADLOCK FALSE
SPECIFICATION RouteSpec
INVARIANTS
  DeliveredAsBound
