CONSTANTS
  t1 = t1
  t2 = t2
  v1 = v1
  v2 = v2
  secret = secret
  public = public
  None = None
  Tenants = {t1, t2}
  Entities = {"person"}
  EntityTypes = {"user"}
  VaultIds = {v1, v2}
  Fields = {secret, public}
  Protected = {secret}
  Modes = {"none", "fields", "whole"}
  MaxMessages = 2
  MaxObjects = 3
  MaxJobs = 1
SPECIFICATION Spec
CHECK_DEADLOCK FALSE
SYMMETRY TenantSymmetry
INVARIANTS
  SealedMessagesVerify
  EncryptedIsReadable
  TraceStartsTheChain
  DestroyedStaysUnreadable
