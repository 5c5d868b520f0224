SPECIFICATION Spec
CONSTANTS
  SessionIDs = {s1}
  Workers = {w1}
  Kinds = {"direct", "par"}
  Params = {x}
  NoParam = NoParam
  FAPI = FALSE
  PARLifetime = 1
  AuthLifetime = 2
  Managers = {"stored"}
  Failures = FALSE
  MaxTime = 3
  MaxGrants = 2
PROPERTIES FailedFlowEnds
CHECK_DEADLOCK FALSE
