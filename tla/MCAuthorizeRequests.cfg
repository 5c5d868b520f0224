SPECIFICATION Spec
CONSTANTS
  SessionIDs = {s1}
  Workers = {w1, w2}
  Kinds = {"direct", "par"}
  Params = {x, y}
  NoParam = NoParam
  FAPI = FALSE
  PARLifetime = 1
  AuthLifetime = 2
  Managers = {"stored", "copies"}
  Failures = TRUE
  MaxTime = 3
  MaxGrants = 3
SYMMETRY WorkerSymmetry
INVARIANTS PushedParametersWin BoundedAuthorization
PROPERTIES AbortedNeverGranted
CHECK_DEADLOCK FALSE
