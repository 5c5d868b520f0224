SPECIFICATION MCFairSpec
CONSTANTS
  Flows = {f1}
  None = none
  Browsers = {b1, b2}
  URIs = {u1}
  Client = client
  Skew = 1
  PARLife = 1
  Window = 2
  CodeLife = 1
  DecisionLife = 1
  MaxTime = 4
  MaxRevision = 2
  MaxPages = 1
  MaxFaults = 1
INVARIANTS TypeOK SkewBurnsNoCode CodeStaysInBrowser
PROPERTIES AdmittedRegistrationOnly ConfirmationReachesBrowser
CHECK_DEADLOCK FALSE
