SPECIFICATION Spec
CONSTANTS
  Requests = {r1, r2, r3, r4}
  None = None
  MaxTime = 2
  MaxSize = 2
  SessionTimeout = 1
  Metas <- MCMetas
  Configs <- MCConfigs
  URIs = {u1}
  Grants = {g1, g2}
CONSTRAINT Pairwise
SYMMETRY Symmetric
INVARIANTS ClientKeepsAccess RemovedForGood OneIssuancePerDeferral RecentRecordsKept
PROPERTIES RedirectsWanted
CHECK_DEADLOCK FALSE
