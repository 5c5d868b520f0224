SPECIFICATION CrowdFairSpec
CONSTANTS
  a1 = a1
  a2 = a2
  p1 = p1
  p2 = p2
  Handles = {h1}
  Approvers = {a1, a2}
  Pollers = {p1, p2}
  Modes = {"device", "poll", "ping", "push"}
  RequestLifetime = 1
  SharedRecords = FALSE
  Failures = TRUE
  MaxTime = 2
  MaxGrants = 2
  MaxTokens = 2
INVARIANTS AnnouncedMeansRedeemable RedeemedInWindow OneTokenPerRequest
PROPERTIES RequestsSettle
CHECK_DEADLOCK FALSE
