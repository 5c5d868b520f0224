SPECIFICATION FairSpec
CONSTANTS
  Tokens = {t0, t1, t2}
  First = t0
  None = none
  Requests = {r1, r2}
  Skew = 1
  PendingLife = 1
  DecisionLife = 1
  FamilyLife = 2
  MaxTime = 4
  MaxFaults = 1
INVARIANTS NeverLockedOut NoTokensAfterRevocation WireLifetimes
PROPERTIES DeliveriesSettle
CHECK_DEADLOCK FALSE
