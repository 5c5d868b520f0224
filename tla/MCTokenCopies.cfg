SPECIFICATION MCSpec
CONSTANTS
  Clients = {c1, c2}
  PublicClients = {c2}
  NoClient = NoClient
  GrantIDs = {g1}
  Codes = {x1}
  NoCode = NoCode
  Requests = {r1, r2}
  Keys = {k1}
  NoKey = NoKey
  Kinds = {"auth_code", "ciba", "device", "pre_auth"}
  Formats = {"opaque"}
  CodeLifetime = 1
  TokenLifetime = 1
  RefreshLifetime = 0
  Rotation = FALSE
  RevokeGrantOnAccessToken = FALSE
  SharedRecords = FALSE
  Failures = TRUE
  MaxSize = 1
  MaxTime = 2
  MaxTokens = 3
  MaxRefreshTokens = 2
SYMMETRY RequestSymmetry
INVARIANTS IssuedImpliesSpent RedeemedAtMostOnceSerially
PROPERTIES SpentForever ImplementsLifecycle
CHECK_DEADLOCK FALSE
