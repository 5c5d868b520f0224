SPECIFICATION MCSpec
CONSTANTS
  Clients = {c1, c2}
  PublicClients = {c2}
  NoClient = NoClient
  GrantIDs = {g1}
  Codes = {x1}
  NoCode = NoCode
  Requests = {r1, r2}
  Keys = {k1}
  NoKey = NoKey
  Kinds = {"auth_code"}
  Formats = {"jwt"}
  CodeLifetime = 1
  TokenLifetime = 1
  RefreshLifetime = 2
  Rotation = TRUE
  RevokeGrantOnAccessToken = TRUE
  SharedRecords = TRUE
  Failures = FALSE
  MaxSize = 1
  MaxTime = 2
  MaxTokens = 2
  MaxRefreshTokens = 2
SYMMETRY RequestSymmetry
INVARIANTS ReuseDetected
CHECK_DEADLOCK FALSE
