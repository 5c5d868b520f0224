SPECIFICATION MCFairSpec
CONSTANTS
  Clients = {c1, c2}
  PublicClients = {c2}
  NoClient = NoClient
  GrantIDs = {g1}
  Codes = {x1}
  NoCode = NoCode
  Requests = {r1, r2}
  Keys = {k1, k2}
  NoKey = NoKey
  Kinds = {"auth_code", "client_credentials"}
  Formats = {"jwt"}
  CodeLifetime = 1
  TokenLifetime = 1
  RefreshLifetime = 2
  Rotation = TRUE
  RevokeGrantOnAccessToken = TRUE
  SharedRecords = TRUE
  Failures = FALSE
  MaxSize = 1
  MaxTime = 2
  MaxTokens = 3
  MaxRefreshTokens = 3
INVARIANTS StoredRefreshTokenDelivered BindingContinuitySerially
PROPERTIES ReplayKillsTokens
CHECK_DEADLOCK FALSE
