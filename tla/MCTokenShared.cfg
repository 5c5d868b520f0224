SPECIFICATION MCSpec
CONSTANTS
  Clients = {c1}
  PublicClients = {}
  NoClient = NoClient
  GrantIDs = {g1, g2}
  Codes = {x1}
  NoCode = NoCode
  Requests = {r1, r2}
  Keys = {}
  NoKey = NoKey
  Kinds = {"auth_code", "pre_auth", "assertion"}
  Formats = {"jwt", "opaque"}
  CodeLifetime = 1
  TokenLifetime = 1
  RefreshLifetime = 2
  Rotation = TRUE
  RevokeGrantOnAccessToken = TRUE
  SharedRecords = TRUE
  Failures = TRUE
  MaxSize = 1
  MaxTime = 2
  MaxTokens = 3
  MaxRefreshTokens = 3
SYMMETRY RequestSymmetry
INVARIANTS TypeOK UnsentCodeTokensDie
PROPERTIES EndedForever
CHECK_DEADLOCK FALSE
