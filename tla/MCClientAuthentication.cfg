SPECIFICATION Spec
CONSTANTS
  Requests = {r1, r2}
  None = None
  Registrations <- MCRegistrations
  Credentials <- MCCredentials
  Proofs <- MCProofs
  MaxKey = 2
  MaxNonce = 1
  JWTLifetimeSecs = 1
  JWTLeewayTimeSecs = 1
  SecretExpiresAt = 2
  AttestationExpiresAt = 1
  MaxTime = 3
CONSTRAINT Relevant
SYMMETRY Symmetric
CHECK_DEADLOCK FALSE
INVARIANTS UsedAtMostOnce RetiredKeyRefused AttributionSound
