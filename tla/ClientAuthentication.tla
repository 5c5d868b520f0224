------------------------ MODULE ClientAuthentication ------------------------
(***************************************************************************)
(* How a request authenticates its client and proves possession of a key.  *)
(* Concurrent requests of one client present credentials (client           *)
(* assertions, attestation proofs, secrets, certificates) and DPoP proofs. *)
(* A JWT is checked against the clock, the published keys, policy and      *)
(* nonces first, and then reserved at an external consumer, which forgets  *)
(* a reservation once it has expired; between any two of these the clock,  *)
(* the keys and the nonces may change.                                     *)
(***************************************************************************)
EXTENDS Integers, Sequences, FiniteSets

CONSTANTS
  Requests, None,
  Registrations,     \* [method, source, keysBy]: see Methods, Sources, Keepers
  Credentials,       \* [id, key, kid, iat, exp]: what a request authenticates with
  Proofs,            \* [id, key, iat, nonce]: DPoP proofs
  MaxKey, MaxNonce,  \* the keys the client publishes, the nonces of each scope
  JWTLifetimeSecs, JWTLeewayTimeSecs,
  SecretExpiresAt, AttestationExpiresAt,
  MaxTime

Methods == {"none", "client_secret_post", "client_secret_basic", "private_key_jwt",
            "client_secret_jwt", "self_signed_tls_client_auth", "tls_client_auth",
            "attest_jwt_client_auth"}
\* A stored client (static, dynamic or federated) is one record for all its
\* requests; ResolveClientFunc returns a new one for each.
Sources == {"stored", "resolver"}
\* Keys come with the record, by reference, or as an authority snapshot.
Keepers == {"value", "reference", "authority"}
Endpoints == {"token", "par", "other", "userinfo"}
Scopes == {"authorization_server", "resource_server"}

ASSUME ClientAuthenticationAssumption ==
  /\ Registrations \subseteq [method : Methods, source : Sources, keysBy : Keepers]
  /\ \A c \in Credentials : c.exp \in Int
  /\ \A p \in Proofs : p.iat \in Int /\ p.nonce \in {None} \cup (Scopes \X (1..MaxNonce))
  /\ MaxKey \in Nat \ {0} /\ MaxNonce \in Nat
  /\ JWTLifetimeSecs \in Nat /\ JWTLeewayTimeSecs \in Nat /\ MaxTime \in Nat

VARIABLES
  now,
  client,     \* the registration
  published,  \* the client's keys, in the order of its key set
  cache,      \* the key set cached in a stored client
  reserved,   \* the JTI consumer: [purpose, issuer, id, expires]
  issued, expired, \* nonces of each scope: up to which number
  req,        \* the requests being served
  uses        \* history: how many requests each JWT was accepted for

vars == <<now, client, published, cache, reserved, issued, expired, req, uses>>

Jwts == Credentials \cup Proofs

Idle == [pc |-> "idle", at |-> "other", cred |-> None, proof |-> None,
         keys |-> << >>,       \* the key set verification uses
         attributed |-> FALSE, \* token endpoint evidence names the client
         seen |-> {},          \* history: keys published since the request arrived
         proven |-> FALSE]     \* history: a key or secret of the client was used

Range(s) == {s[i] : i \in 1..Len(s)}
Goto(r, pc) == [req EXCEPT ![r].pc = pc]
\* The answer is an error.
Refuse(r) == req' = [req EXCEPT ![r] = Idle]

\* The secret, the certificate's subject and the key of the attestation are
\* registered once for all; key 0 is somebody else's.
Shared == 1

-----------------------------------------------------------------------------
(* Claims and keys. *)

\* claims.ValidateWithLeeway, external: both ends belong to the window.
ValidateWithLeeway(j) ==
  /\ now - JWTLeewayTimeSecs <= j.exp
  /\ now + JWTLeewayTimeSecs >= j.iat

areClaimsValid(j) == j.exp - now <= JWTLifetimeSecs /\ ValidateWithLeeway(j)

\* The claims of an attestation and of the proof that comes with it.
AttestationValid ==
  /\ AttestationExpiresAt - now <= JWTLifetimeSecs
  /\ now - JWTLeewayTimeSecs <= AttestationExpiresAt
PoPValid(j) == j.key = Shared /\ now - j.iat <= JWTLifetimeSecs /\ ValidateWithLeeway(j)

\* Mutant: every key set is cached.
clientJWKSCacheEnabled_Always == TRUE

clientJWKSCacheEnabled == client.source = "stored"

\* JWKMatchingHeader: the key named, or the first of the algorithm.
JWKMatchingHeader(keys, j) == IF j.kid THEN Range(keys) \cap {j.key} ELSE {Head(keys)}

\* privateKeyJWTVerificationKey: without a name the key must be the only one.
privateKeyJWTVerificationKey(keys, j) ==
  IF client.keysBy # "authority" THEN JWKMatchingHeader(keys, j)
  ELSE LET matching == IF j.kid THEN Range(keys) \cap {j.key} ELSE Range(keys)
       IN  IF Cardinality(matching) = 1 THEN matching ELSE {}

SecretValid == now < SecretExpiresAt

\* Authenticate up to the reservation: the credential is genuine and current.
Verified(q) ==
  CASE client.method = "private_key_jwt" ->
         q.cred.key \in privateKeyJWTVerificationKey(q.keys, q.cred) /\ areClaimsValid(q.cred)
    [] client.method = "client_secret_jwt" ->
         q.cred.key = Shared /\ SecretValid /\ areClaimsValid(q.cred)
    [] client.method \in {"client_secret_post", "client_secret_basic"} ->
         q.cred.key = Shared /\ SecretValid
    [] client.method = "self_signed_tls_client_auth" -> q.cred.key \in Range(q.keys)
    [] client.method = "tls_client_auth" -> q.cred.key = Shared
    [] client.method = "attest_jwt_client_auth" /\ q.cred # None ->
         AttestationValid /\ PoPValid(q.cred)
    [] OTHER -> AttestationValid /\ q.at \in {"token", "par"} /\ q.proof # None
                /\ q.proof.key = Shared

UsesAttestationDPoP(q) ==
  client.method = "attest_jwt_client_auth" /\ q.cred = None /\ q.proof # None

\* The methods whose credential is reserved.
OneTime(q) ==
  \/ client.method \in {"private_key_jwt", "client_secret_jwt"}
  \/ client.method = "attest_jwt_client_auth" /\ q.cred # None

NeedsKeys ==
  \/ client.method \in {"private_key_jwt", "self_signed_tls_client_auth"}
     /\ client.keysBy = "reference"
  \/ client.method = "attest_jwt_client_auth"

-----------------------------------------------------------------------------
(* Reservation. *)

Purpose(j) ==
  CASE j \in Proofs -> "dpop_proof"
    [] j \notin Proofs /\ client.method = "attest_jwt_client_auth" -> "client_attestation_pop"
    [] OTHER -> "client_assertion"

\* reservationExpiry: the first moment a proof is no longer accepted.
reservationExpiry(p) == p.iat + JWTLifetimeSecs + JWTLeewayTimeSecs

ExpiresAt(j) ==
  IF j \in Proofs THEN reservationExpiry(j) ELSE j.exp + JWTLeewayTimeSecs

JTIUse(j) ==
  [purpose |-> Purpose(j), issuer |-> IF j \in Proofs THEN j.key ELSE 0, id |-> j.id,
   expires |-> ExpiresAt(j)]

\* The consumer, external, is atomic; it refuses what it holds and what has
\* expired.
ConsumeJTIUse(j) ==
  LET use == JTIUse(j) IN
  /\ \A u \in reserved : <<u.purpose, u.issuer, u.id>> # <<use.purpose, use.issuer, use.id>>
  /\ now <= use.expires
  /\ reserved' = reserved \cup {use}

\* Mutant: a failing consumer is taken for one that knows nothing of the JWT,
\* as it is with the legacy consumer.
ReserveJTI_Legacy(r, j, next) ==
  /\ ConsumeJTIUse(j) \/ UNCHANGED reserved
  /\ req' = Goto(r, next)
  /\ uses' = [uses EXCEPT ![j] = @ + 1]

\* ReserveJTI: the request goes on, or it is refused: for a replay, for a
\* failure of the consumer that may have come after the reservation, or because
\* it was cancelled meanwhile.
ReserveJTI(r, j, next) ==
  \/ /\ ConsumeJTIUse(j)
     /\ req' = Goto(r, next)
     /\ uses' = [uses EXCEPT ![j] = @ + 1]
  \/ ConsumeJTIUse(j) /\ Refuse(r) /\ UNCHANGED uses
  \/ Refuse(r) /\ UNCHANGED <<reserved, uses>>

-----------------------------------------------------------------------------
(* The steps of a request. *)

\* Mutant: an attested client is attributed before its proof is validated.
Marked_Early(q) == q.at = "token" /\ client.method # "none"

\* The token endpoint's evidence names the client once it is authenticated, for
\* assertions before the reservation. An attested client whose proof is still
\* to be validated is not marked here.
Marked(q) == q.at = "token" /\ client.method # "none" /\ ~UsesAttestationDPoP(q)

\* The token of a userinfo request is no client authentication.
FirstStage(e) ==
  CASE e = "userinfo" \/ client.method = "none" -> "bind"
    [] e # "userinfo" /\ client.method # "none" /\ NeedsKeys -> "keys"
    [] OTHER -> "verify"

\* Authenticated: the client is resolved, with the keys its record holds.
Arrive(r) ==
  /\ req[r].pc = "idle"
  /\ \E e \in Endpoints, c \in Credentials \cup {None}, p \in Proofs \cup {None} :
       /\ c = None => client.method \in {"none", "attest_jwt_client_auth"}
       /\ req' = [req EXCEPT ![r] =
                    [Idle EXCEPT
                       !.pc = FirstStage(e), !.at = e, !.cred = c, !.proof = p,
                       !.keys = published, !.seen = Range(published)]]
  /\ UNCHANGED <<now, client, published, cache, reserved, issued, expired, uses>>

\* JWKS, fetchJWKS, fetchSignedJWKS. Attestation issuers' keys are never cached.
FetchKeys(r) ==
  /\ req[r].pc = "keys"
  /\ \/ /\ clientJWKSCacheEnabled /\ cache # << >>
        /\ req' = [req EXCEPT ![r].pc = "verify", ![r].keys = cache]
        /\ UNCHANGED cache
     \/ /\ ~(clientJWKSCacheEnabled /\ cache # << >>)
        /\ req' = [req EXCEPT ![r].pc = "verify", ![r].keys = published]
        /\ cache' = IF clientJWKSCacheEnabled /\ client.method # "attest_jwt_client_auth"
                    THEN published ELSE cache
     \/ Refuse(r) /\ UNCHANGED cache
  /\ UNCHANGED <<now, client, published, reserved, issued, expired, uses>>

\* Authenticate. The policy for assertions runs last, and may refuse them.
Verify(r) ==
  LET q == req[r] IN
  /\ q.pc = "verify"
  /\ \/ /\ Verified(q)
        /\ req' = [req EXCEPT
                     ![r].pc = IF OneTime(q) THEN "reserve" ELSE "bind",
                     ![r].proven = ~UsesAttestationDPoP(q),
                     ![r].attributed = Marked(q)]
     \/ Refuse(r)
  /\ UNCHANGED <<now, client, published, cache, reserved, issued, expired, uses>>

Reserve(r) ==
  /\ req[r].pc = "reserve"
  /\ ReserveJTI(r, req[r].cred, "bind")
  /\ UNCHANGED <<now, client, published, cache, issued, expired>>

\* validateBindingDPoP, validateCodeBindingDPoP, validateDPoPWithNonceScope:
\* which requests have their proof validated; a request without one may be
\* refused.
Bind(r) ==
  LET q == req[r] IN
  /\ q.pc = "bind"
  /\ \/ q.at # "other" /\ q.proof # None /\ req' = Goto(r, "proof")
     \/ (q.at = "other" \/ q.proof = None) /\ req' = Goto(r, "accepted")
     \/ q.proof = None /\ Refuse(r)
  /\ UNCHANGED <<now, client, published, cache, reserved, issued, expired, uses>>

\* ValidateJWT up to the nonce: the signature with the key in the header, the
\* time, and what the proof is for.
ValidateJWT(r) ==
  LET p == req[r].proof IN
  /\ req[r].pc = "proof"
  /\ \/ /\ now < reservationExpiry(p) /\ now + JWTLeewayTimeSecs >= p.iat
        /\ req' = Goto(r, "nonce")
     \/ Refuse(r)
  /\ UNCHANGED <<now, client, published, cache, reserved, issued, expired, uses>>

Scope(q) == IF q.at = "userinfo" THEN "resource_server" ELSE "authorization_server"
Live(nonce) == nonce # None /\ nonce[2] > expired[nonce[1]] /\ nonce[2] <= issued[nonce[1]]

\* The manager, external: a nonce that is valid at once.
IssueNonce(s) ==
  \E n \in 1..MaxNonce :
    /\ expired[s] < n /\ n <= issued[s] + 1
    /\ issued' = [issued EXCEPT ![s] = IF n > @ THEN n ELSE @]

\* validateNonce: a live nonce of the scope, and perhaps its successor; else a
\* challenge; else the manager fails.
ValidateNonce(r) ==
  LET q == req[r]
      s == Scope(q)
      fine == q.proof.nonce # None /\ q.proof.nonce[1] = s /\ Live(q.proof.nonce) IN
  /\ q.pc = "nonce"
  /\ \/ /\ fine
        /\ \/ UNCHANGED issued
           \/ IssueNonce(s)
        /\ req' = [req EXCEPT ![r].pc = "reserveProof",
                              ![r].proven = @ \/ UsesAttestationDPoP(q),
                              ![r].attributed = @ \/ (UsesAttestationDPoP(q) /\ q.at = "token")]
     \/ ~fine /\ IssueNonce(s) /\ Refuse(r)
     \/ Refuse(r) /\ UNCHANGED issued
  /\ UNCHANGED <<now, client, published, cache, reserved, expired, uses>>

ReserveProof(r) ==
  /\ req[r].pc = "reserveProof"
  /\ ReserveJTI(r, req[r].proof, "accepted")
  /\ UNCHANGED <<now, client, published, cache, issued, expired>>

\* The endpoint does what it was asked for.
Respond(r) ==
  /\ req[r].pc = "accepted"
  /\ req' = [req EXCEPT ![r] = Idle]
  /\ UNCHANGED <<now, client, published, cache, reserved, issued, expired, uses>>

-----------------------------------------------------------------------------
(* The world around. *)

\* The client publishes a new key, or withdraws its oldest.
RotateKeys ==
  /\ \/ published[Len(published)] < MaxKey
        /\ published' = Append(published, published[Len(published)] + 1)
     \/ Len(published) > 1 /\ published' = Tail(published)
  /\ req' = [r \in Requests |->
               IF req[r].pc = "idle" THEN req[r]
               ELSE [req[r] EXCEPT !.seen = @ \cup Range(published')]]
  /\ UNCHANGED <<now, client, cache, reserved, issued, expired, uses>>

ExpireNonce(s) ==
  /\ expired[s] < issued[s]
  /\ expired' = [expired EXCEPT ![s] = @ + 1]
  /\ UNCHANGED <<now, client, published, cache, reserved, issued, req, uses>>

\* Reservations are kept as long as the use says, and may then be forgotten.
Forget ==
  /\ \E u \in reserved : u.expires < now /\ reserved' = reserved \ {u}
  /\ UNCHANGED <<now, client, published, cache, issued, expired, req, uses>>

Tick ==
  /\ now < MaxTime
  /\ now' = now + 1
  /\ UNCHANGED <<client, published, cache, reserved, issued, expired, req, uses>>

Init ==
  /\ now = 0
  /\ client \in Registrations
  /\ published = <<1>> /\ cache = << >>
  /\ reserved = {}
  /\ issued = [s \in Scopes |-> 0] /\ expired = [s \in Scopes |-> 0]
  /\ req = [r \in Requests |-> Idle]
  /\ uses = [j \in Jwts |-> 0]

Step(r) ==
  \/ Arrive(r) \/ FetchKeys(r) \/ Verify(r) \/ Reserve(r) \/ Bind(r) \/ ValidateJWT(r)
  \/ ValidateNonce(r) \/ ReserveProof(r) \/ Respond(r)

Next ==
  \/ \E r \in Requests : Step(r)
  \/ RotateKeys \/ Forget \/ Tick
  \/ \E s \in Scopes : ExpireNonce(s)

Spec == Init /\ [][Next]_vars

-----------------------------------------------------------------------------
(* Properties. *)

\* A client assertion, an attestation proof or a DPoP proof is accepted for one
\* request at most, although requests that present it overlap, it is accepted
\* for a leeway beyond its end, and reservations are forgotten.
UsedAtMostOnce == \A j \in Jwts : uses[j] <= 1

\* A request that arrives after a key was withdrawn is not authenticated with
\* it, unless the key set is cached in a stored client.
RetiredKeyRefused ==
  \A r \in Requests :
    /\ req[r].proven /\ client.method \in {"private_key_jwt", "self_signed_tls_client_auth"}
    /\ client.source = "resolver" \/ client.keysBy # "reference"
    => req[r].cred.key \in req[r].seen

\* A request is accepted for a confidential client, or attributed to it in the
\* evidence of the token endpoint, only if a key or secret of the client was
\* used: an attestation, which anybody may hold, is not enough.
AttributionSound ==
  \A r \in Requests :
    \/ req[r].attributed
    \/ req[r].pc = "accepted" /\ req[r].at # "userinfo" /\ client.method # "none"
    => req[r].proven
=============================================================================
