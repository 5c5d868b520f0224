---------------------------- MODULE TokenEndpoint ----------------------------
(***************************************************************************)
(* The token endpoint of the provider (internal/token): redeeming a        *)
(* one-use code (authorization code, auth_req_id, device code,             *)
(* pre-authorized code), the refresh token grant, the direct grants, the   *)
(* revocation endpoint and what introspection says of a token.             *)
(*                                                                         *)
(* Every request runs in a goroutine of its own.  A handler loads a grant, *)
(* validates the request against it, changes the grant, saves it, issues a *)
(* token, and (for the codes that answer an error by revoking) revokes the *)
(* grant when anything after the load failed.  Each call to the manager or *)
(* to a callback is a point where another goroutine may run, so each of    *)
(* those stages is an action.                                              *)
(*                                                                         *)
(* SharedRecords says what a manager's lookup returns: TRUE, the stored    *)
(* object itself, as internal/storage does, so a field assignment is       *)
(* visible to every goroutine at once; FALSE, a copy, as a manager over a  *)
(* database does, so SaveGrant overwrites the whole stored grant with the  *)
(* handler's copy.                                                         *)
(*                                                                         *)
(* The in-memory manager holds at most MaxSize grants: any save at         *)
(* capacity drops the oldest one (StorageManager), and a handler that      *)
(* still has a pointer to a dropped grant brings it back by saving it.     *)
(***************************************************************************)
EXTENDS StorageManager, Sequences

CONSTANTS
  Clients,        \* registered clients
  PublicClients,  \* the clients that authenticate with "none"
  NoClient,       \* the anonymous client of the pre-authorized code grant
  GrantIDs,       \* values of Grant.ID
  Codes,          \* values of authorization, device, CIBA and pre-auth codes
  NoCode,         \* a grant without a code
  Requests,       \* goroutines serving requests
  Keys,           \* thumbprints of the keys clients bind tokens to
  NoKey,          \* an unbound request, grant or token
  Kinds,          \* grant types the instance exercises
  Formats,        \* access token formats the instance exercises
  CodeLifetime, TokenLifetime,
  RefreshLifetime,          \* RefreshTokenLifetimeSecs, 0 when it never expires
  Rotation,                 \* RefreshTokenRotationEnabled
  RevokeGrantOnAccessToken, \* TokenRevocationRevokeGrantOnAccessTokenEnabled
  SharedRecords,            \* what a lookup returns, see above
  Failures,                 \* may signing, callbacks and storage fail?
  MaxTime, MaxTokens, MaxRefreshTokens  \* bounds of the instance

CodeKinds == {"auth_code", "ciba", "device", "pre_auth"}
DirectKinds == {"client_credentials", "assertion"}

ASSUME ConstantsAssumption ==
  /\ GrantIDs # {}
  /\ PublicClients \subseteq Clients
  /\ NoClient \notin Clients
  /\ NoCode \notin Codes
  /\ NoKey \notin Keys
  /\ Kinds \subseteq CodeKinds \cup DirectKinds
  /\ Formats \subseteq {"jwt", "opaque"}
  /\ CodeLifetime \in Nat /\ TokenLifetime \in Nat /\ RefreshLifetime \in Nat
  /\ Rotation \in BOOLEAN /\ RevokeGrantOnAccessToken \in BOOLEAN
  /\ SharedRecords \in BOOLEAN /\ Failures \in BOOLEAN
  /\ MaxTime \in Nat /\ MaxTokens \in Nat /\ MaxRefreshTokens \in Nat

VARIABLES
  now,          \* timeutil.TimestampNow
  grants,       \* the record of each grant: GrantIDs -> Grant
  stored,       \* the grants that the manager holds
  tokens,       \* every access token issued, in order (JWTs are not stored)
  lastRefresh,  \* refresh token values are 1, 2, ...; the last one generated
  delivered,    \* <<g, t>>: a response carried refresh token t of grant g
  pc,           \* where the goroutine is in its handler
  req,          \* the request it serves
  loaded        \* its copy of the grant, when the manager returns copies

vars == <<now, grants, stored, tokens, lastRefresh, delivered, pc, req, loaded>>

-----------------------------------------------------------------------------
(* Data. Times of consumption and revocation are only ever compared with 0, *)
(* so they are Booleans; expiry deadlines keep their values.                *)

Grant == [kind: CodeKinds \cup DirectKinds \cup {"none"},
          client: Clients \cup {NoClient},
          code: Codes \cup {NoCode},
          createdAt: Nat,
          expiresAt: Nat,
          consumed: BOOLEAN,
          revoked: BOOLEAN,
          refreshToken: Nat,
          refreshExpiresAt: Nat,
          jkt: Keys \cup {NoKey}]

\* No grant was ever saved under the ID.
NoGrant == [kind |-> "none", client |-> NoClient, code |-> NoCode,
            createdAt |-> 0, expiresAt |-> 0, consumed |-> FALSE, revoked |-> FALSE,
            refreshToken |-> 0, refreshExpiresAt |-> 0, jkt |-> NoKey]

\* via is the handler that called Issue, sent whether its response left.
Token == [gid: GrantIDs, client: Clients \cup {NoClient},
          format: {"jwt", "opaque"}, jkt: Keys \cup {NoKey}, expiresAt: Nat,
          revoked: BOOLEAN, via: {"code", "refresh", "direct"}, sent: BOOLEAN]

Request == [op: {"none", "redeem", "refresh", "revoke"},
            client: Clients \cup {NoClient}, gid: GrantIDs,
            key: Keys \cup {NoKey}, newRefresh: Nat]

NoRequest == [op |-> "none", client |-> NoClient,
              gid |-> CHOOSE g \in GrantIDs : TRUE,
              key |-> NoKey, newRefresh |-> 0]

Exists(g) == grants[g].kind # "none"

\* Mutant: the lifetime is subtracted.
RefreshExpiry_Subtracted == IF RefreshLifetime = 0 THEN 0 ELSE now - RefreshLifetime

RefreshExpiry == IF RefreshLifetime = 0 THEN 0 ELSE now + RefreshLifetime

-----------------------------------------------------------------------------
(* Bounds: a request begins only if the instance still has room for the     *)
(* token and the refresh token it may create.                               *)

Idle(r) == pc[r] = "idle"
Busy == {r \in Requests : ~Idle(r)}
RoomForToken == Len(tokens) + Cardinality(Busy) < MaxTokens
RoomForRefresh ==
  lastRefresh + Cardinality({r \in Busy : req[r].op = "refresh"}) < MaxRefreshTokens

-----------------------------------------------------------------------------
(* The grant manager as a handler sees it.                                  *)

\* The grant the handler's pointer leads to.
View(r) == IF SharedRecords THEN grants[req[r].gid] ELSE loaded[r]

\* What the manager holds after a save of grant g.
Saving(g) ==
  IF SharedRecords
  THEN SaveEvicting(stored, g, [h \in GrantIDs |-> grants[h].createdAt])
  ELSE {stored \cup {g}}

\* The fields of the grant become those the handler assigned.
Assign(r, grant) == grants' = [grants EXCEPT ![req[r].gid] = grant]

\* The stored grant becomes the one the handler holds.
SaveGrant(r, grant) == Assign(r, grant) /\ stored' \in Saving(req[r].gid)

\* SaveGrant returns an error: only a manager that is not in memory can.
SaveGrantFails == Failures /\ ~SharedRecords /\ UNCHANGED <<grants, stored>>

\* The handler goes on with the grant it holds.
Continue(r, grant, where) ==
  /\ pc' = [pc EXCEPT ![r] = where]
  /\ loaded' = [loaded EXCEPT ![r] = IF SharedRecords THEN NoGrant ELSE grant]

Begin(r, op, c, g, k, where) ==
  /\ pc' = [pc EXCEPT ![r] = where]
  /\ req' = [req EXCEPT ![r] = [op |-> op, client |-> c, gid |-> g, key |-> k,
                                newRefresh |-> 0]]
  /\ loaded' = [loaded EXCEPT ![r] = IF SharedRecords THEN NoGrant ELSE grants[g]]

Finish(r) ==
  /\ pc' = [pc EXCEPT ![r] = "idle"]
  /\ req' = [req EXCEPT ![r] = NoRequest]
  /\ loaded' = [loaded EXCEPT ![r] = NoGrant]

\* An error after the grant was loaded: the one-use codes revoke the grant;
\* the pre-authorized code and the refresh token only answer with the error.
RevokesOnError(r) == req[r].op = "redeem" /\ View(r).kind # "pre_auth"

\* Mutant: a failed redemption leaves the grant alone.
Fail_KeepsGrant(r, grant) == Finish(r)

Fail(r, grant) ==
  IF RevokesOnError(r)
  THEN Continue(r, grant, "revoking") /\ UNCHANGED req
  ELSE Finish(r)

-----------------------------------------------------------------------------
(* Creating grants and tokens.                                              *)

\* newGrant: a refresh token comes with every grant whose subject is not the
\* client itself. The grant behind a pre-authorized code is the embedder's own
\* (CreatePreAuthCodeGrant) and gets none.
newGrant(kind, c, code, expiresAt, consumed, k) ==
  LET withRefresh == kind \notin {"client_credentials", "pre_auth"}
  IN  [kind |-> kind, client |-> c, code |-> code, createdAt |-> now,
       expiresAt |-> expiresAt,
       consumed |-> consumed, revoked |-> FALSE,
       refreshToken |-> IF withRefresh THEN lastRefresh + 1 ELSE 0,
       refreshExpiresAt |-> IF withRefresh THEN RefreshExpiry ELSE 0,
       jkt |-> k]

\* NewGrant: build the grant and save it under a fresh ID.
NewGrant(g, grant) ==
  /\ ~Exists(g)
  /\ RoomForRefresh
  /\ grants' = [grants EXCEPT ![g] = grant]
  /\ stored' \in Saving(g)
  /\ lastRefresh' = IF grant.refreshToken = 0 THEN lastRefresh ELSE lastRefresh + 1

\* Issue: the token takes its client and its binding from the grant.
Issue(g, grant, format, via, sent) ==
  tokens' = Append(tokens,
    [gid |-> g, client |-> grant.client, format |-> format, jkt |-> grant.jkt,
     expiresAt |-> now + TokenLifetime, revoked |-> FALSE, via |-> via, sent |-> sent])

Deliver(g, refreshToken) ==
  delivered' = IF refreshToken = 0 THEN delivered
               ELSE delivered \cup {<<g, refreshToken>>}

\* A code grant appears: the authorization endpoint, the approval of a CIBA
\* or device request, or a credential offer with a pre-authorized code. Codes
\* are fresh random values. The authorization endpoint, an offer and CIBA push
\* may bind a grant to a key before its code is redeemed; only an offer leaves
\* the client open. The hybrid response types and CIBA push issue a token at once
\* (front); a pushed auth_req_id counts as consumed.
CreateCodeGrant(g, kind, c, code, k, front) ==
  /\ kind \in Kinds \cap CodeKinds
  /\ \A h \in GrantIDs : grants[h].code # code
  /\ k # NoKey => kind \in {"auth_code", "pre_auth"} \/ (kind = "ciba" /\ front)
  /\ c = NoClient => kind = "pre_auth"
  /\ LET push  == front /\ kind = "ciba"
         grant == newGrant(kind, c, code, now + CodeLifetime, push, k) IN
     /\ NewGrant(g, grant)
     /\ IF front
        THEN /\ kind \in {"auth_code", "ciba"} /\ RoomForToken
             /\ \E format \in Formats : Issue(g, grant, format, "direct", TRUE)
             /\ IF push THEN Deliver(g, grant.refreshToken) ELSE UNCHANGED delivered
        ELSE UNCHANGED <<tokens, delivered>>
  /\ UNCHANGED <<now, pc, req, loaded>>

\* client_credentials, jwt-bearer, token-exchange and a pre-authorized code of
\* an external issuer: a new grant and its token in one request; when Issue
\* fails the saved grant stays behind.
DirectGrant(g, kind, c, k, format, issued) ==
  /\ kind \in Kinds \cap DirectKinds
  /\ issued \/ Failures
  /\ RoomForToken
  /\ LET grant == newGrant(kind, c, NoCode, 0, FALSE, k) IN
     /\ NewGrant(g, grant)
     /\ IF issued
        THEN Issue(g, grant, format, "direct", TRUE) /\ Deliver(g, grant.refreshToken)
        ELSE UNCHANGED <<tokens, delivered>>
  /\ UNCHANGED <<now, pc, req, loaded>>

-----------------------------------------------------------------------------
(* Redeeming a code: generateAuthCodeToken, generateCIBAToken,              *)
(* generateDeviceCodeToken, generatePreAuthCodeToken.                       *)

\* ValidateBinding with the grant's thumbprint: CIBA and device requests pass
\* no thumbprint.
BindingMatches(grant, k) ==
  (grant.kind \in {"auth_code", "pre_auth"} /\ grant.jkt # NoKey) => k = grant.jkt

ClientMatches(grant, c) ==
  grant.client = c \/ (grant.kind = "pre_auth" /\ grant.client = NoClient)

\* Mutant: a consumed code is accepted.
Redeemable_Again(grant, c, k, ok) ==
  ClientMatches(grant, c) /\ now < grant.expiresAt /\ BindingMatches(grant, k) /\ ok

\* ok stands for the checks on the request alone: grant type, redirect_uri,
\* PKCE, transaction code, resources, details, scopes.
Redeemable(grant, c, k, ok) ==
  /\ ~grant.consumed
  /\ ClientMatches(grant, c)
  /\ now < grant.expiresAt
  /\ BindingMatches(grant, k)
  /\ ok

\* Load the grant by its code and validate; an evicted one is not found. A
\* revoked grant is answered at once; so is anything wrong with a
\* pre-authorized code.
BeginRedeem(r, c, g, k, ok) ==
  /\ Idle(r) /\ RoomForToken
  /\ g \in stored /\ grants[g].kind \in CodeKinds
  /\ ~grants[g].revoked
  /\ c = NoClient => grants[g].kind = "pre_auth"
  /\ IF Redeemable(grants[g], c, k, ok)
     THEN Begin(r, "redeem", c, g, k, "checked")
     ELSE grants[g].kind # "pre_auth" /\ Begin(r, "redeem", c, g, k, "revoking")
  /\ UNCHANGED <<now, grants, stored, tokens, lastRefresh, delivered>>

\* Mutant: the consumption stays in the handler's copy.
Consume_Unsaved(r) ==
  /\ pc[r] = "checked" /\ req[r].op = "redeem"
  /\ Continue(r, [View(r) EXCEPT !.consumed = TRUE, !.jkt = req[r].key], "saved")
  /\ UNCHANGED <<now, grants, stored, tokens, lastRefresh, delivered, req>>

\* Bind the grant to the request, mark the code consumed, SaveGrant.
Consume(r) ==
  LET grant == [View(r) EXCEPT !.consumed = TRUE, !.jkt = req[r].key] IN
  /\ pc[r] = "checked" /\ req[r].op = "redeem"
  /\ \/ SaveGrant(r, grant) /\ Continue(r, grant, "saved") /\ UNCHANGED req
     \/ SaveGrantFails /\ Fail(r, grant)
  /\ UNCHANGED <<now, tokens, lastRefresh, delivered>>

-----------------------------------------------------------------------------
(* The refresh token grant: generateLegacyRefreshToken.                     *)

\* Mutant: the binding is not asked for.
RefreshBindingMatches_Any(grant, c, k) == TRUE

\* A public client proves possession of the bound key; a confidential one
\* has authenticated and may present another key, but must present one.
RefreshBindingMatches(grant, c, k) ==
  grant.jkt # NoKey => IF c \in PublicClients THEN k = grant.jkt ELSE k # NoKey

BeginRefresh(r, c, g, k) ==
  LET grant == grants[g] IN
  /\ Idle(r) /\ RoomForToken /\ RoomForRefresh
  /\ g \in stored /\ <<g, grant.refreshToken>> \in delivered
  /\ grant.client = c
  /\ ~grant.revoked
  /\ grant.refreshExpiresAt # 0 => now < grant.refreshExpiresAt
  /\ RefreshBindingMatches(grant, c, k)
  /\ Begin(r, "refresh", c, g, k, "checked")
  /\ UNCHANGED <<now, grants, stored, tokens, lastRefresh, delivered>>

\* Mutant: the refreshed grant starts over without its revocation.
Refreshed_Unrevoked(r) ==
  [View(r) EXCEPT !.refreshToken = lastRefresh + 1, !.revoked = FALSE]

\* Mutant: the refreshed grant starts over without the consumption of its code.
Refreshed_Unconsumed(r) ==
  [View(r) EXCEPT !.refreshToken = lastRefresh + 1, !.consumed = FALSE]

\* The grant after rotation and re-binding to the request's key.
Refreshed(r) ==
  [View(r) EXCEPT
     !.refreshToken = IF Rotation THEN lastRefresh + 1 ELSE @,
     !.refreshExpiresAt = IF Rotation THEN RefreshExpiry ELSE @,
     !.jkt = IF @ # NoKey THEN req[r].key ELSE @]

\* Rotate, HandleGrant, SaveGrant. When HandleGrant or SaveGrant fails, what
\* was assigned to a shared record stays assigned.
SaveRefreshed(r) ==
  /\ pc[r] = "checked" /\ req[r].op = "refresh"
  /\ lastRefresh' = IF Rotation THEN lastRefresh + 1 ELSE lastRefresh
  /\ \/ /\ SaveGrant(r, Refreshed(r))
        /\ Continue(r, Refreshed(r), "saved")
        /\ req' = [req EXCEPT ![r].newRefresh = IF Rotation THEN lastRefresh + 1 ELSE 0]
     \/ /\ Failures
        /\ IF SharedRecords THEN Assign(r, Refreshed(r)) ELSE UNCHANGED grants
        /\ UNCHANGED stored
        /\ Finish(r)
  /\ UNCHANGED <<now, tokens, delivered>>

-----------------------------------------------------------------------------
(* Issuing, and revoking when it failed.                                    *)

\* Mutant: the rotated refresh token is not returned.
ResponseRefreshToken_Omitted(r) == IF req[r].op = "redeem" THEN View(r).refreshToken ELSE 0

\* A code response carries the grant's refresh token, a refresh response the
\* one that the handler generated.
ResponseRefreshToken(r) ==
  IF req[r].op = "redeem" THEN View(r).refreshToken ELSE req[r].newRefresh

Via(r) == IF req[r].op = "redeem" THEN "code" ELSE "refresh"

\* Issue and MakeIDToken. Issue may fail before there is a token; the ID
\* token may fail when the access token already exists (never for a
\* pre-authorized code, which has no ID token).
IssueAndRespond(r, format) ==
  /\ pc[r] = "saved"
  /\ \/ /\ Issue(req[r].gid, View(r), format, Via(r), TRUE)
        /\ Deliver(req[r].gid, ResponseRefreshToken(r))
        /\ Finish(r)
     \/ /\ Failures
        /\ Fail(r, View(r))
        /\ UNCHANGED <<tokens, delivered>>
     \/ /\ Failures /\ View(r).kind # "pre_auth"
        /\ Issue(req[r].gid, View(r), format, Via(r), FALSE)
        /\ Fail(r, View(r))
        /\ UNCHANGED delivered
  /\ UNCHANGED <<now, grants, stored, lastRefresh>>

\* Mutant: the revocation is not saved.
RevokeGrant_Unsaved(r) ==
  /\ pc[r] = "revoking"
  /\ Finish(r)
  /\ UNCHANGED <<now, grants, stored, tokens, lastRefresh, delivered>>

\* grant.RevokedAt = now; SaveGrant: the tail of a failed redemption and of a
\* revocation request.
RevokeGrant(r) ==
  /\ pc[r] = "revoking"
  /\ SaveGrant(r, [View(r) EXCEPT !.revoked = TRUE]) \/ SaveGrantFails
  /\ Finish(r)
  /\ UNCHANGED <<now, tokens, lastRefresh, delivered>>

\* The process dies in the middle of a request; a durable manager keeps what
\* was saved.
Crash(r) ==
  /\ Failures /\ ~SharedRecords /\ ~Idle(r)
  /\ Finish(r)
  /\ UNCHANGED <<now, grants, stored, tokens, lastRefresh, delivered>>

-----------------------------------------------------------------------------
(* Revocation: Revoke. A token that is not the client's, or that is inactive, *)
(* changes nothing. The embedder may revoke any token; that is the step of  *)
(* its client.                                                              *)

\* jose accepts a JWT until its exp has passed; an opaque token ends at it.
Expired(t) == IF t.format = "jwt" THEN now > t.expiresAt ELSE now >= t.expiresAt

\* The token's own time is over, or it or its grant was revoked.
Ended(t) == Expired(t) \/ t.revoked \/ grants[t.gid].revoked

\* What Introspect says of an access token: it asks the manager for the grant.
Active(t) == t.gid \in stored /\ ~Ended(t)

RevokeRefreshToken(r, c, g) ==
  LET grant == grants[g] IN
  /\ Idle(r)
  /\ g \in stored /\ <<g, grant.refreshToken>> \in delivered
  /\ grant.refreshExpiresAt # 0 => now < grant.refreshExpiresAt
  /\ ~grant.revoked
  /\ c = grant.client
  /\ Begin(r, "revoke", c, g, NoKey, "revoking")
  /\ UNCHANGED <<now, grants, stored, tokens, lastRefresh, delivered>>

RevokeJWT(r, c, i) ==
  LET t == tokens[i] IN
  /\ Idle(r)
  /\ t.format = "jwt" /\ RevokeGrantOnAccessToken /\ ~Expired(t)
  /\ c = t.client
  /\ t.gid \in stored /\ ~grants[t.gid].revoked
  /\ Begin(r, "revoke", c, t.gid, NoKey, "revoking")
  /\ UNCHANGED <<now, grants, stored, tokens, lastRefresh, delivered>>

RevokeOpaque(r, c, i) ==
  LET t == tokens[i] IN
  /\ Idle(r)
  /\ t.format = "opaque" /\ ~Expired(t) /\ ~t.revoked
  /\ c = t.client
  /\ \/ /\ RevokeGrantOnAccessToken /\ t.gid \in stored
        /\ Begin(r, "revoke", c, t.gid, NoKey, "revoking")
        /\ UNCHANGED tokens
     \/ /\ ~RevokeGrantOnAccessToken
        /\ tokens' = [tokens EXCEPT ![i].revoked = TRUE]
        /\ Finish(r)
  /\ UNCHANGED <<now, grants, stored, lastRefresh, delivered>>

-----------------------------------------------------------------------------
Tick == now < MaxTime /\ now' = now + 1
        /\ UNCHANGED <<grants, stored, tokens, lastRefresh, delivered, pc, req, loaded>>

Init ==
  /\ now = 1
  /\ grants = [g \in GrantIDs |-> NoGrant]
  /\ stored = {}
  /\ tokens = <<>>
  /\ lastRefresh = 0
  /\ delivered = {}
  /\ pc = [r \in Requests |-> "idle"]
  /\ req = [r \in Requests |-> NoRequest]
  /\ loaded = [r \in Requests |-> NoGrant]

\* The steps a goroutine takes by itself once its request has begun.
Proceed(r) ==
  \/ Consume(r)
  \/ SaveRefreshed(r)
  \/ \E format \in Formats : IssueAndRespond(r, format)
  \/ RevokeGrant(r)

Create ==
  \E g \in GrantIDs, kind \in Kinds, c \in Clients \cup {NoClient}, k \in Keys \cup {NoKey} :
    \/ \E code \in Codes, front \in BOOLEAN : CreateCodeGrant(g, kind, c, code, k, front)
    \/ \E format \in Formats, issued \in BOOLEAN :
         c # NoClient /\ DirectGrant(g, kind, c, k, format, issued)

Redeem ==
  \E r \in Requests, c \in Clients \cup {NoClient}, g \in GrantIDs,
     k \in Keys \cup {NoKey}, ok \in BOOLEAN : BeginRedeem(r, c, g, k, ok)

Refresh ==
  \E r \in Requests, c \in Clients, g \in GrantIDs, k \in Keys \cup {NoKey} :
    BeginRefresh(r, c, g, k)

Revoke ==
  \E r \in Requests, c \in Clients :
    \/ \E g \in GrantIDs : RevokeRefreshToken(r, c, g)
    \/ \E i \in DOMAIN tokens : RevokeJWT(r, c, i) \/ RevokeOpaque(r, c, i)

Next ==
  \/ Tick
  \/ Create
  \/ Redeem
  \/ Refresh
  \/ Revoke
  \/ \E r \in Requests : Proceed(r) \/ Crash(r)

Spec == Init /\ [][Next]_vars

\* A goroutine that is serving a request is scheduled again and again.
FairSpec == Spec /\ \A r \in Requests : WF_vars(Proceed(r))

-----------------------------------------------------------------------------
(* Properties. *)

TypeOK ==
  /\ now \in Nat
  /\ grants \in [GrantIDs -> Grant]
  /\ stored \subseteq GrantIDs
  /\ tokens \in Seq(Token)
  /\ lastRefresh \in Nat
  /\ delivered \subseteq GrantIDs \X Nat
  /\ pc \in [Requests -> {"idle", "checked", "saved", "revoking"}]
  /\ req \in [Requests -> Request]
  /\ loaded \in [Requests -> Grant]

\* The code of the grant can no longer be accepted.
Spent(grant) == grant.kind \in CodeKinds /\ (grant.consumed \/ grant.revoked)

\* Once a code has been redeemed or its grant revoked, no interleaving of
\* handlers makes it redeemable again, even when handlers overwrite the grant
\* with the copies they loaded earlier.
SpentForever == [][\A g \in GrantIDs : Spent(grants[g]) => Spent(grants'[g])]_vars

\* A token obtained with a code exists only under a grant whose code is
\* already spent in storage: consumption is persisted before issuance.
IssuedImpliesSpent ==
  \A i \in DOMAIN tokens : tokens[i].via = "code" => Spent(grants[tokens[i].gid])

\* With the in-memory manager a token that expired, or that was revoked by
\* itself or with its grant, is never active again: neither a refresh that was
\* past its check of RevokedAt nor a late save that brings an evicted grant
\* back revives it. (The tokens of a grant that was only evicted are inactive
\* until such a save.)
EndedForever ==
  [][\A i \in DOMAIN tokens : Ended(tokens[i]) => ~Active(tokens[i])']_vars

\* Some goroutine is working on the grant.
InUse(g) == \E r \in Busy : req[r].gid = g

\* When a redemption fails after its access token was created, that token is
\* dead once no goroutine is working on the grant.
UnsentCodeTokensDie ==
  \A i \in DOMAIN tokens :
    (/\ tokens[i].via = "code" /\ ~tokens[i].sent
     /\ ~InUse(tokens[i].gid))
    => ~Active(tokens[i])

CodeTokens(g) == {i \in DOMAIN tokens : tokens[i].gid = g /\ tokens[i].via = "code"}

\* The stage of the life of a grant's code.
Life(grant) ==
  CASE grant.kind \notin CodeKinds -> "none"
    [] grant.kind \in CodeKinds /\ ~Spent(grant) -> "live"
    [] grant.kind \in CodeKinds /\ Spent(grant) -> "spent"

Lifecycle == INSTANCE CodeLifecycle WITH
  Codes  <- GrantIDs,
  life   <- [g \in GrantIDs |-> Life(grants[g])],
  issued <- [g \in GrantIDs |-> Cardinality(CodeTokens(g))]

\* The token endpoint keeps the promise of CodeLifecycle: the stages of its
\* handlers, their failures and their overwritten saves amount to creating a
\* code, spending it for good and issuing tokens afterwards.
ImplementsLifecycle == Lifecycle!Spec

\* A redemption that is replayed, or fails, ends with every token of the
\* grant inactive.
ReplayKillsTokens ==
  \A r \in Requests, g \in GrantIDs :
    (pc[r] = "revoking" /\ req[r].gid = g)
      ~> \A i \in DOMAIN tokens : tokens[i].gid = g => ~Active(tokens[i])

\* Without failures, however redemptions and refreshes of a grant interleave,
\* when they are over the refresh token in storage is one that a response
\* carried to the client: nobody is locked out of a grant that the manager holds.
StoredRefreshTokenDelivered ==
  \A i \in DOMAIN tokens :
    LET g == tokens[i].gid IN
    (tokens[i].via \in {"code", "refresh"} /\ ~InUse(g)
       /\ grants[g].refreshToken # 0)
    => <<g, grants[g].refreshToken>> \in delivered

\* "AuthCodeConsumedAt is populated once the authorization code has been
\* successfully redeemed, so reuse can be detected" (pkg/goidc/grant.go):
\* a code that was redeemed twice has its grant revoked when the requests are
\* over.
ReuseDetected ==
  \A g \in GrantIDs :
    (Cardinality(CodeTokens(g)) > 1 /\ ~InUse(g)) => grants[g].revoked
=============================================================================
