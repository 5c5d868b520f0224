-------------------- MODULE ClientAuthentication_proofs --------------------
(***************************************************************************)
(* Proofs about ClientAuthentication: any number of requests, any          *)
(* registrations, credentials, proofs and lifetimes.                       *)
(***************************************************************************)
EXTENDS ClientAuthentication, TLAPS

Stages == {"idle", "keys", "verify", "reserve", "bind", "proof", "nonce",
           "reserveProof", "accepted"}

KeySets == Seq(Nat)

Request ==
  [pc : Stages, at : Endpoints, cred : Credentials \cup {None}, proof : Proofs \cup {None},
   keys : KeySets, attributed : BOOLEAN, seen : SUBSET Nat, proven : BOOLEAN]

\* The goroutines and the key sets are well typed.
Typed ==
  /\ now \in Nat
  /\ client \in [method : Methods, source : Sources, keysBy : Keepers]
  /\ published \in KeySets /\ published # << >>
  /\ cache \in KeySets
  /\ req \in [Requests -> Request]

-----------------------------------------------------------------------------
(* Reservations. *)

\* A JWT that was accepted is either still reserved or no longer accepted.
Accounted ==
  /\ uses \in [Jwts -> Nat]
  /\ \A j \in Jwts :
       uses[j] > 0 => uses[j] = 1 /\ (JTIUse(j) \in reserved \/ ExpiresAt(j) < now)

-----------------------------------------------------------------------------
(* Keys. *)

\* The keys a client authenticates with are not taken from the cache.
Uncached ==
  /\ client.method \in {"private_key_jwt", "self_signed_tls_client_auth"}
  /\ client.source = "resolver" \/ client.keysBy # "reference"

\* What a request verifies with was published since it arrived.
KeysOK(q) ==
  /\ q.pc = "keys" => NeedsKeys
  /\ q.pc # "idle" =>
       /\ Range(published) \subseteq q.seen
       /\ Uncached => q.keys # << >> /\ Range(q.keys) \subseteq q.seen
  /\ q.proven /\ Uncached => q.cred.key \in q.seen

KeysInv == \A r \in Requests : KeysOK(req[r])

-----------------------------------------------------------------------------
(* Attribution. *)

Authenticating(q) == q.at # "userinfo" /\ client.method # "none"

\* A request that got past its verification has proven a key or secret, or is
\* about to have the proof validated that its attestation names the key of.
ProvenOK(q) ==
  /\ q.attributed => q.proven
  /\ q.pc \in {"keys", "verify", "reserve"} => Authenticating(q)
  /\ q.pc = "reserve" => q.proven
  /\ (q.pc \in {"bind", "proof", "nonce", "reserveProof", "accepted"}
      /\ Authenticating(q) /\ ~q.proven)
     => /\ q.pc \in {"bind", "proof", "nonce"}
        /\ UsesAttestationDPoP(q) /\ q.at \in {"token", "par"}

ProvenInv == \A r \in Requests : ProvenOK(req[r])

-----------------------------------------------------------------------------
(* Steps of the proofs. *)

\* A goroutine at rest.
LEMMA IdleTyped == Idle \in Request
BY DEF Idle, Request, Stages, Endpoints, KeySets

\* One goroutine goes on with a well-typed record.
LEMMA OneRequest ==
  ASSUME Typed, NEW r \in Requests, NEW q \in Request, req' = [req EXCEPT ![r] = q],
         UNCHANGED <<now, client, published>>, cache' \in {cache, published}
  PROVE  Typed'
BY DEF Typed

\* It goes on to another stage.
LEMMA GotoTyped ==
  ASSUME Typed, NEW r \in Requests, NEW stage \in Stages, req' = Goto(r, stage),
         UNCHANGED <<now, client, published, cache>>
  PROVE  Typed'
BY DEF Typed, Goto, Request

\* Its request is refused.
LEMMA RefuseTyped ==
  ASSUME Typed, NEW r \in Requests, Refuse(r),
         UNCHANGED <<now, client, published>>, cache' \in {cache, published}
  PROVE  Typed'
BY IdleTyped, OneRequest DEF Refuse

\* Withdrawing a key leaves a key set.
LEMMA TailTyped ==
  ASSUME NEW s \in Seq(Nat), Len(s) > 1 
  PROVE  Tail(s) \in Seq(Nat) /\ Tail(s) # << >>
<1>1. s # << >>
  OBVIOUS
<1>2. Tail(s) \in Seq(Nat)
  BY <1>1
<1>3. Len(Tail(s)) = Len(s) - 1
  BY <1>1
<1>4. QED
  BY <1>2, <1>3

\* The keys of a key set.
LEMMA RangeTyped == 
  ASSUME NEW s \in Seq(Nat) PROVE Range(s) \subseteq Nat
BY DEF Range


\* A reservation lets the request go on or refuses it.
LEMMA ReserveCases ==
  ASSUME NEW r \in Requests, NEW j, NEW next, ReserveJTI(r, j, next)
  PROVE  req' = Goto(r, next) \/ Refuse(r)
BY DEF ReserveJTI

\* Every step keeps the types.
LEMMA TypedStep == Typed /\ [Next]_vars => Typed'
<1> SUFFICES ASSUME Typed, [Next]_vars PROVE Typed'
  OBVIOUS
<1>1. ASSUME NEW r \in Requests, Arrive(r) PROVE Typed'
  <2> DEFINE Arrived(e, c, p) ==
               [Idle EXCEPT !.pc = FirstStage(e), !.at = e, !.cred = c, !.proof = p,
                            !.keys = published, !.seen = Range(published)]
  <2>1. PICK e \in Endpoints, c \in Credentials \cup {None}, p \in Proofs \cup {None} :
          req' = [req EXCEPT ![r] = Arrived(e, c, p)]
    BY <1>1 DEF Arrive
  <2>2. FirstStage(e) \in Stages
    BY DEF Stages, FirstStage
  <2>3. Arrived(e, c, p) \in Request
    BY <2>2, RangeTyped, IdleTyped DEF Request, KeySets, Typed
  <2> HIDE DEF Arrived
  <2>4. QED
    BY <1>1, <2>1, <2>3, OneRequest DEF Arrive
<1>2. ASSUME NEW r \in Requests, FetchKeys(r) PROVE Typed'
  <2>1. CASE Refuse(r)
    BY <1>2, <2>1, RefuseTyped DEF FetchKeys
  <2>2. CASE \E keys \in {cache, published} : req' = [req EXCEPT ![r].pc = "verify", ![r].keys = keys]
    BY <1>2, <2>2 DEF FetchKeys, Typed, Request, Stages
  <2>3. QED
    BY <1>2, <2>1, <2>2 DEF FetchKeys
<1>3. ASSUME NEW r \in Requests, Verify(r) PROVE Typed'
  <2>1. CASE Refuse(r)
    BY <1>3, <2>1, RefuseTyped DEF Verify
  <2>2. CASE \E stage \in Stages, x, y \in BOOLEAN :
               req' = [req EXCEPT ![r].pc = stage, ![r].proven = x, ![r].attributed = y]
    BY <1>3, <2>2 DEF Verify, Typed, Request
  <2>3. QED
    BY <1>3, <2>1, <2>2 DEF Verify, UsesAttestationDPoP, Marked, Stages
<1>4. ASSUME NEW r \in Requests, Reserve(r) \/ ReserveProof(r) PROVE Typed'
  <2>1. PICK stage \in {"bind", "accepted"} : req' = Goto(r, stage) \/ Refuse(r)
    BY <1>4, ReserveCases DEF Reserve, ReserveProof
  <2>2. QED
    BY <1>4, <2>1, GotoTyped, RefuseTyped DEF Reserve, ReserveProof, Stages
<1>5. ASSUME NEW r \in Requests, Bind(r) \/ ValidateJWT(r) \/ Respond(r) PROVE Typed'
  <2>1. PICK stage \in {"proof", "accepted", "nonce"} : req' = Goto(r, stage) \/ Refuse(r)
    BY <1>5 DEF Bind, ValidateJWT, Respond, Refuse
  <2>2. QED
    BY <1>5, <2>1, GotoTyped, RefuseTyped DEF Bind, ValidateJWT, Respond, Stages
<1>6. ASSUME NEW r \in Requests, ValidateNonce(r) PROVE Typed'
  <2>1. CASE Refuse(r)
    BY <1>6, <2>1, RefuseTyped DEF ValidateNonce
  <2>2. CASE \E x, y \in BOOLEAN :
               req' = [req EXCEPT ![r].pc = "reserveProof", ![r].proven = x, ![r].attributed = y]
    BY <1>6, <2>2 DEF ValidateNonce, Typed, Request, Stages
  <2>3. QED
    BY <1>6, <2>1, <2>2 DEF ValidateNonce, UsesAttestationDPoP, Typed, Request
<1>7. CASE RotateKeys
  <2>1. published' \in KeySets /\ published' # << >>
    <3>1. published \in Seq(Nat) /\ published # << >> /\ MaxKey \in Nat
      BY ClientAuthenticationAssumption DEF Typed, KeySets
    <3>2. Len(published) \in 1..Len(published) /\ published[Len(published)] \in Nat
      BY <3>1
    <3>3. /\ Append(published, published[Len(published)] + 1) \in Seq(Nat)
          /\ Append(published, published[Len(published)] + 1) # << >>
      BY <3>1, <3>2
    <3>4. Len(published) > 1 => Tail(published) \in Seq(Nat) /\ Tail(published) # << >>
      BY <3>1, TailTyped
    <3>5. QED
      BY <1>7, <3>3, <3>4 DEF RotateKeys, KeySets
  <2>2. \A r \in Requests : [req[r] EXCEPT !.seen = @ \cup Range(published')] \in Request
    BY <2>1, RangeTyped DEF Request, KeySets, Typed
  <2>3. QED
    BY <1>7, <2>1, <2>2 DEF RotateKeys, Typed
<1>8. CASE Forget \/ Tick \/ (\E s \in Scopes : ExpireNonce(s)) \/ UNCHANGED vars
  BY <1>8 DEF Forget, Tick, ExpireNonce, vars, Typed
<1>9. QED
  BY <1>1, <1>2, <1>3, <1>4, <1>5, <1>6, <1>7, <1>8 DEF Next, Step

\* The reservation of a JWT depends on nothing that changes.
LEMMA JTIUseFixed ==
  ASSUME NEW j \in Jwts, UNCHANGED client
  PROVE  /\ JTIUse(j)' = JTIUse(j) /\ ExpiresAt(j)' = ExpiresAt(j)
         /\ JTIUse(j).expires = ExpiresAt(j) /\ ExpiresAt(j) \in Int
<1>1. ExpiresAt(j) \in Int
  BY ClientAuthenticationAssumption DEF ExpiresAt, reservationExpiry, Jwts
<1>2. ExpiresAt(j)' = ExpiresAt(j) /\ Purpose(j)' = Purpose(j)
  BY DEF ExpiresAt, reservationExpiry, Purpose
<1>3. QED
  BY <1>1, <1>2 DEF JTIUse

\* Whatever leaves clock, registration, reservations and uses alone.
LEMMA AccountedUnchanged ==
  ASSUME Accounted, UNCHANGED <<now, client, reserved, uses>>
  PROVE  Accounted'
BY JTIUseFixed DEF Accounted

\* A JWT the consumer takes has not been accepted before.
LEMMA ReserveAccounted ==
  ASSUME Typed, Accounted, NEW r \in Requests, NEW j, NEW next, ReserveJTI(r, j, next),
         UNCHANGED <<now, client>>
  PROVE  Accounted'
<1>1. CASE UNCHANGED <<reserved, uses>>
  BY <1>1, AccountedUnchanged
<1>2. CASE ConsumeJTIUse(j)
  <2>1. JTIUse(j) \notin reserved /\ now <= JTIUse(j).expires /\ reserved' = reserved \cup {JTIUse(j)}
    BY <1>2 DEF ConsumeJTIUse
  <2>2. CASE UNCHANGED uses
    BY <2>1, <2>2, JTIUseFixed DEF Accounted
  <2>3. CASE uses' = [uses EXCEPT ![j] = @ + 1]
    <3>1. CASE j \notin Jwts
      <4>1. uses' = uses
        BY <2>3, <3>1 DEF Accounted
      <4>2. QED
        BY <4>1, <2>2
    <3>2. CASE j \in Jwts
      <4>1. uses[j] = 0
        BY <2>1, <3>2, JTIUseFixed DEF Accounted, Typed
      <4>2. uses' \in [Jwts -> Nat] /\ uses'[j] = 1 /\ \A i \in Jwts \ {j} : uses'[i] = uses[i]
        BY <2>3, <3>2, <4>1 DEF Accounted
      <4>3. QED
        BY <2>1, <3>2, <4>1, <4>2, JTIUseFixed DEF Accounted
    <3>3. QED
      BY <3>1, <3>2
  <2>4. QED
    BY <1>2, <2>2, <2>3, <1>1 DEF ReserveJTI
<1>3. QED
  BY <1>1, <1>2 DEF ReserveJTI

\* Every step keeps the account.
LEMMA AccountedStep == Typed /\ Accounted /\ [Next]_vars => Accounted'
<1> SUFFICES ASSUME Typed, Accounted, [Next]_vars PROVE Accounted'
  OBVIOUS
<1>1. ASSUME NEW r \in Requests, Reserve(r) \/ ReserveProof(r) PROVE Accounted'
  BY <1>1, ReserveAccounted DEF Reserve, ReserveProof
<1>2. ASSUME NEW r \in Requests,
             Arrive(r) \/ FetchKeys(r) \/ Verify(r) \/ Bind(r) \/ ValidateJWT(r)
               \/ ValidateNonce(r) \/ Respond(r)
      PROVE  UNCHANGED <<now, client, reserved, uses>>
  BY <1>2 DEF Arrive, FetchKeys, Verify, Bind, ValidateJWT, ValidateNonce, Respond
<1>3. CASE RotateKeys \/ (\E s \in Scopes : ExpireNonce(s)) \/ UNCHANGED vars
  BY <1>3, AccountedUnchanged DEF RotateKeys, ExpireNonce, vars
<1>4. CASE Tick
  <2>1. now \in Nat /\ now' = now + 1 /\ UNCHANGED <<client, reserved, uses>>
    BY <1>4 DEF Tick, Typed
  <2>2. QED
    BY <2>1, JTIUseFixed DEF Accounted
<1>5. CASE Forget
  <2>1. PICK u \in reserved : u.expires < now /\ reserved' = reserved \ {u}
    BY <1>5 DEF Forget
  <2>2. UNCHANGED <<now, client, uses>>
    BY <1>5 DEF Forget
  <2>3. QED
    BY <2>1, <2>2, JTIUseFixed DEF Accounted
<1>6. QED
  BY <1>1, <1>2, <1>3, <1>4, <1>5, AccountedUnchanged DEF Next, Step

-----------------------------------------------------------------------------
(* Keys and attribution, step by step. *)

\* A request that is refused or answered is nobody's any more.
LEMMA IdleFields ==
  Idle.pc = "idle" /\ ~Idle.proven /\ ~Idle.attributed
BY DEF Idle

\* The key a private_key_jwt was verified with is one of the key set.
LEMMA VerificationKeyInSet ==
  ASSUME NEW keys \in Seq(Nat), keys # << >>, NEW j
  PROVE  privateKeyJWTVerificationKey(keys, j) \subseteq Range(keys)
<1>1. Head(keys) \in Range(keys)
  <2>1. Head(keys) = keys[1] /\ 1 \in 1..Len(keys)
    OBVIOUS
  <2>2. QED
    BY <2>1 DEF Range
<1>2. QED
  BY <1>1 DEF privateKeyJWTVerificationKey, JWKMatchingHeader

\* Every step keeps what is known of the keys: a key set is loaded after the
\* request arrived, and what is published later is added to what was seen.
LEMMA KeysStep == Typed /\ KeysInv /\ [Next]_vars => KeysInv'
<1> SUFFICES ASSUME Typed, KeysInv, [Next]_vars PROVE KeysInv'
  OBVIOUS
<1>0. \A r \in Requests : req[r] \in Request
  BY DEF Typed
<1>1. ASSUME NEW r \in Requests, NEW q, req' = [req EXCEPT ![r] = q], KeysOK(q),
             UNCHANGED <<client, published>>
      PROVE  KeysInv'
  BY <1>1 DEF KeysInv, KeysOK, Uncached, NeedsKeys, Typed
<1>2. ASSUME NEW r \in Requests, Refuse(r), UNCHANGED <<client, published>>
      PROVE  KeysInv'
  <2>1. KeysOK(Idle)
    BY IdleFields DEF KeysOK
  <2>2. QED
    BY <1>1, <1>2, <2>1 DEF Refuse
<1>3. ASSUME NEW r \in Requests, req[r].pc # "idle", NEW stage, stage # "keys",
             req' = Goto(r, stage), UNCHANGED <<client, published>>
      PROVE  KeysInv'
  BY <1>3, <1>0 DEF Goto, KeysInv, KeysOK, Uncached, NeedsKeys, Typed, Request
<1>4. ASSUME NEW r \in Requests, Arrive(r) PROVE KeysInv'
  <2> DEFINE Arrived(e, c, p) ==
               [Idle EXCEPT !.pc = FirstStage(e), !.at = e, !.cred = c, !.proof = p,
                            !.keys = published, !.seen = Range(published)]
  <2>1. PICK e \in Endpoints, c \in Credentials \cup {None}, p \in Proofs \cup {None} :
          req' = [req EXCEPT ![r] = Arrived(e, c, p)]
    BY <1>4 DEF Arrive
  <2>2. /\ Arrived(e, c, p).keys = published /\ Arrived(e, c, p).seen = Range(published)
        /\ ~Arrived(e, c, p).proven /\ (Arrived(e, c, p).pc = "keys" => NeedsKeys)
    BY DEF Idle, FirstStage
  <2> HIDE DEF Arrived
  <2>3. KeysOK(Arrived(e, c, p))
    BY <2>2 DEF KeysOK, Typed
  <2>4. QED
    BY <1>1, <1>4, <2>1, <2>3 DEF Arrive
<1>5. ASSUME NEW r \in Requests, FetchKeys(r) PROVE KeysInv'
  <2>1. CASE Refuse(r)
    BY <1>2, <1>5, <2>1 DEF FetchKeys
  <2>2. ASSUME NEW keys \in KeySets, keys # << >>, Uncached => keys = published,
               req' = [req EXCEPT ![r].pc = "verify", ![r].keys = keys]
        PROVE  KeysInv'
    BY <1>0, <1>5, <2>2 DEF FetchKeys, KeysInv, KeysOK, Uncached, NeedsKeys, Typed, Request
  <2>3. CASE clientJWKSCacheEnabled /\ cache # << >>
    <3>1. ~Uncached
      BY <1>5, <2>3 DEF FetchKeys, KeysInv, KeysOK, Uncached, NeedsKeys, clientJWKSCacheEnabled
    <3>2. QED
      BY <1>5, <2>1, <2>2, <2>3, <3>1 DEF FetchKeys, Typed
  <2>4. QED
    BY <1>5, <2>1, <2>2, <2>3 DEF FetchKeys, Typed
<1>6. ASSUME NEW r \in Requests, Verify(r) PROVE KeysInv'
  <2>1. CASE Refuse(r)
    BY <1>2, <1>6, <2>1 DEF Verify
  <2>2. CASE Verified(req[r])
    <3>1. Uncached => req[r].cred.key \in Range(req[r].keys)
      <4>1. CASE client.method = "private_key_jwt"
        BY <1>0, <1>6, <2>2, <4>1, VerificationKeyInSet
           DEF Verified, Verify, KeysInv, KeysOK, Request, KeySets
      <4>2. CASE client.method = "self_signed_tls_client_auth"
        BY <2>2, <4>2 DEF Verified
      <4>3. QED
        BY <4>1, <4>2 DEF Uncached
    <3>2. Uncached => req[r].cred.key \in req[r].seen
      BY <1>6, <3>1 DEF Verify, KeysInv, KeysOK
    <3>3. ASSUME NEW stage \in {"reserve", "bind"}, NEW x \in BOOLEAN, NEW y \in BOOLEAN,
                 req' = [req EXCEPT ![r].pc = stage, ![r].proven = x, ![r].attributed = y]
          PROVE  KeysInv'
      BY <1>0, <1>6, <3>2, <3>3 DEF Verify, KeysInv, KeysOK, Uncached, NeedsKeys, Typed, Request
    <3>4. QED
      BY <1>6, <2>1, <3>3 DEF Verify, UsesAttestationDPoP, Marked
  <2>3. QED
    BY <1>6, <2>1, <2>2 DEF Verify
<1>7. ASSUME NEW r \in Requests, Reserve(r) \/ ReserveProof(r) PROVE KeysInv'
  <2>1. PICK stage \in {"bind", "accepted"} : req' = Goto(r, stage) \/ Refuse(r)
    BY <1>7, ReserveCases DEF Reserve, ReserveProof
  <2>2. QED
    BY <1>2, <1>3, <1>7, <2>1 DEF Reserve, ReserveProof
<1>8. ASSUME NEW r \in Requests, Bind(r) \/ ValidateJWT(r) \/ Respond(r) PROVE KeysInv'
  <2>1. PICK stage \in {"proof", "accepted", "nonce"} : req' = Goto(r, stage) \/ Refuse(r)
    BY <1>8 DEF Bind, ValidateJWT, Respond, Refuse
  <2>2. QED
    BY <1>2, <1>3, <1>8, <2>1 DEF Bind, ValidateJWT, Respond
<1>9. ASSUME NEW r \in Requests, ValidateNonce(r) PROVE KeysInv'
  <2>1. CASE Refuse(r)
    BY <1>2, <1>9, <2>1 DEF ValidateNonce
  <2>2. ASSUME NEW x \in BOOLEAN, NEW y \in BOOLEAN, Uncached => x = req[r].proven,
               req' = [req EXCEPT ![r].pc = "reserveProof", ![r].proven = x, ![r].attributed = y]
        PROVE  KeysInv'
    BY <1>0, <1>9, <2>2 DEF ValidateNonce, KeysInv, KeysOK, Uncached, NeedsKeys, Typed, Request
  <2>3. Uncached => ~UsesAttestationDPoP(req[r])
    BY DEF Uncached, UsesAttestationDPoP
  <2>4. QED
    BY <1>0, <1>9, <2>1, <2>2, <2>3 DEF ValidateNonce, Request
<1>10. CASE RotateKeys
  <2> SUFFICES ASSUME NEW r \in Requests PROVE KeysOK(req[r])'
    BY DEF KeysInv
  <2>1. /\ req'[r].pc = req[r].pc /\ req'[r].keys = req[r].keys /\ req'[r].cred = req[r].cred
        /\ req'[r].proven = req[r].proven /\ req[r].seen \subseteq req'[r].seen
        /\ req[r].pc # "idle" => Range(published') \subseteq req'[r].seen
    BY <1>0, <1>10 DEF RotateKeys, Request
  <2>2. client' = client
    BY <1>10 DEF RotateKeys
  <2>3. KeysOK(req[r])
    BY DEF KeysInv
  <2>4. QED
    BY <2>1, <2>2, <2>3 DEF KeysOK, Uncached, NeedsKeys, Range
<1>11. CASE Forget \/ Tick \/ (\E s \in Scopes : ExpireNonce(s)) \/ UNCHANGED vars
  BY <1>11 DEF Forget, Tick, ExpireNonce, vars, KeysInv, KeysOK, Uncached, NeedsKeys
<1>12. QED
  BY <1>4, <1>5, <1>6, <1>7, <1>8, <1>9, <1>10, <1>11 DEF Next, Step

\* Every step keeps what is known of the evidence.
LEMMA ProvenStep == Typed /\ ProvenInv /\ [Next]_vars => ProvenInv'
<1> SUFFICES ASSUME Typed, ProvenInv, [Next]_vars PROVE ProvenInv'
  OBVIOUS
<1> USE DEF Authenticating, UsesAttestationDPoP
<1>0. \A r \in Requests : req[r] \in Request
  BY DEF Typed
<1>1. ASSUME NEW r \in Requests, NEW q, req' = [req EXCEPT ![r] = q], ProvenOK(q), UNCHANGED client
      PROVE  ProvenInv'
  BY <1>1 DEF ProvenInv, ProvenOK, Typed
<1>2. ASSUME NEW r \in Requests, Refuse(r), UNCHANGED client
      PROVE  ProvenInv'
  <2>1. ProvenOK(Idle)
    BY IdleFields DEF ProvenOK
  <2>2. QED
    BY <1>1, <1>2, <2>1 DEF Refuse
<1>3. ASSUME NEW r \in Requests, Arrive(r) PROVE ProvenInv'
  <2> DEFINE Arrived(e, c, p) ==
               [Idle EXCEPT !.pc = FirstStage(e), !.at = e, !.cred = c, !.proof = p,
                            !.keys = published, !.seen = Range(published)]
  <2>1. PICK e \in Endpoints, c \in Credentials \cup {None}, p \in Proofs \cup {None} :
          req' = [req EXCEPT ![r] = Arrived(e, c, p)]
    BY <1>3 DEF Arrive
  <2>2. /\ Arrived(e, c, p).pc = FirstStage(e) /\ Arrived(e, c, p).at = e
        /\ ~Arrived(e, c, p).proven /\ ~Arrived(e, c, p).attributed
    BY DEF Idle
  <2>3. FirstStage(e) \in {"keys", "verify", "bind"} /\
        (FirstStage(e) = "bind" <=> e = "userinfo" \/ client.method = "none")
    BY DEF FirstStage
  <2> HIDE DEF Arrived
  <2>4. ProvenOK(Arrived(e, c, p))
    BY <2>2, <2>3 DEF ProvenOK
  <2>5. QED
    BY <1>1, <1>3, <2>1, <2>4 DEF Arrive
<1>4. ASSUME NEW r \in Requests, FetchKeys(r) PROVE ProvenInv'
  <2>1. CASE Refuse(r)
    BY <1>2, <1>4, <2>1 DEF FetchKeys
  <2>2. ASSUME NEW keys, req' = [req EXCEPT ![r].pc = "verify", ![r].keys = keys]
        PROVE  ProvenInv'
    BY <1>0, <1>4, <2>2 DEF FetchKeys, ProvenInv, ProvenOK, Typed, Request
  <2>3. QED
    BY <1>4, <2>1, <2>2 DEF FetchKeys
<1>5. ASSUME NEW r \in Requests, Verify(r) PROVE ProvenInv'
  <2>1. CASE Refuse(r)
    BY <1>2, <1>5, <2>1 DEF Verify
  <2>2. CASE Verified(req[r])
    <3>1. UsesAttestationDPoP(req[r]) =>
            ~OneTime(req[r]) /\ ~Marked(req[r]) /\ req[r].at \in {"token", "par"}
      BY <2>2 DEF Verified, OneTime, Marked
    <3>2. ASSUME NEW stage \in {"reserve", "bind"}, NEW x \in BOOLEAN, NEW y \in BOOLEAN,
                 UsesAttestationDPoP(req[r]) => stage = "bind" /\ ~y,
                 x <=> ~UsesAttestationDPoP(req[r]),
                 req' = [req EXCEPT ![r].pc = stage, ![r].proven = x, ![r].attributed = y]
          PROVE  ProvenInv'
      <4>1. /\ req'[r].pc = stage /\ req'[r].proven = x /\ req'[r].attributed = y
            /\ req'[r].at = req[r].at /\ req'[r].cred = req[r].cred /\ req'[r].proof = req[r].proof
            /\ \A q \in Requests \ {r} : req'[q] = req[q]
        BY <1>0, <3>2 DEF Typed, Request
      <4>2. client' = client /\ Authenticating(req[r])
        BY <1>5 DEF Verify, ProvenInv, ProvenOK
      <4>3. ProvenOK(req[r])'
        BY <3>1, <3>2, <4>1, <4>2 DEF ProvenOK
      <4>4. QED
        BY <4>1, <4>2, <4>3 DEF ProvenInv, ProvenOK
    <3> DEFINE x == ~UsesAttestationDPoP(req[r])
               y == Marked(req[r])
               stage == IF OneTime(req[r]) THEN "reserve" ELSE "bind"
    <3>3. x \in BOOLEAN /\ y \in BOOLEAN /\ stage \in {"reserve", "bind"}
      BY DEF Marked
    <3>4. UsesAttestationDPoP(req[r]) => stage = "bind" /\ ~y
      BY <3>1
    <3>5. CASE req' = [req EXCEPT ![r].pc = stage, ![r].proven = x, ![r].attributed = y]
      <4>1. x <=> ~UsesAttestationDPoP(req[r])
        OBVIOUS
      <4> HIDE DEF x, y, stage
      <4>2. QED
        BY <3>2, <3>3, <3>4, <3>5, <4>1
    <3>6. QED
      BY <1>5, <2>1, <3>5 DEF Verify
  <2>3. QED
    BY <1>5, <2>1, <2>2 DEF Verify
<1>6. ASSUME NEW r \in Requests, Reserve(r) PROVE ProvenInv'
  <2>1. req' = Goto(r, "bind") \/ Refuse(r)
    BY <1>6, ReserveCases DEF Reserve
  <2>2. CASE req' = Goto(r, "bind")
    BY <1>0, <1>6, <2>2 DEF Reserve, Goto, ProvenInv, ProvenOK, Typed, Request
  <2>3. QED
    BY <1>2, <1>6, <2>1, <2>2 DEF Reserve
<1>7. ASSUME NEW r \in Requests, ReserveProof(r) PROVE ProvenInv'
  <2>1. req' = Goto(r, "accepted") \/ Refuse(r)
    BY <1>7, ReserveCases DEF ReserveProof
  <2>2. CASE req' = Goto(r, "accepted")
    BY <1>0, <1>7, <2>2 DEF ReserveProof, Goto, ProvenInv, ProvenOK, Typed, Request
  <2>3. QED
    BY <1>2, <1>7, <2>1, <2>2 DEF ReserveProof
<1>8. ASSUME NEW r \in Requests, Bind(r) PROVE ProvenInv'
  <2>1. CASE req' = Goto(r, "proof") /\ req[r].pc = "bind" /\ client' = client
    BY <1>0, <2>1 DEF Goto, ProvenInv, ProvenOK, Typed, Request
  <2>2. CASE req' = Goto(r, "accepted") /\ (req[r].at = "other" \/ req[r].proof = None)
             /\ req[r].pc = "bind" /\ client' = client
    BY <1>0, <2>2 DEF Goto, ProvenInv, ProvenOK, Typed, Request
  <2>3. QED
    BY <1>2, <1>8, <2>1, <2>2 DEF Bind
<1>9. ASSUME NEW r \in Requests, ValidateJWT(r) PROVE ProvenInv'
  <2>1. CASE req' = Goto(r, "nonce")
    BY <1>0, <1>9, <2>1 DEF ValidateJWT, Goto, ProvenInv, ProvenOK, Typed, Request
  <2>2. QED
    BY <1>2, <1>9, <2>1 DEF ValidateJWT
<1>10. ASSUME NEW r \in Requests, ValidateNonce(r) PROVE ProvenInv'
  <2>1. CASE Refuse(r)
    BY <1>2, <1>10, <2>1 DEF ValidateNonce
  <2>2. ASSUME NEW x \in BOOLEAN, NEW y \in BOOLEAN,
               x = (req[r].proven \/ UsesAttestationDPoP(req[r])),
               y = (req[r].attributed \/ (UsesAttestationDPoP(req[r]) /\ req[r].at = "token")),
               req' = [req EXCEPT ![r].pc = "reserveProof", ![r].proven = x, ![r].attributed = y]
        PROVE  ProvenInv'
    BY <1>0, <1>10, <2>2 DEF ValidateNonce, ProvenInv, ProvenOK, Typed, Request
  <2>3. QED
    BY <1>0, <1>10, <2>1, <2>2 DEF ValidateNonce, Request
<1>11. ASSUME NEW r \in Requests, Respond(r) PROVE ProvenInv'
  BY <1>2, <1>11 DEF Respond, Refuse
<1>12. CASE RotateKeys
  <2> SUFFICES ASSUME NEW r \in Requests PROVE ProvenOK(req[r])'
    BY DEF ProvenInv
  <2>1. /\ req'[r].pc = req[r].pc /\ req'[r].at = req[r].at /\ req'[r].cred = req[r].cred
        /\ req'[r].proof = req[r].proof
        /\ req'[r].proven = req[r].proven /\ req'[r].attributed = req[r].attributed
    BY <1>0, <1>12 DEF RotateKeys, Request
  <2>2. client' = client /\ ProvenOK(req[r])
    BY <1>12 DEF RotateKeys, ProvenInv
  <2>3. QED
    BY <2>1, <2>2 DEF ProvenOK
<1>13. CASE Forget \/ Tick \/ (\E s \in Scopes : ExpireNonce(s)) \/ UNCHANGED vars
  BY <1>13 DEF Forget, Tick, ExpireNonce, vars, ProvenInv, ProvenOK
<1>14. QED
  BY <1>3, <1>4, <1>5, <1>6, <1>7, <1>8, <1>9, <1>10, <1>11, <1>12, <1>13 DEF Next, Step

-----------------------------------------------------------------------------
(* The theorems. *)

\* The invariants hold before the first request.
LEMMA InitHolds == Init => Typed /\ Accounted /\ KeysInv /\ ProvenInv
<1> SUFFICES ASSUME Init PROVE Typed /\ Accounted /\ KeysInv /\ ProvenInv
  OBVIOUS
<1>1. Typed
  BY IdleTyped, ClientAuthenticationAssumption DEF Init, Typed, KeySets
<1>2. Accounted
  BY DEF Init, Accounted
<1>3. \A r \in Requests : req[r] = Idle
  BY DEF Init
<1>4. KeysInv /\ ProvenInv
  BY <1>3, IdleFields DEF KeysInv, KeysOK, ProvenInv, ProvenOK
<1>5. QED
  BY <1>1, <1>2, <1>4

\* The inductive invariants hold throughout.
LEMMA Invariant == Spec => [](Typed /\ Accounted /\ KeysInv /\ ProvenInv)
BY InitHolds, TypedStep, AccountedStep, KeysStep, ProvenStep, PTL DEF Spec

\* No client assertion, attestation proof or DPoP proof is accepted for two
\* requests, however they overlap and whenever the consumer forgets (ReserveJTI
\* reserves until no validation would accept the JWT any more).
THEOREM JWTsAcceptedOnce == Spec => []UsedAtMostOnce
<1>1. Accounted => UsedAtMostOnce
  BY DEF Accounted, UsedAtMostOnce
<1>2. QED
  BY <1>1, Invariant, PTL

\* A request that arrives after a key was withdrawn is not authenticated with
\* it, unless a stored client caches its key set (JWKS, fetchJWKS).
THEOREM WithdrawnKeysRefused == Spec => []RetiredKeyRefused
<1>1. KeysInv => RetiredKeyRefused
  BY DEF KeysInv, KeysOK, Uncached, RetiredKeyRefused
<1>2. QED
  BY <1>1, Invariant, PTL

\* No request is accepted for, or attributed to, a confidential client unless a
\* key or secret of the client was used (Authenticate, ValidateJWT).
THEOREM AttestationIsNotEnough == Spec => []AttributionSound
<1>1. ProvenInv => AttributionSound
  BY DEF ProvenInv, ProvenOK, Authenticating, AttributionSound
<1>2. QED
  BY <1>1, Invariant, PTL
=============================================================================
