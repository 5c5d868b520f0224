------------------------- MODULE TokenEndpoint_proofs -------------------------
(***************************************************************************)
(* Proofs about TokenEndpoint, for every value of its constants: any       *)
(* number of concurrent requests, either kind of grant manager; and about  *)
(* its history of contention (MCTokenEndpoint).                            *)
(***************************************************************************)
EXTENDS MCTokenEndpoint, FiniteSetTheorems, TLAPS

-----------------------------------------------------------------------------
(* The inductive invariant.                                                *)

\* A goroutine past its load: what it serves, and that a copied grant still is
\* of the stored grant's kind.
RequestInv(r) ==
  /\ pc[r] \in {"checked", "saved", "revoking"} => Exists(req[r].gid)
  /\ pc[r] \in {"checked", "saved"} => req[r].op \in {"redeem", "refresh"}
  /\ (pc[r] \in {"checked", "saved", "revoking"} /\ req[r].op = "redeem")
       => grants[req[r].gid].kind \in CodeKinds
  /\ (pc[r] \in {"checked", "saved", "revoking"} /\ ~SharedRecords)
       => loaded[r].kind = grants[req[r].gid].kind

\* Whoever may overwrite the grant without marking it spent holds a spent
\* grant, and whoever may issue a token does it under a spent grant.
WriterInv(r) ==
  /\ (pc[r] = "checked" /\ req[r].op = "refresh"
        /\ grants[req[r].gid].kind \in CodeKinds) => Spent(View(r))
  /\ (pc[r] = "saved" /\ grants[req[r].gid].kind \in CodeKinds)
       => Spent(grants[req[r].gid])

\* A client holds a refresh token of a code grant only after the redemption.
DeliveredInv ==
  \A d \in delivered :
    /\ Exists(d[1])
    /\ grants[d[1]].kind \in CodeKinds => Spent(grants[d[1]])

\* A token belongs to a stored grant, spent if a code was exchanged for it.
TokensInv ==
  \A i \in DOMAIN tokens :
    /\ Exists(tokens[i].gid)
    /\ tokens[i].via = "code" => Spent(grants[tokens[i].gid])

IInv ==
  /\ TypeOK
  /\ \A r \in Requests : RequestInv(r) /\ WriterInv(r)
  /\ DeliveredInv
  /\ TokensInv

-----------------------------------------------------------------------------
(* Typing.                                                                 *)

\* The goroutines' records are typed when no request is served.
LEMMA NoRequestType == NoRequest \in Request /\ NoGrant \in Grant
BY ConstantsAssumption DEF NoRequest, Request, NoGrant, Grant

\* What a handler sees of its grant is a grant, whatever the manager returns.
LEMMA ViewType ==
  ASSUME TypeOK, NEW r \in Requests
  PROVE  View(r) \in Grant
BY DEF TypeOK, View, Request

\* newGrant builds a grant.
LEMMA NewGrantType ==
  ASSUME TypeOK, NEW kind \in CodeKinds \cup DirectKinds,
         NEW c \in Clients \cup {NoClient}, NEW code \in Codes \cup {NoCode},
         NEW e \in Nat, NEW b \in BOOLEAN, NEW k \in Keys \cup {NoKey}
  PROVE  newGrant(kind, c, code, e, b, k) \in Grant
BY ConstantsAssumption DEF TypeOK, newGrant, Grant, RefreshExpiry

\* Issue appends a token.
LEMMA IssueType ==
  ASSUME TypeOK, NEW g \in GrantIDs, NEW grant \in Grant,
         NEW format \in {"jwt", "opaque"}, NEW via \in {"code", "refresh", "direct"},
         NEW sent \in BOOLEAN, Issue(g, grant, format, via, sent)
  PROVE  tokens' \in Seq(Token)
<1> DEFINE t == [gid |-> g, client |-> grant.client, format |-> format,
                 jkt |-> grant.jkt, expiresAt |-> now + TokenLifetime,
                 revoked |-> FALSE, via |-> via, sent |-> sent]
<1>1. t \in Token
  BY ConstantsAssumption DEF TypeOK, Token, Grant
<1> HIDE DEF t
<1>2. tokens' = Append(tokens, t)
  BY DEF Issue, t
<1> QED
  BY <1>1, <1>2 DEF TypeOK

\* A handler that ends, goes on or fails leaves the goroutines typed.
LEMMA ProgressType ==
  ASSUME TypeOK, NEW r \in Requests, NEW grant \in Grant,
         NEW where \in {"idle", "checked", "saved", "revoking"},
         \/ Finish(r)
         \/ Continue(r, grant, where) /\ UNCHANGED req
         \/ Fail(r, grant)
  PROVE  /\ pc' \in [Requests -> {"idle", "checked", "saved", "revoking"}]
         /\ req' \in [Requests -> Request]
         /\ loaded' \in [Requests -> Grant]
<1> USE NoRequestType
<1>1. CASE Finish(r)
  BY <1>1 DEF TypeOK, Finish
<1>2. CASE Continue(r, grant, where) /\ UNCHANGED req
  BY <1>2 DEF TypeOK, Continue
<1>3. CASE Fail(r, grant)
  BY <1>3 DEF TypeOK, Fail, Continue, Finish
<1> QED
  BY <1>1, <1>2, <1>3

\* A request that begins leaves the goroutines typed.
LEMMA BeginType ==
  ASSUME TypeOK, NEW r \in Requests, NEW op \in {"redeem", "refresh", "revoke"},
         NEW c \in Clients \cup {NoClient}, NEW g \in GrantIDs,
         NEW k \in Keys \cup {NoKey},
         NEW where \in {"idle", "checked", "saved", "revoking"},
         Begin(r, op, c, g, k, where)
  PROVE  /\ pc' \in [Requests -> {"idle", "checked", "saved", "revoking"}]
         /\ req' \in [Requests -> Request]
         /\ loaded' \in [Requests -> Grant]
<1>1. [op |-> op, client |-> c, gid |-> g, key |-> k, newRefresh |-> 0] \in Request
  BY DEF Request
<1> QED
  BY <1>1, NoRequestType DEF TypeOK, Begin

\* Whatever the manager drops for a grant that is saved, it holds grants.
LEMMA SavingType ==
  ASSUME TypeOK, NEW g \in GrantIDs, stored' \in Saving(g)
  PROVE  stored' \subseteq GrantIDs
<1>. PICK created : created = [h \in GrantIDs |-> grants[h].createdAt]
  OBVIOUS
<1>1. stored' \in SaveEvicting(stored, g, created) \cup {stored \cup {g}}
  BY DEF Saving
<1>2. stored \subseteq GrantIDs
  BY DEF TypeOK
<1> QED
  BY <1>1, <1>2 DEF SaveEvicting

\* The manager holds grants only.
LEMMA StoredType ==
  ASSUME TypeOK, [Next]_vars
  PROVE  stored' \subseteq GrantIDs
<1>1. UNCHANGED stored => stored' \subseteq GrantIDs
  BY DEF TypeOK
<1>2. ASSUME NEW g \in GrantIDs, stored' \in Saving(g)
      PROVE  stored' \subseteq GrantIDs
  BY <1>2, SavingType
<1>3. CASE Create
  <2>1. ASSUME NEW g, NEW kind, NEW c, NEW code, NEW k, NEW front,
               CreateCodeGrant(g, kind, c, code, k, front)
        PROVE  stored' \in Saving(g)
    BY <2>1, Zenon DEF CreateCodeGrant, NewGrant
  <2>2. ASSUME NEW g, NEW kind, NEW c, NEW k, NEW format, NEW issued,
               DirectGrant(g, kind, c, k, format, issued)
        PROVE  stored' \in Saving(g)
    BY <2>2, Zenon DEF DirectGrant, NewGrant
  <2>3. \E g \in GrantIDs : stored' \in Saving(g)
    BY <1>3, <2>1, <2>2, Zenon DEF Create
  <2> QED
    BY <1>2, <2>3
<1>4. ASSUME NEW r \in Requests, Proceed(r)
      PROVE  stored' \subseteq GrantIDs
  <2>1. req[r].gid \in GrantIDs
    BY DEF TypeOK, Request
  <2>2. UNCHANGED stored \/ stored' \in Saving(req[r].gid)
    BY <1>4, Zenon DEF Proceed, Consume, SaveRefreshed, IssueAndRespond, RevokeGrant,
       SaveGrant, SaveGrantFails
  <2> QED
    BY <1>1, <1>2, <2>1, <2>2
<1>5. Tick \/ Redeem \/ Refresh \/ Revoke \/ UNCHANGED vars \/ (\E r \in Requests : Crash(r))
        => UNCHANGED stored
  BY DEF Tick, Redeem, BeginRedeem, Refresh, BeginRefresh, Revoke, Crash,
     RevokeRefreshToken, RevokeJWT, RevokeOpaque, vars
<1> QED
  BY <1>1, <1>3, <1>4, <1>5 DEF Next

-----------------------------------------------------------------------------
\* Every step keeps the state typed.
LEMMA TypeStep ==
  ASSUME TypeOK, [Next]_vars
  PROVE  TypeOK'
<1> USE NoRequestType DEF TypeOK
<1>0. stored' \subseteq GrantIDs
  BY StoredType
<1>1. CASE Tick
  BY <1>0, <1>1 DEF Tick
<1>2. CASE Create
  <2>1. PICK g \in GrantIDs, kind \in Kinds, c \in Clients \cup {NoClient},
             k \in Keys \cup {NoKey} :
          \/ \E code \in Codes, front \in BOOLEAN : CreateCodeGrant(g, kind, c, code, k, front)
          \/ \E format \in Formats, issued \in BOOLEAN :
               c # NoClient /\ DirectGrant(g, kind, c, k, format, issued)
    BY <1>2 DEF Create
  <2> kind \in CodeKinds \cup DirectKinds
    BY ConstantsAssumption
  <2>2. ASSUME NEW grant \in Grant, NewGrant(g, grant)
        PROVE  grants' \in [GrantIDs -> Grant] /\ lastRefresh' \in Nat
    BY <2>2 DEF NewGrant
  <2>3. ASSUME NEW t \in Nat, Deliver(g, t)
        PROVE  delivered' \subseteq GrantIDs \X Nat
    BY <2>3 DEF Deliver
  <2>4. CASE \E code \in Codes, front \in BOOLEAN : CreateCodeGrant(g, kind, c, code, k, front)
    <3>1. PICK code \in Codes, front \in BOOLEAN : CreateCodeGrant(g, kind, c, code, k, front)
      BY <2>4
    <3> DEFINE push == front /\ kind = "ciba"
               grant == newGrant(kind, c, code, now + CodeLifetime, push, k)
    <3>2. now + CodeLifetime \in Nat /\ push \in BOOLEAN
      BY ConstantsAssumption
    <3>3. grant \in Grant
      BY <3>2, NewGrantType
    <3>4. grant.refreshToken \in Nat
      BY <3>3 DEF Grant
    <3> HIDE DEF grant, push
    <3>5. /\ NewGrant(g, grant)
          /\ \/ \E format \in Formats, sent \in BOOLEAN :
                  Issue(g, grant, format, "direct", sent)
             \/ UNCHANGED tokens
          /\ Deliver(g, grant.refreshToken) \/ UNCHANGED delivered
          /\ UNCHANGED <<now, pc, req, loaded>>
      BY <3>1 DEF CreateCodeGrant, grant, push
    <3>6. tokens' \in Seq(Token)
      BY <3>3, <3>5, IssueType, ConstantsAssumption
    <3> QED
      BY <1>0, <2>2, <2>3, <3>3, <3>4, <3>5, <3>6
  <2>5. CASE \E format \in Formats, issued \in BOOLEAN :
               c # NoClient /\ DirectGrant(g, kind, c, k, format, issued)
    <3>1. PICK format \in Formats, issued \in BOOLEAN : DirectGrant(g, kind, c, k, format, issued)
      BY <2>5
    <3> DEFINE grant == newGrant(kind, c, NoCode, 0, FALSE, k)
    <3>2. grant \in Grant
      BY NewGrantType
    <3>3. grant.refreshToken \in Nat
      BY <3>2 DEF Grant
    <3> HIDE DEF grant
    <3>4. /\ NewGrant(g, grant)
          /\ \/ \E sent \in BOOLEAN : Issue(g, grant, format, "direct", sent)
             \/ UNCHANGED tokens
          /\ Deliver(g, grant.refreshToken) \/ UNCHANGED delivered
          /\ UNCHANGED <<now, pc, req, loaded>>
      BY <3>1 DEF DirectGrant, grant
    <3>5. tokens' \in Seq(Token)
      BY <3>2, <3>4, IssueType, ConstantsAssumption
    <3> QED
      BY <1>0, <2>2, <2>3, <3>2, <3>3, <3>4, <3>5
  <2> QED
    BY <2>1, <2>4, <2>5
<1>3. CASE Redeem
  <2>1. PICK r \in Requests, c \in Clients \cup {NoClient}, g \in GrantIDs,
             k \in Keys \cup {NoKey}, ok \in BOOLEAN : BeginRedeem(r, c, g, k, ok)
    BY <1>3 DEF Redeem
  <2>2. /\ UNCHANGED <<now, grants, tokens, lastRefresh, delivered>>
        /\ Begin(r, "redeem", c, g, k, "checked") \/ Begin(r, "redeem", c, g, k, "revoking")
    BY <2>1 DEF BeginRedeem
  <2> QED
    BY <1>0, <2>2, BeginType
<1>4. CASE Refresh
  <2>1. PICK r \in Requests, c \in Clients, g \in GrantIDs, k \in Keys \cup {NoKey} :
          BeginRefresh(r, c, g, k)
    BY <1>4 DEF Refresh
  <2>2. /\ UNCHANGED <<now, grants, tokens, lastRefresh, delivered>>
        /\ Begin(r, "refresh", c, g, k, "checked")
    BY <2>1 DEF BeginRefresh
  <2> QED
    BY <1>0, <2>2, BeginType
<1>5. CASE Revoke
  <2>1. PICK r \in Requests, c \in Clients :
          \/ \E g \in GrantIDs : RevokeRefreshToken(r, c, g)
          \/ \E i \in DOMAIN tokens : RevokeJWT(r, c, i) \/ RevokeOpaque(r, c, i)
    BY <1>5 DEF Revoke
  <2>2. \A i \in DOMAIN tokens : tokens[i] \in Token /\ tokens[i].gid \in GrantIDs
    <3>1. \A i \in DOMAIN tokens : tokens[i] \in Token
      OBVIOUS
    <3> QED
      BY <3>1 DEF Token
  <2>3. /\ UNCHANGED <<now, grants, lastRefresh, delivered>>
        /\ \/ \E g \in GrantIDs : Begin(r, "revoke", c, g, NoKey, "revoking")
           \/ Finish(r)
        /\ \/ UNCHANGED tokens
           \/ \E i \in DOMAIN tokens : tokens' = [tokens EXCEPT ![i].revoked = TRUE]
    BY <2>1, <2>2 DEF RevokeRefreshToken, RevokeJWT, RevokeOpaque
  <2>4. /\ pc' \in [Requests -> {"idle", "checked", "saved", "revoking"}]
        /\ req' \in [Requests -> Request]
        /\ loaded' \in [Requests -> Grant]
    BY <2>3, BeginType, ProgressType
  <2>5. tokens' \in Seq(Token)
    <3>1. ASSUME NEW i \in DOMAIN tokens, tokens' = [tokens EXCEPT ![i].revoked = TRUE]
          PROVE  tokens' \in Seq(Token)
      <4>1. [tokens[i] EXCEPT !.revoked = TRUE] \in Token
        BY <2>2 DEF Token
      <4> DEFINE t == [tokens[i] EXCEPT !.revoked = TRUE]
      <4>2. t \in Token /\ tokens' = [tokens EXCEPT ![i] = t]
        BY <3>1, <4>1
      <4> HIDE DEF t
      <4> QED
        BY <4>2
    <3> QED
      BY <2>3, <3>1
  <2> QED
    BY <1>0, <2>3, <2>4, <2>5
<1>6. CASE \E r \in Requests : Proceed(r) \/ Crash(r)
  <2>1. PICK r \in Requests : Proceed(r) \/ Crash(r)
    BY <1>6
  <2>2. View(r) \in Grant /\ req[r] \in Request
    BY ViewType
  <2>3. ASSUME NEW grant \in Grant, Assign(r, grant)
        PROVE  grants' \in [GrantIDs -> Grant]
    BY <2>3 DEF Assign
  <2>4. CASE Consume(r)
    <3> DEFINE grant == [View(r) EXCEPT !.consumed = TRUE, !.jkt = req[r].key]
    <3>1. grant \in Grant
      BY <2>2 DEF Grant, Request
    <3> HIDE DEF grant
    <3>2. /\ UNCHANGED <<now, tokens, lastRefresh, delivered>>
          /\ Assign(r, grant) \/ UNCHANGED grants
          /\ (Continue(r, grant, "saved") /\ UNCHANGED req) \/ Fail(r, grant)
      BY <2>4 DEF SaveGrant, Consume, SaveGrantFails, grant
    <3> QED
      BY <1>0, <2>3, <3>1, <3>2, ProgressType
  <2>5. CASE SaveRefreshed(r)
    <3>1. Refreshed(r) \in Grant
      <4> DEFINE t == IF Rotation THEN lastRefresh + 1 ELSE View(r).refreshToken
                 e == IF Rotation THEN RefreshExpiry ELSE View(r).refreshExpiresAt
                 k == IF View(r).jkt # NoKey THEN req[r].key ELSE View(r).jkt
      <4>1. t \in Nat /\ e \in Nat /\ k \in Keys \cup {NoKey}
        BY <2>2, ConstantsAssumption DEF Grant, Request, RefreshExpiry
      <4>2. Refreshed(r) = [View(r) EXCEPT !.refreshToken = t,
                                           !.refreshExpiresAt = e, !.jkt = k]
        BY <2>2 DEF Refreshed, Grant
      <4> HIDE DEF t, e, k
      <4> QED
        BY <2>2, <4>1, <4>2 DEF Grant
    <3>2. /\ UNCHANGED <<now, tokens, delivered>>
          /\ lastRefresh' \in Nat
          /\ Assign(r, Refreshed(r)) \/ UNCHANGED grants
          /\ \/ /\ Continue(r, Refreshed(r), "saved")
                /\ req' = [req EXCEPT ![r].newRefresh = IF Rotation THEN lastRefresh + 1 ELSE 0]
             \/ Finish(r)
      BY <2>5 DEF SaveGrant, SaveRefreshed
    <3>3. CASE /\ Continue(r, Refreshed(r), "saved")
               /\ req' = [req EXCEPT ![r].newRefresh = IF Rotation THEN lastRefresh + 1 ELSE 0]
      <4> DEFINE n == IF Rotation THEN lastRefresh + 1 ELSE 0
      <4>1. n \in Nat /\ req' = [req EXCEPT ![r] = [req[r] EXCEPT !.newRefresh = n]]
        BY <3>3
      <4> HIDE DEF n
      <4>2. [req[r] EXCEPT !.newRefresh = n] \in Request
        BY <2>2, <4>1 DEF Request
      <4>3. req' \in [Requests -> Request]
        BY <4>1, <4>2
      <4> QED
        BY <2>3, <1>0, <3>1, <3>2, <3>3, <4>3 DEF Continue
    <3>4. CASE Finish(r)
      BY <1>0, <2>3, <3>1, <3>2, <3>4 DEF Finish
    <3> QED
      BY <3>2, <3>3, <3>4
  <2>6. CASE \E format \in Formats : IssueAndRespond(r, format)
    <3>1. PICK format \in Formats : IssueAndRespond(r, format)
      BY <2>6
    <3>2. /\ UNCHANGED <<now, grants, lastRefresh>>
          /\ \/ \E sent \in BOOLEAN : Issue(req[r].gid, View(r), format, Via(r), sent)
             \/ UNCHANGED tokens
          /\ Finish(r) \/ Fail(r, View(r))
          /\ Deliver(req[r].gid, ResponseRefreshToken(r)) \/ UNCHANGED delivered
      BY <3>1 DEF IssueAndRespond
    <3>3. /\ req[r].gid \in GrantIDs /\ Via(r) \in {"code", "refresh", "direct"}
          /\ ResponseRefreshToken(r) \in Nat
      BY <2>2 DEF Request, Grant, Via, ResponseRefreshToken
    <3>4. tokens' \in Seq(Token)
      BY <2>2, <3>2, <3>3, IssueType, ConstantsAssumption
    <3>5. delivered' \subseteq GrantIDs \X Nat
      BY <3>2, <3>3 DEF Deliver
    <3> QED
      BY <1>0, <2>2, <3>2, <3>4, <3>5, ProgressType
  <2>7. CASE RevokeGrant(r)
    <3> DEFINE grant == [View(r) EXCEPT !.revoked = TRUE]
    <3>1. grant \in Grant
      BY <2>2 DEF Grant
    <3> HIDE DEF grant
    <3>2. /\ UNCHANGED <<now, tokens, lastRefresh, delivered>>
          /\ Assign(r, grant) \/ UNCHANGED grants
          /\ Finish(r)
      BY <2>7 DEF SaveGrant, RevokeGrant, SaveGrantFails, grant
    <3> QED
      BY <1>0, <2>3, <3>1, <3>2, ProgressType
  <2>8. CASE Crash(r)
    BY <1>0, <2>2, <2>8, ProgressType DEF Crash
  <2> QED
    BY <2>1, <2>4, <2>5, <2>6, <2>7, <2>8 DEF Proceed
<1>7. CASE UNCHANGED vars
  BY <1>0, <1>7 DEF vars
<1> QED
  BY <1>1, <1>2, <1>3, <1>4, <1>5, <1>6, <1>7 DEF Next

\* The state stays typed: the grants, tokens and requests of the token
\* endpoint are what the handlers take them for.
THEOREM TypeCorrect == Spec => []TypeOK
<1>1. Init => TypeOK
  BY NoRequestType DEF Init, TypeOK
<1>2. TypeOK /\ [Next]_vars => TypeOK'
  BY TypeStep
<1> QED
  BY <1>1, <1>2, PTL DEF Spec

-----------------------------------------------------------------------------
(* What a step may do to the stored grants.                                *)

\* A stored grant keeps its kind, and a spent one stays spent.
KeepsGrants ==
  \A g \in GrantIDs :
    /\ Exists(g) => grants'[g].kind = grants[g].kind
    /\ Spent(grants[g]) => Spent(grants'[g])

\* Saving a grant of the stored grant's kind that is spent, if it has a code,
\* keeps the grants.
LEMMA SaveKeeps ==
  ASSUME TypeOK, NEW r \in Requests, NEW grant \in Grant, Assign(r, grant),
         grant.kind = grants[req[r].gid].kind,
         grant.kind \in CodeKinds => Spent(grant)
  PROVE  KeepsGrants
BY DEF TypeOK, Request, Assign, KeepsGrants, Exists, Spent, Grant

\* The grant a goroutine past its load holds has the stored grant's kind.
LEMMA ViewKind ==
  ASSUME IInv, NEW r \in Requests, pc[r] \in {"checked", "saved", "revoking"}
  PROVE  View(r).kind = grants[req[r].gid].kind
BY ConstantsAssumption DEF IInv, RequestInv, View

\* Redeeming saves a grant of the stored kind whose code is consumed.
LEMMA ConsumedGrant ==
  ASSUME IInv, NEW r \in Requests, pc[r] = "checked", req[r].op = "redeem",
         NEW grant, grant = [View(r) EXCEPT !.consumed = TRUE, !.jkt = req[r].key]
  PROVE  grant \in Grant /\ grant.kind = grants[req[r].gid].kind /\ Spent(grant)
<1>1. TypeOK /\ View(r) \in Grant /\ req[r] \in Request
  BY ViewType DEF IInv, TypeOK
<1>2. View(r).kind = grants[req[r].gid].kind /\ View(r).kind \in CodeKinds
  BY ViewKind DEF IInv, RequestInv
<1>3. grant \in Grant /\ grant.kind = View(r).kind /\ grant.consumed = TRUE
  BY <1>1 DEF Grant, Request
<1> QED
  BY <1>2, <1>3 DEF Spent

\* Refreshing saves a grant of the stored kind, spent if it has a code.
LEMMA RefreshedGrant ==
  ASSUME IInv, NEW r \in Requests, pc[r] = "checked", req[r].op = "refresh"
  PROVE  /\ Refreshed(r) \in Grant /\ Refreshed(r).kind = grants[req[r].gid].kind
         /\ Refreshed(r).kind \in CodeKinds => Spent(Refreshed(r))
         /\ Refreshed(r).revoked = View(r).revoked
<1>1. TypeOK /\ View(r) \in Grant /\ req[r] \in Request
  BY ViewType DEF IInv, TypeOK
<1>2. View(r).kind = grants[req[r].gid].kind
  BY ViewKind
<1>3. View(r).kind \in CodeKinds => Spent(View(r))
  BY <1>2 DEF IInv, WriterInv
<1> DEFINE t == IF Rotation THEN lastRefresh + 1 ELSE View(r).refreshToken
           e == IF Rotation THEN RefreshExpiry ELSE View(r).refreshExpiresAt
           k == IF View(r).jkt # NoKey THEN req[r].key ELSE View(r).jkt
<1>4. t \in Nat /\ e \in Nat /\ k \in Keys \cup {NoKey}
  BY <1>1, ConstantsAssumption DEF TypeOK, Grant, Request, RefreshExpiry
<1>5. Refreshed(r) = [View(r) EXCEPT !.refreshToken = t, !.refreshExpiresAt = e, !.jkt = k]
  BY <1>1 DEF Refreshed, Grant
<1> HIDE DEF t, e, k
<1>6. /\ Refreshed(r) \in Grant
      /\ Refreshed(r).kind = View(r).kind
      /\ Refreshed(r).consumed = View(r).consumed
      /\ Refreshed(r).revoked = View(r).revoked
  BY <1>1, <1>4, <1>5 DEF Grant
<1> QED
  BY <1>2, <1>3, <1>6 DEF Spent

\* Revoking saves a grant of the stored kind that is revoked.
LEMMA RevokedGrant ==
  ASSUME IInv, NEW r \in Requests, pc[r] = "revoking",
         NEW grant, grant = [View(r) EXCEPT !.revoked = TRUE]
  PROVE  /\ grant \in Grant /\ grant.kind = grants[req[r].gid].kind
         /\ grant.kind \in CodeKinds => Spent(grant)
<1>1. TypeOK /\ View(r) \in Grant
  BY ViewType DEF IInv
<1>2. grant \in Grant /\ grant.kind = View(r).kind /\ grant.revoked = TRUE
  BY <1>1 DEF Grant
<1> QED
  BY <1>2, ViewKind DEF Spent

\* What creating a grant does to storage.
LEMMA CreateStores ==
  ASSUME Create
  PROVE  \E g \in GrantIDs : \E grant : NewGrant(g, grant)
<1>1. ASSUME NEW g \in GrantIDs, NEW kind, NEW c, NEW code, NEW k, NEW front,
             CreateCodeGrant(g, kind, c, code, k, front)
      PROVE  \E h \in GrantIDs : \E grant : NewGrant(h, grant)
  BY <1>1, Zenon DEF CreateCodeGrant
<1>2. ASSUME NEW g \in GrantIDs, NEW kind, NEW c, NEW k, NEW format, NEW issued,
             DirectGrant(g, kind, c, k, format, issued)
      PROVE  \E h \in GrantIDs : \E grant : NewGrant(h, grant)
  BY <1>2, Zenon DEF DirectGrant
<1> QED
  BY <1>1, <1>2, Zenon DEF Create

\* Every step of the token endpoint keeps the grants.
LEMMA StepKeepsGrants ==
  ASSUME IInv, [Next]_vars
  PROVE  KeepsGrants
<1> USE DEF IInv
<1>1. UNCHANGED grants => KeepsGrants
  BY DEF KeepsGrants
<1>2. CASE Create
  <2>0. PICK g \in GrantIDs : \E grant : NewGrant(g, grant)
    BY <1>2, CreateStores
  <2>1. PICK grant : NewGrant(g, grant)
    BY <2>0
  <2>2. ~Exists(g) /\ grants' = [grants EXCEPT ![g] = grant]
    BY <2>1 DEF NewGrant
  <2> QED
    BY <2>2 DEF TypeOK, KeepsGrants, Exists, Spent, CodeKinds
<1>3. CASE \E r \in Requests : Proceed(r) \/ Crash(r)
  <2>1. PICK r \in Requests : Proceed(r) \/ Crash(r)
    BY <1>3
  <2>2. CASE Consume(r)
    <3> DEFINE grant == [View(r) EXCEPT !.consumed = TRUE, !.jkt = req[r].key]
    <3>1. /\ pc[r] = "checked" /\ req[r].op = "redeem"
          /\ Assign(r, grant) \/ UNCHANGED grants
      BY <2>2 DEF SaveGrant, Consume, SaveGrantFails
    <3>2. grant \in Grant /\ grant.kind = grants[req[r].gid].kind /\ Spent(grant)
      BY <3>1, ConsumedGrant
    <3> HIDE DEF grant
    <3> QED
      BY <1>1, <3>1, <3>2, SaveKeeps
  <2>3. CASE SaveRefreshed(r)
    <3>1. /\ pc[r] = "checked" /\ req[r].op = "refresh"
          /\ Assign(r, Refreshed(r)) \/ UNCHANGED grants
      BY <2>3 DEF SaveGrant, SaveRefreshed
    <3> QED
      BY <1>1, <3>1, RefreshedGrant, SaveKeeps
  <2>4. CASE RevokeGrant(r)
    <3> DEFINE grant == [View(r) EXCEPT !.revoked = TRUE]
    <3>1. pc[r] = "revoking" /\ (Assign(r, grant) \/ UNCHANGED grants)
      BY <2>4 DEF SaveGrant, RevokeGrant, SaveGrantFails
    <3>2. /\ grant \in Grant /\ grant.kind = grants[req[r].gid].kind
          /\ grant.kind \in CodeKinds => Spent(grant)
      BY <3>1, RevokedGrant
    <3> HIDE DEF grant
    <3> QED
      BY <1>1, <3>1, <3>2, SaveKeeps
  <2>5. CASE (\E format \in Formats : IssueAndRespond(r, format)) \/ Crash(r)
    BY <1>1, <2>5 DEF IssueAndRespond, Crash
  <2> QED
    BY <2>1, <2>2, <2>3, <2>4, <2>5 DEF Proceed
<1>4. CASE Tick \/ Redeem \/ Refresh \/ Revoke \/ UNCHANGED vars
  BY <1>1, <1>4 DEF Tick, Redeem, BeginRedeem, Refresh, BeginRefresh, Revoke,
     RevokeRefreshToken, RevokeJWT, RevokeOpaque, vars
<1> QED
  BY <1>2, <1>3, <1>4 DEF Next

-----------------------------------------------------------------------------
(* The invariant is inductive.                                             *)

\* A goroutine that does not move keeps its invariants while another steps.
LEMMA OtherRequests ==
  ASSUME IInv, KeepsGrants, NEW s \in Requests,
         pc'[s] = pc[s], req'[s] = req[s], loaded'[s] = loaded[s]
  PROVE  (RequestInv(s) /\ WriterInv(s))'
<1>1. RequestInv(s) /\ WriterInv(s) /\ req[s].gid \in GrantIDs
  BY DEF IInv, TypeOK, Request
<1>2. pc[s] \in {"checked", "saved", "revoking"} =>
        /\ Exists(req[s].gid)
        /\ grants'[req[s].gid].kind = grants[req[s].gid].kind
        /\ Spent(grants[req[s].gid]) => Spent(grants'[req[s].gid])
  BY <1>1 DEF KeepsGrants, RequestInv
<1>3. RequestInv(s)'
  BY <1>1, <1>2 DEF RequestInv, Exists
<1>4. WriterInv(s)'
  BY <1>1, <1>2, ConstantsAssumption DEF WriterInv, View
<1> QED
  BY <1>3, <1>4

\* A goroutine that ends has nothing to keep.
LEMMA FinishedRequest ==
  ASSUME TypeOK, NEW r \in Requests, Finish(r)
  PROVE  /\ (RequestInv(r) /\ WriterInv(r))'
         /\ \A s \in Requests \ {r} :
              pc'[s] = pc[s] /\ req'[s] = req[s] /\ loaded'[s] = loaded[s]
BY DEF TypeOK, Finish, RequestInv, WriterInv

\* A new token belongs to a stored grant, spent if a code was exchanged for
\* it; the others stay.
LEMMA TokensStep ==
  ASSUME IInv, KeepsGrants,
         \A i \in DOMAIN tokens' :
           \/ /\ i \in DOMAIN tokens
              /\ tokens'[i].gid = tokens[i].gid /\ tokens'[i].via = tokens[i].via
           \/ /\ (Exists(tokens[i].gid))'
              /\ tokens'[i].via = "code" => Spent(grants'[tokens'[i].gid])
  PROVE  TokensInv'
<1> SUFFICES ASSUME NEW i \in DOMAIN tokens'
             PROVE  /\ (Exists(tokens[i].gid))'
                    /\ tokens'[i].via = "code" => Spent(grants'[tokens'[i].gid])
  BY DEF TokensInv, Spent
<1>1. CASE /\ i \in DOMAIN tokens
           /\ tokens'[i].gid = tokens[i].gid /\ tokens'[i].via = tokens[i].via
  <2>1. /\ Exists(tokens[i].gid)
        /\ tokens[i].via = "code" => Spent(grants[tokens[i].gid])
    BY <1>1 DEF IInv, TokensInv
  <2>2. tokens[i].gid \in GrantIDs
    <3>1. tokens[i] \in Token
      BY <1>1 DEF IInv, TypeOK
    <3> QED
      BY <3>1 DEF Token
  <2> QED
    BY <1>1, <2>1, <2>2 DEF KeepsGrants, Exists
<1>2. CASE ~(/\ i \in DOMAIN tokens
             /\ tokens'[i].gid = tokens[i].gid /\ tokens'[i].via = tokens[i].via)
  BY <1>2
<1> QED
  BY <1>1, <1>2

\* What Issue appends, seen from the positions of the new sequence.
LEMMA IssuedTokens ==
  ASSUME TypeOK, NEW g \in GrantIDs, NEW grant, NEW format, NEW via, NEW sent,
         Issue(g, grant, format, via, sent)
  PROVE  \A i \in DOMAIN tokens' :
           \/ i \in DOMAIN tokens /\ tokens'[i] = tokens[i]
           \/ tokens'[i].gid = g /\ tokens'[i].via = via
<1> DEFINE t == [gid |-> g, client |-> grant.client, format |-> format,
                 jkt |-> grant.jkt, expiresAt |-> now + TokenLifetime,
                 revoked |-> FALSE, via |-> via, sent |-> sent]
<1>1. t.gid = g /\ t.via = via
  OBVIOUS
<1>2. tokens' = Append(tokens, t)
  BY DEF Issue
<1> HIDE DEF t
<1>3. DOMAIN tokens = 1 .. Len(tokens) /\ Len(tokens) \in Nat /\ tokens \in Seq(Token)
  BY DEF TypeOK
<1>4. /\ DOMAIN tokens' = 1 .. (Len(tokens) + 1)
      /\ \A i \in 1 .. Len(tokens) : tokens'[i] = tokens[i]
      /\ tokens'[Len(tokens) + 1] = t
  BY <1>2, <1>3
<1> QED
  BY <1>1, <1>3, <1>4

\* A refresh token that is newly delivered belongs to a stored grant that is
\* spent, if it has a code; the others stay.
LEMMA DeliveredStep ==
  ASSUME IInv, KeepsGrants, NEW g \in GrantIDs,
         \A d \in delivered' : d \in delivered \/ d[1] = g,
         \/ delivered' \subseteq delivered
         \/ (Exists(g))' /\ (grants'[g].kind \in CodeKinds => Spent(grants'[g]))
  PROVE  DeliveredInv'
<1> SUFFICES ASSUME NEW d \in delivered'
             PROVE  (Exists(d[1]))' /\ (grants'[d[1]].kind \in CodeKinds => Spent(grants'[d[1]]))
  BY DEF DeliveredInv, Spent
<1>1. CASE d \in delivered
  <2>1. d[1] \in GrantIDs
    BY <1>1 DEF IInv, TypeOK
  <2>2. Exists(d[1]) /\ (grants[d[1]].kind \in CodeKinds => Spent(grants[d[1]]))
    BY <1>1 DEF IInv, DeliveredInv
  <2>3. grants'[d[1]].kind = grants[d[1]].kind
    BY <2>1, <2>2 DEF KeepsGrants
  <2>4. Spent(grants[d[1]]) => Spent(grants'[d[1]])
    BY <2>1 DEF KeepsGrants
  <2> QED
    BY <2>2, <2>3, <2>4 DEF Exists
<1>2. CASE d \notin delivered
  BY <1>2
<1> QED
  BY <1>1, <1>2

\* Beginning a request on a stored grant.
LEMMA BeginInv ==
  ASSUME IInv, NEW r \in Requests, NEW op \in {"redeem", "refresh", "revoke"},
         NEW c, NEW g \in GrantIDs, NEW k, NEW where \in {"checked", "revoking"},
         Begin(r, op, c, g, k, where), UNCHANGED grants,
         Exists(g), where = "checked" => op \in {"redeem", "refresh"},
         op = "redeem" => grants[g].kind \in CodeKinds,
         (op = "refresh" /\ grants[g].kind \in CodeKinds) => Spent(grants[g])
  PROVE  /\ (RequestInv(r) /\ WriterInv(r))'
         /\ \A s \in Requests \ {r} :
              pc'[s] = pc[s] /\ req'[s] = req[s] /\ loaded'[s] = loaded[s]
<1>1. /\ pc'[r] = where /\ req'[r].op = op /\ req'[r].gid = g
      /\ ~SharedRecords => loaded'[r] = grants[g]
  BY ConstantsAssumption DEF IInv, TypeOK, Begin
<1>2. RequestInv(r)'
  BY <1>1 DEF RequestInv, Exists
<1>3. WriterInv(r)'
  BY <1>1, ConstantsAssumption DEF WriterInv, View
<1>4. \A s \in Requests \ {r} :
        pc'[s] = pc[s] /\ req'[s] = req[s] /\ loaded'[s] = loaded[s]
  BY DEF IInv, TypeOK, Begin
<1> QED
  BY <1>2, <1>3, <1>4

\* Failing, or going on to the next stage with the grant in hand.
LEMMA ContinueInv ==
  ASSUME IInv, KeepsGrants, NEW r \in Requests, NEW grant \in Grant,
         pc[r] \in {"checked", "saved"},
         grant.kind = grants[req[r].gid].kind,
         NEW where \in {"saved", "revoking"}, Continue(r, grant, where),
         req'[r].gid = req[r].gid, req'[r].op = req[r].op,
         where = "saved" => (grant.kind \in CodeKinds => Spent(grants'[req[r].gid]))
  PROVE  (RequestInv(r) /\ WriterInv(r))'
<1>1. /\ pc'[r] = where
      /\ ~SharedRecords => loaded'[r] = grant
  BY ConstantsAssumption DEF IInv, TypeOK, Continue
<1>2. /\ req[r].gid \in GrantIDs /\ Exists(req[r].gid)
      /\ req[r].op \in {"redeem", "refresh"}
      /\ req[r].op = "redeem" => grants[req[r].gid].kind \in CodeKinds
  BY DEF IInv, RequestInv, TypeOK, Request
<1>3. grants'[req[r].gid].kind = grants[req[r].gid].kind
  BY <1>2 DEF KeepsGrants
<1>4. RequestInv(r)'
  BY <1>1, <1>2, <1>3 DEF RequestInv, Exists
<1>5. WriterInv(r)'
  BY <1>1, <1>3 DEF WriterInv
<1> QED
  BY <1>4, <1>5

\* The goroutines other than the one that goes on do not move.
LEMMA ContinueFrame ==
  ASSUME TypeOK, NEW r \in Requests, NEW grant, NEW where, Continue(r, grant, where),
         \A s \in Requests \ {r} : req'[s] = req[s]
  PROVE  \A s \in Requests \ {r} :
           pc'[s] = pc[s] /\ req'[s] = req[s] /\ loaded'[s] = loaded[s]
BY DEF TypeOK, Continue

\* A failing request, whatever its grant type does about it.
LEMMA FailInv ==
  ASSUME IInv, KeepsGrants, NEW r \in Requests, NEW grant \in Grant,
         pc[r] \in {"checked", "saved"},
         grant.kind = grants[req[r].gid].kind, Fail(r, grant)
  PROVE  /\ (RequestInv(r) /\ WriterInv(r))'
         /\ \A s \in Requests \ {r} :
              pc'[s] = pc[s] /\ req'[s] = req[s] /\ loaded'[s] = loaded[s]
<1> TypeOK
  BY DEF IInv
<1>1. CASE RevokesOnError(r)
  <2>1. Continue(r, grant, "revoking") /\ UNCHANGED req
    BY <1>1 DEF Fail
  <2>2. (RequestInv(r) /\ WriterInv(r))'
    BY <2>1, ContinueInv
  <2> QED
    BY <2>1, <2>2, ContinueFrame
<1>2. CASE ~RevokesOnError(r)
  <2>1. Finish(r)
    BY <1>2 DEF Fail
  <2> QED
    BY <2>1, FinishedRequest
<1> QED
  BY <1>1, <1>2

\* Creating a grant.
LEMMA CreateInv ==
  ASSUME IInv, TypeOK', KeepsGrants, Create
  PROVE  IInv'
<1>0. ASSUME NEW g \in GrantIDs, NEW kind \in Kinds, NEW c, NEW code, NEW e, NEW b, NEW k,
             NewGrant(g, newGrant(kind, c, code, e, b, k))
      PROVE  (Exists(g))'
  <2> DEFINE grant == newGrant(kind, c, code, e, b, k)
  <2>1. grants'[g] = grant
    BY <1>0 DEF NewGrant, IInv, TypeOK
  <2>2. grant.kind = kind /\ kind # "none"
    BY ConstantsAssumption DEF newGrant, CodeKinds, DirectKinds
  <2> HIDE DEF grant
  <2> QED
    BY <2>1, <2>2 DEF Exists
<1>1. \A s \in Requests : (RequestInv(s) /\ WriterInv(s))'
  <2>1. UNCHANGED <<pc, req, loaded>>
    <3>1. ASSUME NEW g, NEW kind, NEW c, NEW code, NEW k, NEW front,
                 CreateCodeGrant(g, kind, c, code, k, front)
          PROVE  UNCHANGED <<pc, req, loaded>>
      BY <3>1, Zenon DEF CreateCodeGrant
    <3>2. ASSUME NEW g, NEW kind, NEW c, NEW k, NEW format, NEW issued,
                 DirectGrant(g, kind, c, k, format, issued)
          PROVE  UNCHANGED <<pc, req, loaded>>
      BY <3>2, Zenon DEF DirectGrant
    <3> QED
      BY <3>1, <3>2, Zenon DEF Create
  <2> QED
    BY <2>1, OtherRequests
<1>2. ASSUME NEW g \in GrantIDs, NEW kind \in Kinds, NEW c, NEW code, NEW e, NEW b, NEW k,
             NewGrant(g, newGrant(kind, c, code, e, b, k)),
             kind \in CodeKinds => (b = TRUE \/ UNCHANGED delivered),
             \A d \in delivered' : d \in delivered \/ d[1] = g
      PROVE  DeliveredInv'
  <2> DEFINE grant == newGrant(kind, c, code, e, b, k)
  <2>1. grants'[g] = grant
    BY <1>2 DEF NewGrant, IInv, TypeOK
  <2>2. grant.kind = kind /\ grant.consumed = b
    BY DEF newGrant
  <2>4. (Exists(g))'
    BY <1>0, <1>2
  <2> HIDE DEF grant
  <2>5. UNCHANGED delivered \/ (grants'[g].kind \in CodeKinds => Spent(grants'[g]))
    BY <1>2, <2>1, <2>2 DEF Spent
  <2> QED
    BY <1>2, <2>4, <2>5, DeliveredStep
<1>3. PICK g \in GrantIDs, kind \in Kinds, c \in Clients \cup {NoClient},
           k \in Keys \cup {NoKey} :
        \/ \E code \in Codes, front \in BOOLEAN : CreateCodeGrant(g, kind, c, code, k, front)
        \/ \E format \in Formats, issued \in BOOLEAN :
             c # NoClient /\ DirectGrant(g, kind, c, k, format, issued)
  BY DEF Create
<1>4. CASE \E code \in Codes, front \in BOOLEAN : CreateCodeGrant(g, kind, c, code, k, front)
  <2>1. PICK code \in Codes, front \in BOOLEAN : CreateCodeGrant(g, kind, c, code, k, front)
    BY <1>4
  <2> DEFINE push == front /\ kind = "ciba"
             e == now + CodeLifetime
             grant == newGrant(kind, c, code, e, push, k)
  <2>2. /\ NewGrant(g, grant)
        /\ \/ \E format \in Formats : Issue(g, grant, format, "direct", TRUE)
           \/ UNCHANGED tokens
        /\ push = TRUE \/ UNCHANGED delivered
        /\ Deliver(g, grant.refreshToken) \/ UNCHANGED delivered
    BY <2>1 DEF CreateCodeGrant
  <2>3. \A d \in delivered' : d \in delivered \/ d[1] = g
    BY <2>2 DEF Deliver
  <2>4. DeliveredInv'
    <3> HIDE DEF push, e
    <3> QED
      BY <1>2, <2>2, <2>3
  <2>5. TokensInv'
    <3>1. (Exists(g))'
      BY <1>0, <2>2
    <3> HIDE DEF grant
    <3>2. \A i \in DOMAIN tokens' :
            \/ i \in DOMAIN tokens /\ tokens'[i] = tokens[i]
            \/ tokens'[i].gid = g /\ tokens'[i].via = "direct"
      BY <2>2, IssuedTokens DEF IInv
    <3>3. \A i \in DOMAIN tokens' :
            \/ i \in DOMAIN tokens /\ tokens'[i] = tokens[i]
            \/ (Exists(tokens[i].gid))' /\ tokens'[i].via # "code"
      BY <3>1, <3>2 DEF Exists
    <3> QED
      BY <3>3, TokensStep
  <2> QED
    BY <1>1, <2>4, <2>5 DEF IInv
<1>5. CASE \E format \in Formats, issued \in BOOLEAN :
             c # NoClient /\ DirectGrant(g, kind, c, k, format, issued)
  <2>1. PICK format \in Formats, issued \in BOOLEAN : DirectGrant(g, kind, c, k, format, issued)
    BY <1>5
  <2> DEFINE grant == newGrant(kind, c, NoCode, 0, FALSE, k)
  <2>2. /\ NewGrant(g, grant)
        /\ Issue(g, grant, format, "direct", TRUE) \/ UNCHANGED tokens
        /\ kind \in DirectKinds
        /\ Deliver(g, grant.refreshToken) \/ UNCHANGED delivered
    BY <2>1 DEF DirectGrant
  <2>3. kind \notin CodeKinds
    BY <2>2 DEF DirectKinds, CodeKinds
  <2>4. \A d \in delivered' : d \in delivered \/ d[1] = g
    <3> HIDE DEF grant
    <3> QED
      BY <2>2 DEF Deliver
  <2>5. DeliveredInv'
    BY <1>2, <2>2, <2>3, <2>4
  <2>6. TokensInv'
    <3>1. (Exists(g))'
      BY <1>0, <2>2
    <3> HIDE DEF grant
    <3>2. \A i \in DOMAIN tokens' :
            \/ i \in DOMAIN tokens /\ tokens'[i] = tokens[i]
            \/ tokens'[i].gid = g /\ tokens'[i].via = "direct"
      BY <2>2, IssuedTokens DEF IInv
    <3>3. \A i \in DOMAIN tokens' :
            \/ i \in DOMAIN tokens /\ tokens'[i] = tokens[i]
            \/ (Exists(tokens[i].gid))' /\ tokens'[i].via # "code"
      BY <3>1, <3>2 DEF Exists
    <3> QED
      BY <3>3, TokensStep
  <2> QED
    BY <1>1, <2>5, <2>6 DEF IInv
<1> QED
  BY <1>3, <1>4, <1>5

\* A step of a goroutine, or its end.
LEMMA ProceedInv ==
  ASSUME IInv, TypeOK', KeepsGrants, NEW r \in Requests, Proceed(r) \/ Crash(r)
  PROVE  IInv'
<1> TypeOK /\ View(r) \in Grant /\ req[r] \in Request /\ req[r].gid \in GrantIDs
  BY ViewType DEF IInv, TypeOK, Request
<1>1. ASSUME (RequestInv(r) /\ WriterInv(r))',
             \A s \in Requests \ {r} :
               pc'[s] = pc[s] /\ req'[s] = req[s] /\ loaded'[s] = loaded[s]
      PROVE  \A s \in Requests : (RequestInv(s) /\ WriterInv(s))'
  BY <1>1, OtherRequests
<1>2. UNCHANGED delivered => DeliveredInv'
  BY DeliveredStep
<1>3. UNCHANGED tokens => TokensInv'
  BY TokensStep
<1>4. CASE Consume(r)
  <2> DEFINE grant == [View(r) EXCEPT !.consumed = TRUE, !.jkt = req[r].key]
  <2>1. /\ pc[r] = "checked" /\ req[r].op = "redeem"
        /\ \/ Assign(r, grant) /\ Continue(r, grant, "saved") /\ UNCHANGED req
           \/ Fail(r, grant)
        /\ UNCHANGED <<tokens, delivered>>
    BY <1>4 DEF SaveGrant, Consume
  <2>2. grant \in Grant /\ grant.kind = grants[req[r].gid].kind /\ Spent(grant)
    BY <2>1, ConsumedGrant
  <2> HIDE DEF grant
  <2>3. CASE Assign(r, grant) /\ Continue(r, grant, "saved") /\ UNCHANGED req
    <3>1. grants'[req[r].gid] = grant
      BY <2>3 DEF Assign, TypeOK
    <3>2. (RequestInv(r) /\ WriterInv(r))'
      BY <2>1, <2>2, <2>3, <3>1, ContinueInv
    <3> QED
      BY <1>1, <1>2, <1>3, <2>1, <2>3, <3>2, ContinueFrame DEF IInv
  <2>4. CASE Fail(r, grant)
    BY <1>1, <1>2, <1>3, <2>1, <2>2, <2>4, FailInv DEF IInv
  <2> QED
    BY <2>1, <2>3, <2>4
<1>5. CASE SaveRefreshed(r)
  <2>1. /\ pc[r] = "checked" /\ req[r].op = "refresh"
        /\ \/ /\ Assign(r, Refreshed(r))
              /\ Continue(r, Refreshed(r), "saved")
              /\ \E n : req' = [req EXCEPT ![r].newRefresh = n]
           \/ Finish(r)
        /\ UNCHANGED <<tokens, delivered>>
    BY <1>5 DEF SaveGrant, SaveRefreshed
  <2>2. /\ Refreshed(r) \in Grant /\ Refreshed(r).kind = grants[req[r].gid].kind
        /\ Refreshed(r).kind \in CodeKinds => Spent(Refreshed(r))
    BY <2>1, RefreshedGrant
  <2>3. CASE /\ Assign(r, Refreshed(r))
             /\ Continue(r, Refreshed(r), "saved")
             /\ \E n : req' = [req EXCEPT ![r].newRefresh = n]
    <3>1. grants'[req[r].gid] = Refreshed(r)
      BY <2>3 DEF Assign, TypeOK
    <3>2. /\ req'[r].gid = req[r].gid /\ req'[r].op = req[r].op
          /\ \A s \in Requests \ {r} : req'[s] = req[s]
      BY <2>3 DEF TypeOK, Request
    <3>3. (RequestInv(r) /\ WriterInv(r))'
      BY <2>1, <2>2, <2>3, <3>1, <3>2, ContinueInv
    <3>4. \A s \in Requests \ {r} :
            pc'[s] = pc[s] /\ req'[s] = req[s] /\ loaded'[s] = loaded[s]
      BY <2>3, <3>2, ContinueFrame
    <3> QED
      BY <1>1, <1>2, <1>3, <2>1, <3>3, <3>4 DEF IInv
  <2>4. CASE Finish(r)
    BY <1>1, <1>2, <1>3, <2>1, <2>4, FinishedRequest DEF IInv
  <2> QED
    BY <2>1, <2>3, <2>4
<1>6. CASE \E format \in Formats : IssueAndRespond(r, format)
  <2>1. PICK format \in Formats : IssueAndRespond(r, format)
    BY <1>6
  <2>2. /\ pc[r] = "saved"
        /\ UNCHANGED grants
        /\ \/ \E sent \in BOOLEAN : Issue(req[r].gid, View(r), format, Via(r), sent)
           \/ UNCHANGED tokens
        /\ Finish(r) \/ Fail(r, View(r))
        /\ Deliver(req[r].gid, ResponseRefreshToken(r)) \/ UNCHANGED delivered
    BY <2>1 DEF IssueAndRespond
  <2>3. /\ Exists(req[r].gid)
        /\ req[r].op = "redeem" => grants[req[r].gid].kind \in CodeKinds
        /\ grants[req[r].gid].kind \in CodeKinds => Spent(grants[req[r].gid])
    BY <2>2 DEF IInv, RequestInv, WriterInv
  <2>4. /\ (RequestInv(r) /\ WriterInv(r))'
        /\ \A s \in Requests \ {r} :
             pc'[s] = pc[s] /\ req'[s] = req[s] /\ loaded'[s] = loaded[s]
    BY <2>2, ViewKind, FailInv, FinishedRequest
  <2>5. DeliveredInv'
    <3>1. \A d \in delivered' : d \in delivered \/ d[1] = req[r].gid
      BY <2>2 DEF Deliver
    <3>2. /\ grants'[req[r].gid].kind # "none"
          /\ grants'[req[r].gid].kind \in CodeKinds => Spent(grants'[req[r].gid])
      BY <2>2, <2>3 DEF Exists
    <3> QED
      BY <3>1, <3>2, DeliveredStep DEF Exists
  <2>6. TokensInv'
    <3>1. \A i \in DOMAIN tokens' :
            \/ i \in DOMAIN tokens /\ tokens'[i] = tokens[i]
            \/ tokens'[i].gid = req[r].gid /\ tokens'[i].via = Via(r)
      BY <2>2, IssuedTokens
    <3>2. /\ grants'[req[r].gid].kind # "none"
          /\ Via(r) = "code" => Spent(grants'[req[r].gid])
      BY <2>2, <2>3 DEF Via, Exists
    <3> QED
      BY <3>1, <3>2, TokensStep DEF Exists
  <2> QED
    BY <1>1, <2>4, <2>5, <2>6 DEF IInv
<1>7. CASE RevokeGrant(r) \/ Crash(r)
  <2>1. Finish(r) /\ UNCHANGED <<tokens, delivered>>
    BY <1>7 DEF SaveGrant, RevokeGrant, Crash
  <2> QED
    BY <1>1, <1>2, <1>3, <2>1, FinishedRequest DEF IInv
<1> QED
  BY <1>4, <1>5, <1>6, <1>7 DEF Proceed

\* A request arrives.
LEMMA ArriveInv ==
  ASSUME IInv, TypeOK', KeepsGrants, Redeem \/ Refresh \/ Revoke
  PROVE  IInv'
<1> TypeOK
  BY DEF IInv
<1>1. ASSUME NEW r \in Requests, (RequestInv(r) /\ WriterInv(r))',
             \A s \in Requests \ {r} :
               pc'[s] = pc[s] /\ req'[s] = req[s] /\ loaded'[s] = loaded[s]
      PROVE  \A s \in Requests : (RequestInv(s) /\ WriterInv(s))'
  BY <1>1, OtherRequests
<1>2. UNCHANGED delivered => DeliveredInv'
  BY DeliveredStep, ConstantsAssumption
<1>3. UNCHANGED tokens => TokensInv'
  BY TokensStep
<1>4. CASE Redeem
  <2>1. PICK r \in Requests, c \in Clients \cup {NoClient}, g \in GrantIDs,
             k \in Keys \cup {NoKey}, ok \in BOOLEAN : BeginRedeem(r, c, g, k, ok)
    BY <1>4 DEF Redeem
  <2>2. /\ grants[g].kind \in CodeKinds
        /\ \E where \in {"checked", "revoking"} : Begin(r, "redeem", c, g, k, where)
        /\ UNCHANGED <<grants, tokens, delivered>>
    BY <2>1 DEF BeginRedeem
  <2>3. Exists(g)
    BY <2>2 DEF Exists, CodeKinds
  <2> QED
    BY <1>1, <1>2, <1>3, <2>2, <2>3, BeginInv DEF IInv
<1>5. CASE Refresh
  <2>1. PICK r \in Requests, c \in Clients, g \in GrantIDs, k \in Keys \cup {NoKey} :
          BeginRefresh(r, c, g, k)
    BY <1>5 DEF Refresh
  <2>2. /\ <<g, grants[g].refreshToken>> \in delivered
        /\ Begin(r, "refresh", c, g, k, "checked")
        /\ UNCHANGED <<grants, tokens, delivered>>
    BY <2>1 DEF BeginRefresh
  <2>3. Exists(g) /\ (grants[g].kind \in CodeKinds => Spent(grants[g]))
    BY <2>2 DEF IInv, DeliveredInv
  <2> QED
    BY <1>1, <1>2, <1>3, <2>2, <2>3, BeginInv DEF IInv
<1>6. CASE Revoke
  <2>1. PICK r \in Requests, c \in Clients :
          \/ \E g \in GrantIDs : RevokeRefreshToken(r, c, g)
          \/ \E i \in DOMAIN tokens : RevokeJWT(r, c, i) \/ RevokeOpaque(r, c, i)
    BY <1>6 DEF Revoke
  <2>2. ASSUME NEW g \in GrantIDs, RevokeRefreshToken(r, c, g)
        PROVE  IInv'
    <3>1. /\ <<g, grants[g].refreshToken>> \in delivered
          /\ Begin(r, "revoke", c, g, NoKey, "revoking")
          /\ UNCHANGED <<grants, tokens, delivered>>
      BY <2>2 DEF RevokeRefreshToken
    <3>2. Exists(g)
      BY <3>1 DEF IInv, DeliveredInv
    <3> QED
      BY <1>1, <1>2, <1>3, <3>1, <3>2, BeginInv, FinishedRequest DEF IInv
  <2>3. ASSUME NEW i \in DOMAIN tokens, RevokeJWT(r, c, i) \/ RevokeOpaque(r, c, i)
        PROVE  IInv'
    <3>1. tokens[i] \in Token /\ tokens[i].gid \in GrantIDs
      <4>1. tokens[i] \in Token
        BY DEF TypeOK
      <4> QED
        BY <4>1 DEF Token
    <3>2. /\ \/ Begin(r, "revoke", c, tokens[i].gid, NoKey, "revoking")
             \/ Finish(r)
          /\ UNCHANGED <<grants, delivered>>
          /\ UNCHANGED tokens \/ tokens' = [tokens EXCEPT ![i].revoked = TRUE]
      BY <2>3 DEF RevokeJWT, RevokeOpaque
    <3>3. Exists(tokens[i].gid)
      BY <2>3 DEF IInv, TokensInv
    <3>4. TokensInv'
      <4>1. CASE tokens' = [tokens EXCEPT ![i].revoked = TRUE]
        <5>1. DOMAIN tokens' = DOMAIN tokens
          BY <4>1
        <5>2. \A j \in DOMAIN tokens :
                tokens'[j].gid = tokens[j].gid /\ tokens'[j].via = tokens[j].via
          <6>1. \A j \in DOMAIN tokens : tokens[j] \in Token
            BY DEF TypeOK
          <6>2. \A j \in DOMAIN tokens :
                  tokens'[j] = IF j = i THEN [tokens[i] EXCEPT !.revoked = TRUE] ELSE tokens[j]
            BY <4>1
          <6> QED
            BY <6>1, <6>2 DEF Token
        <5> QED
          BY <5>1, <5>2, TokensStep
      <4> QED
        BY <1>3, <3>2, <4>1
    <3>5. CASE Begin(r, "revoke", c, tokens[i].gid, NoKey, "revoking")
      BY <1>1, <1>2, <3>1, <3>2, <3>3, <3>4, <3>5, BeginInv DEF IInv
    <3>6. CASE Finish(r)
      BY <1>1, <1>2, <3>2, <3>4, <3>6, FinishedRequest DEF IInv
    <3> QED
      BY <3>2, <3>5, <3>6
  <2> QED
    BY <2>1, <2>2, <2>3
<1> QED
  BY <1>4, <1>5, <1>6

-----------------------------------------------------------------------------
\* The invariant holds initially.
LEMMA IInvInit == Init => IInv
<1> SUFFICES ASSUME Init PROVE IInv
  OBVIOUS
<1>1. TypeOK
  BY NoRequestType, ConstantsAssumption DEF Init, TypeOK
<1>2. \A r \in Requests : RequestInv(r) /\ WriterInv(r)
  BY DEF Init, RequestInv, WriterInv
<1>3. DeliveredInv /\ TokensInv
  BY DEF Init, DeliveredInv, TokensInv
<1> QED
  BY <1>1, <1>2, <1>3 DEF IInv

\* Every step keeps the invariant.
LEMMA IInvStep ==
  ASSUME IInv, [Next]_vars
  PROVE  IInv'
<1>1. TypeOK' /\ KeepsGrants
  BY TypeStep, StepKeepsGrants DEF IInv
<1>2. CASE UNCHANGED <<grants, tokens, lastRefresh, delivered, pc, req, loaded>>
  <2>1. \A s \in Requests : (RequestInv(s) /\ WriterInv(s))'
    BY <1>1, <1>2, OtherRequests
  <2>2. TokensInv' /\ DeliveredInv'
    BY <1>1, <1>2, TokensStep, DeliveredStep, ConstantsAssumption
  <2> QED
    BY <1>1, <2>1, <2>2 DEF IInv
<1>3. CASE Create
  BY <1>1, <1>3, CreateInv
<1>4. CASE \E r \in Requests : Proceed(r) \/ Crash(r)
  BY <1>1, <1>4, ProceedInv
<1>5. CASE Redeem \/ Refresh \/ Revoke
  BY <1>1, <1>5, ArriveInv
<1>6. Tick \/ UNCHANGED vars => UNCHANGED <<grants, tokens, lastRefresh, delivered, pc, req, loaded>>
  BY DEF Tick, vars
<1> QED
  BY <1>2, <1>3, <1>4, <1>5, <1>6 DEF Next

\* The invariant is an invariant.
LEMMA Inductive == Spec => []IInv
<1>1. Init => IInv
  BY IInvInit
<1>2. IInv /\ [Next]_vars => IInv'
  BY IInvStep
<1> QED
  BY <1>1, <1>2, PTL DEF Spec

\* Consumption is persisted before issuance: whatever the interleaving, the
\* failures and the manager, a token obtained with a code exists only under a
\* grant whose code storage already knows to be spent.
THEOREM IssuanceSafe == Spec => []IssuedImpliesSpent
<1>1. IInv => IssuedImpliesSpent
  BY DEF IInv, TokensInv, IssuedImpliesSpent
<1> QED
  BY <1>1, Inductive, PTL

\* A spent code stays spent, although handlers overwrite whole grants with
\* copies they loaded before somebody else consumed or revoked them.
THEOREM CodesStaySpent == Spec => SpentForever
<1>1. IInv /\ [Next]_vars => [\A g \in GrantIDs : Spent(grants[g]) => Spent(grants'[g])]_vars
  BY StepKeepsGrants DEF KeepsGrants
<1> QED
  BY <1>1, Inductive, PTL DEF Spec, SpentForever

-----------------------------------------------------------------------------
(* With records shared by the goroutines, what ended stays ended.          *)

\* The handlers change the fields of the one stored object, so none of them
\* takes back a revocation.
LEMMA StepKeepsRevoked ==
  ASSUME IInv, SharedRecords, [Next]_vars,
         NEW g \in GrantIDs, Exists(g), grants[g].revoked
  PROVE  grants'[g].revoked
<1>1. CASE UNCHANGED grants
  BY <1>1
<1>2. CASE Create
  <2>0. PICK h \in GrantIDs : \E grant : NewGrant(h, grant)
    BY <1>2, CreateStores
  <2>1. PICK grant : NewGrant(h, grant)
    BY <2>0
  <2> QED
    BY <2>1 DEF NewGrant, IInv, TypeOK
<1>3. ASSUME NEW r \in Requests, Proceed(r)
      PROVE  grants'[g].revoked
  <2> TypeOK /\ View(r) \in Grant /\ req[r].gid \in GrantIDs
    BY ViewType DEF IInv, TypeOK, Request
  <2>1. ASSUME NEW grant, Assign(r, grant), View(r).revoked => grant.revoked
        PROVE  grants'[g].revoked
    BY <2>1 DEF Assign, TypeOK, View
  <2>2. CASE Consume(r)
    <3> DEFINE grant == [View(r) EXCEPT !.consumed = TRUE, !.jkt = req[r].key]
    <3>1. Assign(r, grant) \/ UNCHANGED grants
      BY <2>2 DEF SaveGrant, Consume, SaveGrantFails
    <3>2. View(r).revoked => grant.revoked
      BY DEF Grant
    <3> HIDE DEF grant
    <3> QED
      BY <1>1, <2>1, <3>1, <3>2
  <2>3. CASE SaveRefreshed(r)
    <3>1. /\ pc[r] = "checked" /\ req[r].op = "refresh"
          /\ Assign(r, Refreshed(r)) \/ UNCHANGED grants
      BY <2>3 DEF SaveGrant, SaveRefreshed
    <3> QED
      BY <1>1, <2>1, <3>1, RefreshedGrant
  <2>4. CASE RevokeGrant(r)
    <3> DEFINE grant == [View(r) EXCEPT !.revoked = TRUE]
    <3>1. Assign(r, grant) \/ UNCHANGED grants
      BY <2>4 DEF SaveGrant, RevokeGrant, SaveGrantFails
    <3>2. grant.revoked
      BY DEF Grant
    <3> HIDE DEF grant
    <3> QED
      BY <1>1, <2>1, <3>1, <3>2
  <2>5. CASE \E format \in Formats : IssueAndRespond(r, format)
    BY <1>1, <2>5 DEF IssueAndRespond
  <2> QED
    BY <1>3, <2>2, <2>3, <2>4, <2>5 DEF Proceed
<1>4. Tick \/ Redeem \/ Refresh \/ Revoke \/ UNCHANGED vars \/ (\E r \in Requests : Crash(r))
        => UNCHANGED grants
  BY DEF Tick, Redeem, BeginRedeem, Refresh, BeginRefresh, Revoke, Crash,
     RevokeRefreshToken, RevokeJWT, RevokeOpaque, vars
<1> QED
  BY <1>1, <1>2, <1>3, <1>4 DEF Next

\* A token keeps its grant, its format and its expiry, and its revocation.
TokensKept ==
  \A i \in DOMAIN tokens :
    /\ i \in DOMAIN tokens'
    /\ tokens'[i].gid = tokens[i].gid
    /\ tokens'[i].format = tokens[i].format
    /\ tokens'[i].expiresAt = tokens[i].expiresAt
    /\ tokens[i].revoked => tokens'[i].revoked

\* No step changes a token but to revoke it.
LEMMA StepKeepsTokens ==
  ASSUME TypeOK, [Next]_vars
  PROVE  TokensKept
<1>1. CASE UNCHANGED tokens
  BY <1>1 DEF TokensKept
<1>2. ASSUME NEW t, tokens' = Append(tokens, t)
      PROVE  TokensKept
  <2>1. tokens \in Seq(Token)
    BY DEF TypeOK
  <2>2. \A i \in DOMAIN tokens : i \in DOMAIN tokens' /\ tokens'[i] = tokens[i]
    BY <1>2, <2>1
  <2> QED
    BY <2>2 DEF TokensKept
<1>3. ASSUME NEW i \in DOMAIN tokens, tokens' = [tokens EXCEPT ![i].revoked = TRUE]
      PROVE  TokensKept
  <2>1. \A j \in DOMAIN tokens : tokens[j] \in Token
    BY DEF TypeOK
  <2>2. DOMAIN tokens' = DOMAIN tokens
    BY <1>3
  <2>3. \A j \in DOMAIN tokens :
          tokens'[j] = IF j = i THEN [tokens[i] EXCEPT !.revoked = TRUE] ELSE tokens[j]
    BY <1>3
  <2> QED
    BY <2>1, <2>2, <2>3 DEF TokensKept, Token
<1>4. CASE Create
  <2>1. ASSUME NEW g, NEW kind, NEW c, NEW code, NEW k, NEW front,
               CreateCodeGrant(g, kind, c, code, k, front)
        PROVE  UNCHANGED tokens \/ \E t : tokens' = Append(tokens, t)
    BY <2>1, Zenon DEF CreateCodeGrant, Issue
  <2>2. ASSUME NEW g, NEW kind, NEW c, NEW k, NEW format, NEW issued,
               DirectGrant(g, kind, c, k, format, issued)
        PROVE  UNCHANGED tokens \/ \E t : tokens' = Append(tokens, t)
    BY <2>2, Zenon DEF DirectGrant, Issue
  <2>3. UNCHANGED tokens \/ \E t : tokens' = Append(tokens, t)
    BY <1>4, <2>1, <2>2, Zenon DEF Create
  <2> QED
    BY <1>1, <1>2, <2>3
<1>5. CASE Revoke
  <2>1. UNCHANGED tokens \/ \E i \in DOMAIN tokens : tokens' = [tokens EXCEPT ![i].revoked = TRUE]
    BY <1>5, Zenon DEF Revoke, RevokeRefreshToken, RevokeJWT, RevokeOpaque
  <2> QED
    BY <1>1, <1>3, <2>1
<1>6. ASSUME NEW r \in Requests, Proceed(r) \/ Crash(r)
      PROVE  TokensKept
  <2>1. CASE \E format \in Formats : IssueAndRespond(r, format)
    <3>1. UNCHANGED tokens \/ \E t : tokens' = Append(tokens, t)
      BY <2>1, Zenon DEF IssueAndRespond, Issue
    <3> QED
      BY <1>1, <1>2, <3>1
  <2> QED
    BY <1>1, <1>6, <2>1 DEF SaveGrant, Proceed, Consume, SaveRefreshed, RevokeGrant, Crash
<1> QED
  BY <1>1, <1>4, <1>5, <1>6 DEF Next, Tick, Redeem, BeginRedeem, Refresh, BeginRefresh, vars

\* Time does not run backwards.
LEMMA StepKeepsTime ==
  ASSUME TypeOK, [Next]_vars
  PROVE  now' \in Nat /\ now <= now'
<1>1. TypeOK' /\ now \in Nat
  BY TypeStep DEF TypeOK
<1>2. UNCHANGED now \/ now' = now + 1
  <2>1. Create => UNCHANGED now
    <3>1. ASSUME NEW g, NEW kind, NEW c, NEW code, NEW k, NEW front,
                 CreateCodeGrant(g, kind, c, code, k, front)
          PROVE  UNCHANGED now
      BY <3>1, Zenon DEF CreateCodeGrant
    <3>2. ASSUME NEW g, NEW kind, NEW c, NEW k, NEW format, NEW issued,
                 DirectGrant(g, kind, c, k, format, issued)
          PROVE  UNCHANGED now
      BY <3>2, Zenon DEF DirectGrant
    <3> QED
      BY <3>1, <3>2, Zenon DEF Create
  <2>2. ~Create => UNCHANGED now \/ now' = now + 1
    BY DEF Next, Tick, Redeem, BeginRedeem, Refresh, BeginRefresh, Revoke,
       RevokeRefreshToken, RevokeJWT, RevokeOpaque, Proceed, Consume, SaveRefreshed,
       IssueAndRespond, RevokeGrant, Crash, vars
  <2> QED
    BY <2>1, <2>2
<1> QED
  BY <1>1, <1>2 DEF TypeOK

\* With the manager that returns the stored grants themselves, a token that
\* expired, or that was revoked by itself or with its grant, is never active
\* again, though a grant may be evicted and brought back by a late save.
THEOREM EndedStaysEnded ==
  ASSUME SharedRecords
  PROVE  Spec => EndedForever
<1>1. IInv /\ [Next]_vars
        => [\A i \in DOMAIN tokens : Ended(tokens[i]) => ~Active(tokens[i])']_vars
  <2> SUFFICES ASSUME IInv, [Next]_vars, NEW i \in DOMAIN tokens, Ended(tokens[i])
               PROVE  ~Active(tokens[i])'
    OBVIOUS
  <2>1. /\ tokens'[i].gid = tokens[i].gid
        /\ tokens'[i].format = tokens[i].format
        /\ tokens'[i].expiresAt = tokens[i].expiresAt
        /\ tokens[i].revoked => tokens'[i].revoked
    BY StepKeepsTokens DEF IInv, TokensKept
  <2>2. tokens[i].gid \in GrantIDs /\ tokens[i].expiresAt \in Nat
    <3>1. tokens[i] \in Token
      BY DEF IInv, TypeOK
    <3> QED
      BY <3>1 DEF Token
  <2>3. grants[tokens[i].gid].revoked => grants'[tokens[i].gid].revoked
    BY <2>2, StepKeepsRevoked DEF IInv, TokensInv
  <2>4. now \in Nat /\ now' \in Nat /\ now <= now'
    BY StepKeepsTime DEF IInv, TypeOK
  <2>5. Expired(tokens[i]) => Expired(tokens[i])'
    BY <2>1, <2>2, <2>4 DEF Expired
  <2> QED
    BY <2>1, <2>3, <2>5 DEF Ended, Active
<1> QED
  BY <1>1, Inductive, PTL DEF Spec, EndedForever


-----------------------------------------------------------------------------
(* TokenEndpoint implements CodeLifecycle.                                 *)

\* A step that leaves tokens issued for codes alone and writes one grant is a
\* creation, a spending or no step of the code's life.
LEMMA GrantStepRefines ==
  ASSUME IInv, IInv', KeepsGrants, NEW g \in GrantIDs, NEW grant,
         grants' = [grants EXCEPT ![g] = grant],
         \A h \in GrantIDs : CodeTokens(h)' = CodeTokens(h)
  PROVE  [Lifecycle!Next]_(Lifecycle!vars)
<1> DEFINE life == [h \in GrantIDs |-> Life(grants[h])]
           issued == [h \in GrantIDs |-> Cardinality(CodeTokens(h))]
<1>1. issued' = issued
  OBVIOUS
<1>2. life' = [life EXCEPT ![g] = Life(grants'[g])]
  BY DEF IInv, TypeOK
<1>3. \/ Life(grants'[g]) = life[g]
      \/ life[g] = "none" /\ Life(grants'[g]) \in {"live", "spent"}
      \/ life[g] = "live" /\ Life(grants'[g]) = "spent"
  <2>1. Exists(g) => /\ grants'[g].kind = grants[g].kind
                     /\ Spent(grants[g]) => Spent(grants'[g])
    BY DEF KeepsGrants
  <2>2. ~Exists(g) => Life(grants[g]) = "none"
    BY DEF Exists, Life, CodeKinds
  <2>3. Life(grants'[g]) \in {"none", "live", "spent"}
    BY DEF Life
  <2> QED
    BY <2>1, <2>2, <2>3 DEF Life
<1> HIDE DEF life, issued
<1>4. CASE Life(grants'[g]) = life[g]
  <2>1. life' = life
    BY <1>2, <1>4 DEF life
  <2> QED
    BY <1>1, <2>1 DEF Lifecycle!vars, life, issued
<1>5. CASE life[g] = "none" /\ Life(grants'[g]) \in {"live", "spent"}
  <2>1. Lifecycle!Create(g)
    BY <1>1, <1>2, <1>5 DEF Lifecycle!Create, life, issued
  <2> QED
    BY <2>1 DEF Lifecycle!Next
<1>6. CASE life[g] = "live" /\ Life(grants'[g]) = "spent"
  <2>1. Lifecycle!Spend(g)
    BY <1>1, <1>2, <1>6 DEF Lifecycle!Spend, life, issued
  <2> QED
    BY <2>1 DEF Lifecycle!Next
<1> QED
  BY <1>3, <1>4, <1>5, <1>6

\* Issue adds the index of its token to the tokens of its grant, if a code is
\* exchanged for it, and changes no others.
LEMMA IssueCodeTokens ==
  ASSUME TypeOK, NEW g \in GrantIDs, NEW grant, NEW format, NEW via, NEW sent,
         Issue(g, grant, format, via, sent)
  PROVE  \A h \in GrantIDs :
           CodeTokens(h)' = IF h = g /\ via = "code"
                            THEN CodeTokens(h) \cup {Len(tokens) + 1} ELSE CodeTokens(h)
<1> DEFINE t == [gid |-> g, client |-> grant.client, format |-> format,
                 jkt |-> grant.jkt, expiresAt |-> now + TokenLifetime,
                 revoked |-> FALSE, via |-> via, sent |-> sent]
<1>1. t.gid = g /\ t.via = via
  OBVIOUS
<1>2. tokens' = Append(tokens, t)
  BY DEF Issue
<1> HIDE DEF t
<1>3. tokens \in Seq(Token) /\ Len(tokens) \in Nat /\ DOMAIN tokens = 1 .. Len(tokens)
  BY DEF TypeOK
<1>4. /\ DOMAIN tokens' = 1 .. Len(tokens) + 1
      /\ \A i \in DOMAIN tokens : tokens'[i] = tokens[i]
      /\ tokens'[Len(tokens) + 1] = t
  BY <1>2, <1>3
<1>5. DOMAIN tokens' = DOMAIN tokens \cup {Len(tokens) + 1}
  BY <1>3, <1>4
<1> QED
  BY <1>1, <1>4, <1>5 DEF CodeTokens

\* A step that issues a token for a code whose grant is spent.
LEMMA IssueStepRefines ==
  ASSUME IInv, NEW g \in GrantIDs, NEW grant, NEW format, NEW via, NEW sent,
         Issue(g, grant, format, via, sent), UNCHANGED grants,
         via = "code" => Spent(grants[g])
  PROVE  [Lifecycle!Next]_(Lifecycle!vars)
<1> DEFINE life == [h \in GrantIDs |-> Life(grants[h])]
           issued == [h \in GrantIDs |-> Cardinality(CodeTokens(h))]
<1>1. life' = life
  OBVIOUS
<1>2. CASE via = "code"
  <2>1. \A h \in GrantIDs :
          CodeTokens(h)' = IF h = g THEN CodeTokens(h) \cup {Len(tokens) + 1} ELSE CodeTokens(h)
    BY <1>2, IssueCodeTokens DEF IInv
  <2>2. Cardinality(CodeTokens(g) \cup {Len(tokens) + 1}) = Cardinality(CodeTokens(g)) + 1
    <3>1. Len(tokens) \in Nat /\ CodeTokens(g) \subseteq 1 .. Len(tokens)
      BY DEF IInv, TypeOK, CodeTokens
    <3>2. IsFiniteSet(1 .. Len(tokens))
      BY <3>1, FS_Interval
    <3>3. IsFiniteSet(CodeTokens(g)) /\ Len(tokens) + 1 \notin CodeTokens(g)
      BY <3>1, <3>2, FS_Subset
    <3> QED
      BY <3>3, FS_AddElement
  <2>3. issued' = [issued EXCEPT ![g] = @ + 1]
    BY <2>1, <2>2
  <2>4. life[g] = "spent"
    BY <1>2 DEF Life, Spent
  <2>5. Lifecycle!IssueToken(g)
    BY <1>1, <2>3, <2>4 DEF Lifecycle!IssueToken
  <2> QED
    BY <2>5 DEF Lifecycle!Next
<1>3. CASE via # "code"
  <2>1. issued' = issued
    BY <1>3, IssueCodeTokens DEF IInv
  <2> QED
    BY <1>1, <2>1 DEF Lifecycle!vars
<1> QED
  BY <1>2, <1>3

\* Every step of the token endpoint is a step of the code's life, or none.
LEMMA StepRefines ==
  ASSUME IInv, IInv', [Next]_vars
  PROVE  [Lifecycle!Next]_(Lifecycle!vars)
<1>0. KeepsGrants /\ TypeOK
  BY StepKeepsGrants DEF IInv
<1>1. ASSUME UNCHANGED grants, UNCHANGED tokens
      PROVE  [Lifecycle!Next]_(Lifecycle!vars)
  BY <1>1 DEF Lifecycle!vars, CodeTokens
<1>2. UNCHANGED tokens => \A h \in GrantIDs : CodeTokens(h)' = CodeTokens(h)
  BY DEF CodeTokens
<1>3. ASSUME NEW r \in Requests, NEW grant, Assign(r, grant), UNCHANGED tokens
      PROVE  [Lifecycle!Next]_(Lifecycle!vars)
  BY <1>0, <1>2, <1>3, GrantStepRefines DEF Assign, IInv, TypeOK, Request
<1>4. CASE Create
  <2>1. ASSUME NEW g \in GrantIDs, NEW grant, NewGrant(g, grant),
               \/ UNCHANGED tokens
               \/ \E format \in Formats : Issue(g, grant, format, "direct", TRUE)
        PROVE  [Lifecycle!Next]_(Lifecycle!vars)
    <3>1. ASSUME NEW format \in Formats, Issue(g, grant, format, "direct", TRUE)
          PROVE  \A h \in GrantIDs : CodeTokens(h)' = CodeTokens(h)
      <4> DEFINE via == "direct"
                 sent == TRUE
      <4>1. Issue(g, grant, format, via, sent) /\ via # "code"
        BY <3>1
      <4> HIDE DEF via, sent
      <4> QED
        BY <1>0, <4>1, IssueCodeTokens
    <3>2. \A h \in GrantIDs : CodeTokens(h)' = CodeTokens(h)
      BY <1>2, <2>1, <3>1
    <3> QED
      BY <1>0, <2>1, <3>2, GrantStepRefines DEF NewGrant
  <2>2. ASSUME NEW g \in GrantIDs, NEW kind, NEW c, NEW code, NEW k, NEW front,
               CreateCodeGrant(g, kind, c, code, k, front)
        PROVE  [Lifecycle!Next]_(Lifecycle!vars)
    <3>1. \E grant : /\ NewGrant(g, grant)
                     /\ \/ UNCHANGED tokens
                        \/ \E format \in Formats : Issue(g, grant, format, "direct", TRUE)
      BY <2>2, Zenon DEF CreateCodeGrant
    <3> QED
      BY <2>1, <3>1
  <2>3. ASSUME NEW g \in GrantIDs, NEW kind, NEW c, NEW k, NEW format \in Formats, NEW made,
               DirectGrant(g, kind, c, k, format, made)
        PROVE  [Lifecycle!Next]_(Lifecycle!vars)
    <3>1. \E grant : /\ NewGrant(g, grant)
                     /\ \/ UNCHANGED tokens
                        \/ \E f \in Formats : Issue(g, grant, f, "direct", TRUE)
      BY <2>3, Zenon DEF DirectGrant
    <3> QED
      BY <2>1, <3>1
  <2> QED
    BY <1>4, <2>2, <2>3, Zenon DEF Create
<1>5. CASE \E r \in Requests : Proceed(r) \/ Crash(r)
  <2>1. PICK r \in Requests : Proceed(r) \/ Crash(r)
    BY <1>5
  <2>2. CASE Consume(r) \/ SaveRefreshed(r) \/ RevokeGrant(r)
    <3>1. UNCHANGED tokens /\ (UNCHANGED grants \/ \E grant : Assign(r, grant))
      BY <2>2, Zenon DEF SaveGrant, Consume, SaveRefreshed, RevokeGrant, SaveGrantFails
    <3> QED
      BY <1>1, <1>3, <3>1
  <2>3. CASE \E format \in Formats : IssueAndRespond(r, format)
    <3>1. PICK format \in Formats : IssueAndRespond(r, format)
      BY <2>3
    <3>2. /\ pc[r] = "saved" /\ UNCHANGED grants
          /\ \/ UNCHANGED tokens
             \/ \E sent \in BOOLEAN : Issue(req[r].gid, View(r), format, Via(r), sent)
      BY <3>1, Zenon DEF IssueAndRespond
    <3>3. req[r].gid \in GrantIDs
      BY <1>0 DEF TypeOK, Request
    <3>4. Via(r) = "code" => Spent(grants[req[r].gid])
      BY <3>2 DEF Via, IInv, RequestInv, WriterInv
    <3> QED
      BY <1>1, <3>2, <3>3, <3>4, IssueStepRefines
  <2>4. CASE Crash(r)
    BY <1>1, <2>4 DEF Crash
  <2> QED
    BY <2>1, <2>2, <2>3, <2>4 DEF Proceed
<1>6. CASE Revoke
  <2>1. UNCHANGED grants
    BY <1>6 DEF Revoke, RevokeRefreshToken, RevokeJWT, RevokeOpaque
  <2>2. /\ DOMAIN tokens' = DOMAIN tokens
        /\ \A i \in DOMAIN tokens :
             tokens'[i].gid = tokens[i].gid /\ tokens'[i].via = tokens[i].via
    <3>1. UNCHANGED tokens \/ \E i \in DOMAIN tokens : tokens' = [tokens EXCEPT ![i].revoked = TRUE]
      BY <1>6, Zenon DEF Revoke, RevokeRefreshToken, RevokeJWT, RevokeOpaque
    <3>2. \A j \in DOMAIN tokens : tokens[j] \in Token
      BY <1>0 DEF TypeOK
    <3>3. ASSUME NEW i \in DOMAIN tokens, tokens' = [tokens EXCEPT ![i].revoked = TRUE]
          PROVE  /\ DOMAIN tokens' = DOMAIN tokens
                 /\ \A j \in DOMAIN tokens :
                      tokens'[j].gid = tokens[j].gid /\ tokens'[j].via = tokens[j].via
      BY <3>2, <3>3 DEF Token
    <3> QED
      BY <3>1, <3>3
  <2>3. \A h \in GrantIDs : CodeTokens(h)' = CodeTokens(h)
    BY <2>2 DEF CodeTokens
  <2> QED
    BY <2>1, <2>3 DEF Lifecycle!vars
<1>7. CASE Tick \/ Redeem \/ Refresh \/ UNCHANGED vars
  BY <1>1, <1>7 DEF Tick, Redeem, BeginRedeem, Refresh, BeginRefresh, vars
<1> QED
  BY <1>4, <1>5, <1>6, <1>7 DEF Next

\* The token endpoint implements the abstract life of a code, for any number
\* of concurrent requests and either kind of grant manager.
THEOREM Implements == Spec => ImplementsLifecycle
<1>1. Init => Lifecycle!Init
  <2> SUFFICES ASSUME Init PROVE Lifecycle!Init
    OBVIOUS
  <2>1. \A g \in GrantIDs : Life(grants[g]) = "none" /\ CodeTokens(g) = {}
    BY DEF Init, NoGrant, Life, CodeKinds, CodeTokens
  <2>2. Cardinality({}) = 0
    BY FS_EmptySet
  <2> QED
    BY <2>1, <2>2 DEF Lifecycle!Init
<1>2. IInv /\ IInv' /\ [Next]_vars => [Lifecycle!Next]_(Lifecycle!vars)
  BY StepRefines
<1> QED
  BY <1>1, <1>2, Inductive, PTL DEF Spec, ImplementsLifecycle, Lifecycle!Spec

-----------------------------------------------------------------------------
(* The steps, seen from the goroutine that takes them.                     *)

\* The goroutines other than r do not move.
Others(r) ==
  \A s \in Requests \ {r} :
    pc'[s] = pc[s] /\ req'[s] = req[s] /\ loaded'[s] = loaded[s]

\* No token appears, and the tokens keep all but their own revocation.
TokensStay ==
  /\ DOMAIN tokens' = DOMAIN tokens
  /\ \A i \in DOMAIN tokens :
       /\ tokens'[i].gid = tokens[i].gid /\ tokens'[i].client = tokens[i].client
       /\ tokens'[i].jkt = tokens[i].jkt /\ tokens'[i].via = tokens[i].via
       /\ tokens'[i].sent = tokens[i].sent

\* A grant appears, at most with a token of its own.
Created(g) ==
  /\ ~Exists(g) /\ \A h \in GrantIDs \ {g} : grants'[h] = grants[h]
  /\ pc' = pc /\ req' = req /\ loaded' = loaded /\ delivered \subseteq delivered'
  /\ \A i \in DOMAIN tokens' :
       \/ i \in DOMAIN tokens /\ tokens'[i] = tokens[i]
       \/ tokens'[i].via = "direct"

\* A request arrived at r: it was answered at once, or r holds the grant.
Arrived(r) ==
  /\ pc[r] = "idle" /\ Others(r)
  /\ grants' = grants /\ delivered' = delivered /\ TokensStay
  /\ \/ pc'[r] = "idle"
     \/ /\ pc'[r] \in {"checked", "revoking"} /\ View(r)' = grants[req'[r].gid]
        /\ (pc'[r] = "checked" /\ req'[r].op = "redeem")
             => ~grants[req'[r].gid].consumed /\ ~grants[req'[r].gid].revoked
        /\ req'[r].op = "refresh" =>
             /\ <<req'[r].gid, grants[req'[r].gid].refreshToken>> \in delivered
             /\ RefreshBindingMatches(grants[req'[r].gid], grants[req'[r].gid].client,
                                      req'[r].key)

\* The handler gave up: it is over, or the redemption goes on to revoke.
GaveUp(r) ==
  /\ Failures
  /\ \/ pc'[r] = "idle" /\ (req[r].op # "redeem" \/ View(r).kind = "pre_auth")
     \/ pc'[r] = "revoking" /\ req[r].op = "redeem" /\ req'[r] = req[r]

\* r marked the code consumed, or failed to.
Consumed(r) ==
  /\ pc[r] = "checked" /\ req[r].op = "redeem" /\ Others(r)
  /\ tokens' = tokens /\ delivered' = delivered
  /\ \/ \E new \in Grant :
          /\ new = [View(r) EXCEPT !.consumed = TRUE, !.jkt = req[r].key]
          /\ grants' = [grants EXCEPT ![req[r].gid] = new] /\ View(r)' = new
          /\ pc'[r] = "saved" /\ req'[r] = req[r]
     \/ grants' = grants /\ ~SharedRecords /\ GaveUp(r)

\* r saved the refreshed grant, or failed to.
SavedRefreshed(r) ==
  /\ pc[r] = "checked" /\ req[r].op = "refresh" /\ Others(r)
  /\ tokens' = tokens /\ delivered' = delivered
  /\ \/ \E new \in Grant :
          /\ new = Refreshed(r)
          /\ grants' = [grants EXCEPT ![req[r].gid] = new] /\ View(r)' = new
          /\ pc'[r] = "saved"
          /\ req'[r].gid = req[r].gid /\ req'[r].op = "refresh"
          /\ req'[r].newRefresh = IF Rotation THEN lastRefresh + 1 ELSE 0
     \/ /\ Failures /\ pc'[r] = "idle"
        /\ grants' = grants \/ grants' = [grants EXCEPT ![req[r].gid] = Refreshed(r)]

\* r issued a token, and sent it or failed after it, or issued none.
Responded(r) ==
  /\ pc[r] = "saved" /\ Others(r) /\ grants' = grants
  /\ \/ \E t \in Token :
          /\ tokens' = Append(tokens, t)
          /\ t.gid = req[r].gid /\ t.client = View(r).client /\ t.jkt = View(r).jkt
          /\ t.via = Via(r)
          /\ \/ t.sent /\ pc'[r] = "idle" /\ Deliver(req[r].gid, ResponseRefreshToken(r))
             \/ /\ ~t.sent /\ View(r).kind # "pre_auth" /\ delivered' = delivered
                /\ GaveUp(r) /\ (pc'[r] # "idle" => View(r)' = View(r))
     \/ /\ tokens' = tokens /\ delivered' = delivered
        /\ GaveUp(r) /\ (pc'[r] # "idle" => View(r)' = View(r))

\* r saved the revocation, or failed to.
Revoked(r) ==
  /\ pc[r] = "revoking" /\ pc'[r] = "idle" /\ Others(r)
  /\ tokens' = tokens /\ delivered' = delivered
  /\ \/ grants' = [grants EXCEPT ![req[r].gid] = [View(r) EXCEPT !.revoked = TRUE]]
     \/ grants' = grants /\ Failures /\ ~SharedRecords

\* r died.
Crashed(r) ==
  /\ Failures /\ ~SharedRecords /\ pc'[r] = "idle" /\ Others(r)
  /\ tokens' = tokens /\ delivered' = delivered /\ grants' = grants

\* Nothing moves but the clock.
Waited ==
  /\ grants' = grants /\ tokens' = tokens /\ delivered' = delivered
  /\ pc' = pc /\ req' = req /\ loaded' = loaded

\* Ending a request moves nobody else.
LEMMA FinishMoves ==
  ASSUME TypeOK, NEW r \in Requests, Finish(r)
  PROVE  pc'[r] = "idle" /\ Others(r)
BY DEF TypeOK, Finish, Others

\* Going on moves nobody else, and the handler holds the grant it goes on with
\* (or the stored one, which is the same when it was saved).
LEMMA ContinueMoves ==
  ASSUME TypeOK, NEW r \in Requests, NEW grant, NEW where, Continue(r, grant, where),
         \A s \in Requests \ {r} : req'[s] = req[s],
         SharedRecords => grants'[req'[r].gid] = grant
  PROVE  pc'[r] = where /\ Others(r) /\ View(r)' = grant
<1>1. pc'[r] = where /\ (SharedRecords \/ loaded'[r] = grant)
  BY ConstantsAssumption DEF TypeOK, Continue
<1>2. Others(r)
  BY DEF TypeOK, Continue, Others
<1>3. View(r)' = grant
  BY <1>1 DEF View
<1> QED
  BY <1>1, <1>2, <1>3

\* A failing handler, whatever grant it gives up with.
LEMMA FailMoves ==
  ASSUME TypeOK, Failures, NEW r \in Requests, NEW grant, Fail(r, grant),
         SharedRecords => grants'[req[r].gid] = grant
  PROVE  GaveUp(r) /\ Others(r) /\ (pc'[r] # "idle" => View(r)' = grant)
<1>1. CASE RevokesOnError(r)
  <2>1. Continue(r, grant, "revoking") /\ req' = req
    BY <1>1 DEF Fail
  <2>2. pc'[r] = "revoking" /\ Others(r) /\ View(r)' = grant
    BY <2>1, ContinueMoves
  <2> QED
    BY <1>1, <2>1, <2>2 DEF GaveUp, RevokesOnError
<1>2. CASE ~RevokesOnError(r)
  <2>1. Finish(r)
    BY <1>2 DEF Fail
  <2> QED
    BY <1>2, <2>1, FinishMoves DEF GaveUp, RevokesOnError
<1> QED
  BY <1>1, <1>2

\* Beginning a request: the handler holds the stored grant.
LEMMA BeginMoves ==
  ASSUME TypeOK, NEW r \in Requests, NEW op, NEW c, NEW g \in GrantIDs, NEW k, NEW where,
         Begin(r, op, c, g, k, where), grants' = grants
  PROVE  /\ pc'[r] = where /\ req'[r].op = op /\ req'[r].gid = g /\ req'[r].key = k
         /\ Others(r) /\ View(r)' = grants[g]
<1>1. /\ pc'[r] = where /\ req'[r].op = op /\ req'[r].gid = g /\ req'[r].key = k
      /\ SharedRecords \/ loaded'[r] = grants[g]
  BY ConstantsAssumption DEF TypeOK, Begin
<1>2. Others(r)
  BY DEF TypeOK, Begin, Others
<1>3. View(r)' = grants[g]
  BY <1>1 DEF View
<1> QED
  BY <1>1, <1>2, <1>3

\* What Consume does.
LEMMA ConsumeMoves ==
  ASSUME IInv, NEW r \in Requests, Consume(r)
  PROVE  Consumed(r)
<1> PICK new : new = [View(r) EXCEPT !.consumed = TRUE, !.jkt = req[r].key]
  OBVIOUS
<1>1. /\ pc[r] = "checked" /\ req[r].op = "redeem" /\ tokens' = tokens /\ delivered' = delivered
      /\ \/ Assign(r, new) /\ Continue(r, new, "saved") /\ req' = req
         \/ SaveGrantFails /\ Fail(r, new)
  BY DEF SaveGrant, Consume
<1>2. TypeOK /\ new \in Grant /\ req[r].gid \in GrantIDs
  BY <1>1, ConsumedGrant DEF IInv, TypeOK, Request
<1>3. CASE Assign(r, new) /\ Continue(r, new, "saved") /\ req' = req
  <2>1. grants' = [grants EXCEPT ![req[r].gid] = new] /\ grants'[req'[r].gid] = new
    BY <1>2, <1>3 DEF Assign, TypeOK
  <2>2. pc'[r] = "saved" /\ Others(r) /\ View(r)' = new
    BY <1>2, <1>3, <2>1, ContinueMoves
  <2> QED
    BY <1>1, <1>2, <1>3, <2>1, <2>2 DEF Consumed
<1>4. CASE SaveGrantFails /\ Fail(r, new)
  <2>1. Failures /\ ~SharedRecords /\ grants' = grants
    BY <1>4 DEF SaveGrantFails
  <2>2. GaveUp(r) /\ Others(r)
    BY <1>2, <1>4, <2>1, FailMoves
  <2> QED
    BY <1>1, <2>1, <2>2 DEF Consumed
<1> QED
  BY <1>1, <1>3, <1>4

\* What SaveRefreshed does.
LEMMA SaveRefreshedMoves ==
  ASSUME IInv, NEW r \in Requests, SaveRefreshed(r)
  PROVE  SavedRefreshed(r)
<1> PICK new : new = Refreshed(r)
  OBVIOUS
<1> PICK n : n = IF Rotation THEN lastRefresh + 1 ELSE 0
  OBVIOUS
<1>1. /\ pc[r] = "checked" /\ req[r].op = "refresh" /\ tokens' = tokens /\ delivered' = delivered
      /\ \/ /\ Assign(r, new) /\ Continue(r, new, "saved")
            /\ req' = [req EXCEPT ![r].newRefresh = n]
         \/ /\ Failures /\ Finish(r)
            /\ IF SharedRecords THEN Assign(r, new) ELSE UNCHANGED grants
  BY DEF SaveGrant, SaveRefreshed
<1>2. TypeOK /\ new \in Grant /\ req[r].gid \in GrantIDs
  BY <1>1, RefreshedGrant DEF IInv, TypeOK, Request
<1>3. CASE /\ Assign(r, new) /\ Continue(r, new, "saved")
           /\ req' = [req EXCEPT ![r].newRefresh = n]
  <2>1. /\ req'[r].gid = req[r].gid /\ req'[r].op = "refresh" /\ req'[r].newRefresh = n
        /\ \A s \in Requests \ {r} : req'[s] = req[s]
    BY <1>1, <1>2, <1>3 DEF TypeOK, Request
  <2>2. grants' = [grants EXCEPT ![req[r].gid] = new] /\ grants'[req'[r].gid] = new
    BY <1>2, <1>3, <2>1 DEF Assign, TypeOK
  <2>3. pc'[r] = "saved" /\ Others(r) /\ View(r)' = new
    BY <1>2, <1>3, <2>1, <2>2, ContinueMoves
  <2> QED
    BY <1>1, <1>2, <2>1, <2>2, <2>3 DEF SavedRefreshed
<1>4. CASE /\ Failures /\ Finish(r)
           /\ IF SharedRecords THEN Assign(r, new) ELSE UNCHANGED grants
  BY <1>1, <1>2, <1>4, FinishMoves DEF SavedRefreshed, Assign
<1> QED
  BY <1>1, <1>3, <1>4

\* What IssueAndRespond does.
LEMMA RespondMoves ==
  ASSUME IInv, NEW r \in Requests, NEW format \in Formats, IssueAndRespond(r, format)
  PROVE  Responded(r)
<1> PICK v : v = View(r)
  OBVIOUS
<1> PICK via : via = Via(r)
  OBVIOUS
<1> PICK g : g = req[r].gid
  OBVIOUS
<1>1. TypeOK /\ g \in GrantIDs /\ v \in Grant /\ via \in {"code", "refresh", "direct"}
      /\ format \in {"jwt", "opaque"}
  BY ViewType, ConstantsAssumption DEF IInv, TypeOK, Request, Via
<1>2. /\ pc[r] = "saved" /\ grants' = grants
      /\ \/ Issue(g, v, format, via, TRUE) /\ Deliver(g, ResponseRefreshToken(r)) /\ Finish(r)
         \/ Failures /\ Fail(r, v) /\ tokens' = tokens /\ delivered' = delivered
         \/ /\ Failures /\ v.kind # "pre_auth" /\ Issue(g, v, format, via, FALSE)
            /\ Fail(r, v) /\ delivered' = delivered
  BY DEF IssueAndRespond
<1>3. ASSUME NEW sent \in BOOLEAN, Issue(g, v, format, via, sent)
      PROVE  \E t \in Token : /\ tokens' = Append(tokens, t) /\ t.gid = g /\ t.client = v.client
                              /\ t.jkt = v.jkt /\ t.via = via /\ t.sent = sent
  <2> PICK t : t = [gid |-> g, client |-> v.client, format |-> format, jkt |-> v.jkt,
                    expiresAt |-> now + TokenLifetime, revoked |-> FALSE, via |-> via,
                    sent |-> sent]
    OBVIOUS
  <2>1. t \in Token /\ t.gid = g /\ t.client = v.client /\ t.jkt = v.jkt /\ t.via = via
        /\ t.sent = sent
    BY <1>1, ConstantsAssumption DEF Token, Grant, TypeOK
  <2>2. tokens' = Append(tokens, t)
    BY <1>3 DEF Issue
  <2> QED
    BY <2>1, <2>2
<1>4. Failures /\ Fail(r, v) => GaveUp(r) /\ Others(r) /\ (pc'[r] # "idle" => View(r)' = v)
  <2>1. grants'[req[r].gid] = v \/ ~SharedRecords
    BY <1>2 DEF View
  <2> QED
    BY <1>1, <2>1, FailMoves
<1>5. CASE Issue(g, v, format, via, TRUE) /\ Deliver(g, ResponseRefreshToken(r)) /\ Finish(r)
  BY <1>1, <1>2, <1>3, <1>5, FinishMoves DEF Responded
<1>6. CASE Failures /\ Fail(r, v) /\ tokens' = tokens /\ delivered' = delivered
  BY <1>2, <1>4, <1>6 DEF Responded
<1>7. CASE /\ Failures /\ v.kind # "pre_auth" /\ Issue(g, v, format, via, FALSE)
           /\ Fail(r, v) /\ delivered' = delivered
  <2>1. PICK t \in Token : /\ tokens' = Append(tokens, t) /\ t.gid = g /\ t.client = v.client
                           /\ t.jkt = v.jkt /\ t.via = via /\ t.sent = FALSE
    BY <1>3, <1>7
  <2> QED
    BY <1>2, <1>4, <1>7, <2>1 DEF Responded
<1> QED
  BY <1>2, <1>5, <1>6, <1>7

\* What RevokeGrant and Crash do.
LEMMA EndMoves ==
  ASSUME IInv, NEW r \in Requests, RevokeGrant(r) \/ Crash(r)
  PROVE  Revoked(r) \/ Crashed(r)
<1>1. TypeOK
  BY DEF IInv
<1>2. CASE RevokeGrant(r)
  BY <1>1, <1>2, FinishMoves DEF SaveGrant, RevokeGrant, Revoked, Assign, SaveGrantFails
<1>3. CASE Crash(r)
  BY <1>1, <1>3, FinishMoves DEF Crash, Crashed
<1> QED
  BY <1>2, <1>3

\* What creating a grant does.
LEMMA CreateMoves ==
  ASSUME IInv, Create
  PROVE  \E g \in GrantIDs : Created(g)
<1>1. TypeOK
  BY DEF IInv
<1>2. ASSUME NEW g \in GrantIDs, NEW grant, NewGrant(g, grant),
             pc' = pc, req' = req, loaded' = loaded,
             tokens' = tokens \/ \E f \in Formats : Issue(g, grant, f, "direct", TRUE),
             delivered' = delivered \/ Deliver(g, grant.refreshToken)
      PROVE  Created(g)
  <2>1. ~Exists(g) /\ \A h \in GrantIDs \ {g} : grants'[h] = grants[h]
    BY <1>1, <1>2 DEF NewGrant, TypeOK
  <2>2. delivered \subseteq delivered'
    BY <1>2 DEF Deliver
  <2>3. ASSUME NEW f \in Formats, NEW via, NEW sent, via = "direct",
               Issue(g, grant, f, via, sent)
        PROVE  \A i \in DOMAIN tokens' :
                 \/ i \in DOMAIN tokens /\ tokens'[i] = tokens[i]
                 \/ tokens'[i].via = "direct"
    BY <1>1, <2>3, IssuedTokens
  <2>4. \A i \in DOMAIN tokens' :
          \/ i \in DOMAIN tokens /\ tokens'[i] = tokens[i]
          \/ tokens'[i].via = "direct"
    BY <1>2, <2>3
  <2> QED
    BY <1>2, <2>1, <2>2, <2>4 DEF Created
<1>3. ASSUME NEW g \in GrantIDs, NEW kind, NEW c, NEW code, NEW k, NEW front,
             CreateCodeGrant(g, kind, c, code, k, front)
      PROVE  Created(g)
  <2>1. \E grant : /\ NewGrant(g, grant) /\ pc' = pc /\ req' = req /\ loaded' = loaded
                   /\ \/ tokens' = tokens
                      \/ \E f \in Formats : Issue(g, grant, f, "direct", TRUE)
                   /\ delivered' = delivered \/ Deliver(g, grant.refreshToken)
    BY <1>3, Zenon DEF CreateCodeGrant
  <2> QED
    BY <1>2, <2>1
<1>4. ASSUME NEW g \in GrantIDs, NEW kind, NEW c, NEW k, NEW format \in Formats, NEW issued,
             DirectGrant(g, kind, c, k, format, issued)
      PROVE  Created(g)
  <2>1. \E grant : /\ NewGrant(g, grant) /\ pc' = pc /\ req' = req /\ loaded' = loaded
                   /\ \/ tokens' = tokens
                      \/ \E f \in Formats : Issue(g, grant, f, "direct", TRUE)
                   /\ delivered' = delivered \/ Deliver(g, grant.refreshToken)
    BY <1>4, Zenon DEF DirectGrant
  <2> QED
    BY <1>2, <2>1
<1> QED
  BY <1>3, <1>4, Zenon DEF Create

\* What the arrival of a request does.
LEMMA ArriveMoves ==
  ASSUME IInv, Redeem \/ Refresh \/ Revoke
  PROVE  \E r \in Requests : Arrived(r)
<1>1. TypeOK /\ \A j \in DOMAIN tokens : tokens[j] \in Token
  BY DEF IInv, TypeOK
<1>2. tokens' = tokens => TokensStay
  BY DEF TokensStay
<1>3. CASE Redeem
  <2>1. PICK r \in Requests, c \in Clients \cup {NoClient}, g \in GrantIDs,
             k \in Keys \cup {NoKey}, ok \in BOOLEAN : BeginRedeem(r, c, g, k, ok)
    BY <1>3 DEF Redeem
  <2>2. /\ pc[r] = "idle" /\ ~grants[g].revoked
        /\ \/ ~grants[g].consumed /\ Begin(r, "redeem", c, g, k, "checked")
           \/ Begin(r, "redeem", c, g, k, "revoking")
        /\ grants' = grants /\ tokens' = tokens /\ delivered' = delivered
    BY <2>1 DEF BeginRedeem, Redeemable, Idle
  <2>3. ASSUME Begin(r, "redeem", c, g, k, "checked"), ~grants[g].consumed
        PROVE  Arrived(r)
    BY <1>1, <1>2, <2>2, <2>3, BeginMoves DEF Arrived
  <2>4. ASSUME Begin(r, "redeem", c, g, k, "revoking")
        PROVE  Arrived(r)
    BY <1>1, <1>2, <2>2, <2>4, BeginMoves DEF Arrived
  <2> QED
    BY <2>2, <2>3, <2>4
<1>4. CASE Refresh
  <2>1. PICK r \in Requests, c \in Clients, g \in GrantIDs, k \in Keys \cup {NoKey} :
          BeginRefresh(r, c, g, k)
    BY <1>4 DEF Refresh
  <2>2. /\ pc[r] = "idle" /\ <<g, grants[g].refreshToken>> \in delivered
        /\ RefreshBindingMatches(grants[g], grants[g].client, k)
        /\ Begin(r, "refresh", c, g, k, "checked")
        /\ grants' = grants /\ tokens' = tokens /\ delivered' = delivered
    BY <2>1 DEF BeginRefresh, Idle
  <2>3. /\ pc'[r] = "checked" /\ req'[r].op = "refresh" /\ req'[r].gid = g /\ req'[r].key = k
        /\ Others(r) /\ View(r)' = grants[g]
    BY <1>1, <2>2, BeginMoves
  <2>4. Arrived(r)
    BY <1>2, <2>2, <2>3 DEF Arrived
  <2> QED
    BY <2>4
<1>5. CASE Revoke
  <2>1. PICK r \in Requests, c \in Clients :
          \/ \E g \in GrantIDs : RevokeRefreshToken(r, c, g)
          \/ \E i \in DOMAIN tokens : RevokeJWT(r, c, i) \/ RevokeOpaque(r, c, i)
    BY <1>5 DEF Revoke
  <2>2. ASSUME NEW g \in GrantIDs, pc[r] = "idle", Begin(r, "revoke", c, g, NoKey, "revoking"),
               grants' = grants, tokens' = tokens, delivered' = delivered
        PROVE  Arrived(r)
    BY <1>1, <1>2, <2>2, BeginMoves DEF Arrived
  <2>3. ASSUME NEW g \in GrantIDs, RevokeRefreshToken(r, c, g)
        PROVE  Arrived(r)
    BY <2>2, <2>3 DEF RevokeRefreshToken, Idle
  <2>4. ASSUME NEW i \in DOMAIN tokens, RevokeJWT(r, c, i) \/ RevokeOpaque(r, c, i)
        PROVE  Arrived(r)
    <3>1. tokens[i] \in Token /\ tokens[i].gid \in GrantIDs
      BY <1>1 DEF Token
    <3>2. /\ pc[r] = "idle" /\ grants' = grants /\ delivered' = delivered
          /\ \/ /\ Begin(r, "revoke", c, tokens[i].gid, NoKey, "revoking")
                /\ tokens' = tokens
             \/ Finish(r) /\ tokens' = [tokens EXCEPT ![i].revoked = TRUE]
      BY <2>4 DEF RevokeJWT, RevokeOpaque, Idle
    <3>3. tokens' = [tokens EXCEPT ![i].revoked = TRUE] => TokensStay
      <4> SUFFICES ASSUME tokens' = [tokens EXCEPT ![i].revoked = TRUE] PROVE TokensStay
        OBVIOUS
      <4>1. DOMAIN tokens' = DOMAIN tokens /\ \A j \in DOMAIN tokens :
              tokens'[j] = IF j = i THEN [tokens[i] EXCEPT !.revoked = TRUE] ELSE tokens[j]
        OBVIOUS
      <4> QED
        BY <1>1, <4>1 DEF Token, TokensStay
    <3>4. CASE Finish(r) /\ tokens' = [tokens EXCEPT ![i].revoked = TRUE]
      BY <1>1, <3>2, <3>3, <3>4, FinishMoves DEF Arrived
    <3> QED
      BY <2>2, <3>1, <3>2, <3>4
  <2> QED
    BY <2>1, <2>3, <2>4
<1> QED
  BY <1>3, <1>4, <1>5

\* Every step is one of these.
LEMMA StepForms ==
  ASSUME IInv, [Next]_vars
  PROVE  \/ Waited
         \/ \E g \in GrantIDs : Created(g)
         \/ \E r \in Requests :
              \/ Arrived(r) \/ Consumed(r) \/ SavedRefreshed(r)
              \/ Responded(r) \/ Revoked(r) \/ Crashed(r)
<1>1. CASE Tick \/ UNCHANGED vars
  BY <1>1 DEF Tick, vars, Waited
<1>2. CASE Create
  BY <1>2, CreateMoves
<1>3. CASE Redeem \/ Refresh \/ Revoke
  BY <1>3, ArriveMoves
<1>4. ASSUME NEW r \in Requests, Proceed(r) \/ Crash(r)
      PROVE  Consumed(r) \/ SavedRefreshed(r) \/ Responded(r) \/ Revoked(r) \/ Crashed(r)
  BY <1>4, ConsumeMoves, SaveRefreshedMoves, RespondMoves, EndMoves DEF Proceed
<1> QED
  BY <1>1, <1>2, <1>3, <1>4 DEF Next

-----------------------------------------------------------------------------
(* Tokens of failed redemptions.                                           *)

\* A token whose response never left: its grant is revoked, or a goroutine is
\* about to revoke it.
UnsentInv ==
  \A i \in DOMAIN tokens :
    (tokens[i].via = "code" /\ ~tokens[i].sent) =>
      \/ grants[tokens[i].gid].revoked
      \/ \E r \in Requests : pc[r] = "revoking" /\ req[r].gid = tokens[i].gid

\* With shared records, whoever is revoking a grant goes on to do it.
LEMMA RevokersRevoke ==
  ASSUME SharedRecords, IInv, [Next]_vars, NEW s \in Requests, pc[s] = "revoking"
  PROVE  \/ pc'[s] = "revoking" /\ req'[s].gid = req[s].gid
         \/ grants'[req[s].gid].revoked
<1>1. /\ req[s].gid \in GrantIDs /\ View(s) \in Grant
      /\ grants \in [GrantIDs -> Grant]
  BY ViewType DEF IInv, TypeOK, Request
<1>2. CASE Revoked(s)
  BY <1>1, <1>2 DEF Revoked, Grant
<1>3. CASE ~Revoked(s)
  <2>1. \A r \in Requests : Others(r) /\ r # s => pc'[s] = pc[s] /\ req'[s] = req[s]
    BY DEF Others
  <2> QED
    BY <1>3, <2>1, StepForms DEF Waited, Created, Arrived, Consumed, SavedRefreshed,
       Responded, Revoked, Crashed
<1> QED
  BY <1>2, <1>3

\* A token that appears unsent was issued by a redemption that goes on to
\* revoke; the others stay.
LEMMA UnsentTokens ==
  ASSUME IInv, [Next]_vars, NEW i \in DOMAIN tokens', tokens'[i].via = "code", ~tokens'[i].sent
  PROVE  \/ /\ i \in DOMAIN tokens
            /\ tokens'[i].gid = tokens[i].gid /\ tokens'[i].via = tokens[i].via
            /\ tokens'[i].sent = tokens[i].sent
         \/ \E r \in Requests : pc'[r] = "revoking" /\ req'[r].gid = tokens'[i].gid
<1>1. CASE tokens' = tokens \/ TokensStay
  BY <1>1 DEF TokensStay
<1>2. ASSUME NEW g \in GrantIDs, Created(g)
      PROVE  i \in DOMAIN tokens /\ tokens'[i] = tokens[i]
  BY <1>2 DEF Created
<1>3. ASSUME NEW r \in Requests, Responded(r), tokens' # tokens
      PROVE  \/ i \in DOMAIN tokens /\ tokens'[i] = tokens[i]
             \/ pc'[r] = "revoking" /\ req'[r].gid = tokens'[i].gid
  <2>1. PICK t \in Token :
          /\ tokens' = Append(tokens, t) /\ t.gid = req[r].gid /\ t.via = Via(r)
          /\ t.sent \/ (View(r).kind # "pre_auth" /\ GaveUp(r))
    BY <1>3 DEF Responded
  <2>2. tokens \in Seq(Token)
    BY DEF IInv, TypeOK
  <2>3. (i \in DOMAIN tokens /\ tokens'[i] = tokens[i]) \/ tokens'[i] = t
    BY <2>1, <2>2
  <2>4. CASE tokens'[i] = t
    <3>1. req[r].op = "redeem" /\ GaveUp(r) /\ View(r).kind # "pre_auth"
      BY <2>1, <2>4 DEF Via
    <3> QED
      BY <2>1, <2>4, <3>1 DEF GaveUp
  <2> QED
    BY <2>3, <2>4
<1> QED
  BY <1>1, <1>2, <1>3, StepForms DEF Waited, Arrived, Consumed, SavedRefreshed, Revoked, Crashed

\* With the manager that returns the stored grants themselves, an access token
\* whose redemption failed afterwards is dead once its grant is left alone.
THEOREM UnsentTokensDead ==
  ASSUME SharedRecords
  PROVE  Spec => []UnsentCodeTokensDie
<1>1. Init => UnsentInv
  BY DEF Init, UnsentInv
<1>2. IInv /\ UnsentInv /\ [Next]_vars => UnsentInv'
  <2> SUFFICES ASSUME IInv, UnsentInv, [Next]_vars,
                      NEW i \in DOMAIN tokens', tokens'[i].via = "code", ~tokens'[i].sent
               PROVE  \/ grants'[tokens'[i].gid].revoked
                      \/ \E r \in Requests : pc'[r] = "revoking" /\ req'[r].gid = tokens'[i].gid
    BY DEF UnsentInv
  <2>1. CASE /\ i \in DOMAIN tokens
             /\ tokens'[i].gid = tokens[i].gid /\ tokens'[i].via = tokens[i].via
             /\ tokens'[i].sent = tokens[i].sent
    <3>1. tokens[i].gid \in GrantIDs
      <4>1. tokens[i] \in Token
        BY <2>1 DEF IInv, TypeOK
      <4> QED
        BY <4>1 DEF Token
    <3>2. CASE grants[tokens[i].gid].revoked
      BY <2>1, <3>1, <3>2, StepKeepsRevoked DEF IInv, TokensInv
    <3>3. ASSUME NEW s \in Requests, pc[s] = "revoking", req[s].gid = tokens[i].gid
          PROVE  \/ grants'[tokens'[i].gid].revoked
                 \/ \E r \in Requests : pc'[r] = "revoking" /\ req'[r].gid = tokens'[i].gid
      BY <2>1, <3>3, RevokersRevoke
    <3> QED
      BY <2>1, <3>2, <3>3 DEF UnsentInv
  <2> QED
    BY <2>1, UnsentTokens
<1>3. UnsentInv => UnsentCodeTokensDie
  BY DEF UnsentInv, UnsentCodeTokensDie, InUse, Busy, Idle, Active, Ended
<1> QED
  BY <1>1, <1>2, <1>3, Inductive, PTL DEF Spec

-----------------------------------------------------------------------------
(* Refresh tokens reach the client.                                        *)

\* The goroutine works on the grant.
Holds(r, g) == pc[r] # "idle" /\ req[r].gid = g

\* The token was issued for a code or a refresh token of the grant.
Exchanged(i, g) == tokens[i].gid = g /\ tokens[i].via \in {"code", "refresh"}

Unexchanged(g) == \A i \in DOMAIN tokens : ~Exchanged(i, g)

\* A response that is about to leave carries the refresh token.
Pending(g, t) ==
  \E r \in Requests : pc[r] = "saved" /\ req[r].gid = g /\ ResponseRefreshToken(r) = t

Settled(g, t) == t = 0 \/ <<g, t>> \in delivered \/ Pending(g, t)

\* The first refresh token of the grant, which nobody has asked for yet.
Untouched(g) ==
  /\ Unexchanged(g)
  /\ \A r \in Requests : Holds(r, g) =>
       req[r].op # "refresh" /\ View(r).refreshToken = grants[g].refreshToken

\* What is stored, and what a goroutine may store later, has been delivered or
\* is on its way.
RefreshOK(g) ==
  \/ Untouched(g)
  \/ /\ Settled(g, grants[g].refreshToken)
     /\ \A r \in Requests : Holds(r, g) => Settled(g, View(r).refreshToken)

RefreshInv == \A g \in GrantIDs : RefreshOK(g)

\* A step that does not concern the grant.
LEMMA RefreshFrame ==
  ASSUME NEW g \in GrantIDs, RefreshOK(g), grants'[g] = grants[g], delivered \subseteq delivered',
         \A i \in DOMAIN tokens' : Exchanged(i, g)' => i \in DOMAIN tokens /\ Exchanged(i, g),
         \A s \in Requests : Holds(s, g) \/ Holds(s, g)' =>
           pc'[s] = pc[s] /\ req'[s] = req[s] /\ loaded'[s] = loaded[s]
  PROVE  RefreshOK(g)'
<1>1. \A s \in Requests : Holds(s, g)' => Holds(s, g) /\ req'[s] = req[s] /\ View(s)' = View(s)
  BY DEF Holds, View
<1>2. ASSUME NEW t, Pending(g, t)
      PROVE  Pending(g, t)'
  <2>1. PICK s \in Requests : pc[s] = "saved" /\ req[s].gid = g /\ ResponseRefreshToken(s) = t
    BY <1>2 DEF Pending
  <2>2. pc'[s] = "saved" /\ req'[s] = req[s] /\ View(s)' = View(s)
    BY <1>1, <2>1 DEF Holds
  <2>3. ResponseRefreshToken(s)' = t
    BY <2>1, <2>2 DEF ResponseRefreshToken
  <2> QED
    BY <2>1, <2>2, <2>3 DEF Pending
<1>3. ASSUME NEW t, Settled(g, t)
      PROVE  Settled(g, t)'
  BY <1>2, <1>3 DEF Settled
<1>4. CASE Untouched(g)
  BY <1>1, <1>4 DEF Untouched, Unexchanged, RefreshOK
<1>5. CASE /\ Settled(g, grants[g].refreshToken)
           /\ \A r \in Requests : Holds(r, g) => Settled(g, View(r).refreshToken)
  <2>1. ASSUME NEW t, t = grants'[g].refreshToken
        PROVE  Settled(g, t)'
    BY <1>3, <1>5, <2>1
  <2>2. ASSUME NEW r \in Requests, NEW t, Holds(r, g)', t = View(r)'.refreshToken
        PROVE  Settled(g, t)'
    BY <1>1, <1>3, <1>5, <2>2
  <2> QED
    BY <2>1, <2>2 DEF RefreshOK, Settled, Pending
<1> QED
  BY <1>4, <1>5 DEF RefreshOK

\* A goroutine saves the refresh token it holds.
LEMMA RefreshSaved ==
  ASSUME TypeOK, NEW r \in Requests, NEW g \in GrantIDs, NEW new, RefreshOK(g),
         req[r].gid = g, pc[r] \in {"checked", "revoking"}, Others(r),
         new.refreshToken = View(r).refreshToken, grants'[g] = new,
         tokens' = tokens, delivered' = delivered,
         Holds(r, g)' => req'[r].op = req[r].op /\ View(r)'.refreshToken = new.refreshToken
  PROVE  RefreshOK(g)'
<1>1. SharedRecords => View(r) = grants[g]
  BY DEF View
<1>2. \A s \in Requests \ {r} : Holds(s, g)' =>
        /\ Holds(s, g) /\ req'[s] = req[s]
        /\ View(s)'.refreshToken = View(s).refreshToken
  BY <1>1 DEF Holds, View, Others
<1>3. Holds(r, g)
  BY DEF Holds
<1>4. ASSUME NEW t, Pending(g, t)
      PROVE  Pending(g, t)'
  <2>1. PICK s \in Requests : pc[s] = "saved" /\ req[s].gid = g /\ ResponseRefreshToken(s) = t
    BY <1>4 DEF Pending
  <2>2. s # r /\ pc'[s] = "saved" /\ req'[s] = req[s]
        /\ View(s)'.refreshToken = View(s).refreshToken
    BY <1>2, <2>1 DEF Holds, Others
  <2>3. ResponseRefreshToken(s)' = t
    BY <2>1, <2>2 DEF ResponseRefreshToken
  <2> QED
    BY <2>1, <2>2, <2>3 DEF Pending
<1>5. ASSUME NEW t, Settled(g, t)
      PROVE  Settled(g, t)'
  BY <1>4, <1>5 DEF Settled
<1>6. CASE Untouched(g)
  <2>1. Unexchanged(g)'
    BY <1>6 DEF Untouched, Unexchanged, Exchanged
  <2>2. ASSUME NEW s \in Requests, Holds(s, g)'
        PROVE  req'[s].op # "refresh" /\ View(s)'.refreshToken = grants'[g].refreshToken
    BY <1>2, <1>3, <1>6, <2>2 DEF Untouched
  <2> QED
    BY <2>1, <2>2 DEF Untouched, RefreshOK
<1>7. CASE /\ Settled(g, grants[g].refreshToken)
           /\ \A s \in Requests : Holds(s, g) => Settled(g, View(s).refreshToken)
  <2>1. ASSUME NEW t, t = grants'[g].refreshToken
        PROVE  Settled(g, t)'
    BY <1>3, <1>5, <1>7, <2>1
  <2>2. ASSUME NEW s \in Requests, NEW t, Holds(s, g)', t = View(s)'.refreshToken
        PROVE  Settled(g, t)'
    BY <1>2, <1>3, <1>5, <1>7, <2>2
  <2> QED
    BY <2>1, <2>2 DEF RefreshOK, Settled, Pending
<1> QED
  BY <1>6, <1>7 DEF RefreshOK

\* A request for the grant arrives.
LEMMA RefreshArrived ==
  ASSUME NEW r \in Requests, NEW g \in GrantIDs, RefreshOK(g), Arrived(r), Holds(r, g)'
  PROVE  RefreshOK(g)'
<1>1. /\ View(r)' = grants[g] /\ pc[r] = "idle" /\ pc'[r] # "saved" /\ Others(r)
      /\ grants' = grants /\ delivered' = delivered /\ TokensStay
      /\ req'[r].op = "refresh" => <<g, grants[g].refreshToken>> \in delivered
  BY DEF Arrived, Holds
<1>2. \A s \in Requests \ {r} : Holds(s, g)' =>
        Holds(s, g) /\ req'[s] = req[s] /\ View(s)' = View(s)
  BY <1>1 DEF Holds, View, Others
<1>3. ASSUME NEW t, Pending(g, t)
      PROVE  Pending(g, t)'
  <2>1. PICK s \in Requests : pc[s] = "saved" /\ req[s].gid = g /\ ResponseRefreshToken(s) = t
    BY <1>3 DEF Pending
  <2>2. s # r /\ pc'[s] = "saved" /\ req'[s] = req[s] /\ View(s)' = View(s)
    BY <1>1, <2>1 DEF Others, View
  <2>3. ResponseRefreshToken(s)' = t
    BY <2>1, <2>2 DEF ResponseRefreshToken
  <2> QED
    BY <2>1, <2>2, <2>3 DEF Pending
<1>4. ASSUME NEW t, Settled(g, t)
      PROVE  Settled(g, t)'
  BY <1>1, <1>3, <1>4 DEF Settled
<1>5. Unexchanged(g) => Unexchanged(g)'
  BY <1>1 DEF Unexchanged, Exchanged, TokensStay
<1>6. CASE Untouched(g) /\ req'[r].op # "refresh"
  <2>1. ASSUME NEW s \in Requests, Holds(s, g)'
        PROVE  req'[s].op # "refresh" /\ View(s)'.refreshToken = grants'[g].refreshToken
    BY <1>1, <1>2, <1>6, <2>1 DEF Untouched
  <2> QED
    BY <1>5, <1>6, <2>1 DEF Untouched, RefreshOK
<1>7. CASE Untouched(g) /\ req'[r].op = "refresh"
  <2>1. ASSUME NEW t, t = grants[g].refreshToken
        PROVE  Settled(g, t)'
    BY <1>1, <1>7, <2>1 DEF Settled
  <2>2. ASSUME NEW s \in Requests, NEW t, Holds(s, g)', t = View(s)'.refreshToken
        PROVE  Settled(g, t)'
    BY <1>1, <1>2, <1>7, <2>1, <2>2 DEF Untouched
  <2> QED
    BY <1>1, <2>1, <2>2 DEF RefreshOK, Settled, Pending
<1>8. CASE /\ Settled(g, grants[g].refreshToken)
           /\ \A s \in Requests : Holds(s, g) => Settled(g, View(s).refreshToken)
  <2>1. ASSUME NEW t, t = grants[g].refreshToken
        PROVE  Settled(g, t)'
    BY <1>4, <1>8, <2>1
  <2>2. ASSUME NEW s \in Requests, NEW t, Holds(s, g)', t = View(s)'.refreshToken
        PROVE  Settled(g, t)'
    BY <1>1, <1>2, <1>4, <1>8, <2>1, <2>2
  <2> QED
    BY <1>1, <2>1, <2>2 DEF RefreshOK, Settled, Pending
<1> QED
  BY <1>6, <1>7, <1>8 DEF RefreshOK

\* A goroutine saves a refresh token it generated: its response will carry it.
LEMMA RefreshRotated ==
  ASSUME NEW r \in Requests, NEW g \in GrantIDs, NEW new, NEW n, RefreshOK(g),
         Holds(r, g), req[r].op = "refresh", pc[r] = "checked", Others(r),
         new.refreshToken = n, grants'[g] = new, View(r)' = new,
         tokens' = tokens, delivered' = delivered,
         pc'[r] = "saved", req'[r].gid = g, req'[r].op = "refresh", req'[r].newRefresh = n
  PROVE  RefreshOK(g)'
<1>1. \A s \in Requests : Holds(s, g) => Settled(g, View(s).refreshToken)
  BY DEF RefreshOK, Untouched
<1>2. Settled(g, n)'
  BY DEF Settled, Pending, ResponseRefreshToken
<1>3. ASSUME NEW s \in Requests, NEW t, Holds(s, g)', t = View(s)'.refreshToken
      PROVE  Settled(g, t)'
  <2>1. CASE s = r \/ SharedRecords
    <3>1. t = n
      BY <1>3, <2>1 DEF Holds, View
    <3> QED
      BY <1>2, <3>1
  <2>2. CASE s # r /\ ~SharedRecords
    <3>1. Holds(s, g) /\ t = View(s).refreshToken
      BY <1>3, <2>2 DEF Holds, Others, View
    <3>2. Settled(g, t)
      BY <1>1, <3>1
    <3>3. ASSUME Pending(g, t)
          PROVE  Pending(g, t)'
      <4>1. PICK u \in Requests : pc[u] = "saved" /\ req[u].gid = g /\ ResponseRefreshToken(u) = t
        BY <3>3 DEF Pending
      <4>2. pc'[u] = "saved" /\ req'[u] = req[u] /\ View(u)' = View(u)
        BY <2>2, <4>1 DEF Others, View
      <4>3. ResponseRefreshToken(u)' = t
        BY <4>1, <4>2 DEF ResponseRefreshToken
      <4> QED
        BY <4>1, <4>2, <4>3 DEF Pending
    <3> QED
      BY <3>2, <3>3 DEF Settled
  <2> QED
    BY <2>1, <2>2
<1> QED
  BY <1>2, <1>3 DEF RefreshOK, Settled, Pending

\* A response leaves: it carries the refresh token that was pending.
LEMMA RefreshDelivered ==
  ASSUME NEW r \in Requests, NEW g \in GrantIDs, NEW t, RefreshOK(g), Others(r),
         pc[r] = "saved", req[r].gid = g, req[r].op \in {"redeem", "refresh"},
         pc'[r] = "idle", grants' = grants,
         t = ResponseRefreshToken(r), Deliver(g, t)
  PROVE  RefreshOK(g)'
<1>1. \A s \in Requests : Holds(s, g)' =>
        s # r /\ Holds(s, g) /\ req'[s] = req[s] /\ View(s)' = View(s)
  BY DEF Holds, View, Others
<1>2. delivered \subseteq delivered' /\ (t = 0 \/ <<g, t>> \in delivered')
  BY DEF Deliver
<1>3. ASSUME NEW u, Settled(g, u)
      PROVE  Settled(g, u)'
  <2>1. ASSUME NEW s \in Requests, s # r, pc[s] = "saved", req[s].gid = g,
               ResponseRefreshToken(s) = u
        PROVE  Pending(g, u)'
    <3>1. pc'[s] = "saved" /\ req'[s] = req[s] /\ View(s)' = View(s)
      BY <2>1 DEF Others, View
    <3>2. ResponseRefreshToken(s)' = u
      BY <2>1, <3>1 DEF ResponseRefreshToken
    <3> QED
      BY <2>1, <3>1, <3>2 DEF Pending
  <2>2. Pending(g, u) => u = t \/ Pending(g, u)'
    BY <2>1 DEF Pending
  <2> QED
    BY <1>2, <1>3, <2>2 DEF Settled
<1>4. Settled(g, grants[g].refreshToken)
      /\ \A s \in Requests : Holds(s, g) => Settled(g, View(s).refreshToken)
  <2>1. CASE Untouched(g)
    <3>1. t = grants[g].refreshToken
      BY <2>1 DEF Untouched, Holds, ResponseRefreshToken
    <3>2. Settled(g, t)
      BY <3>1 DEF Settled, Pending
    <3> QED
      BY <2>1, <3>1, <3>2 DEF Untouched
  <2> QED
    BY <2>1 DEF RefreshOK
<1>5. ASSUME NEW u, u = grants[g].refreshToken
      PROVE  Settled(g, u)'
  BY <1>3, <1>4, <1>5
<1>6. ASSUME NEW s \in Requests, NEW u, Holds(s, g)', u = View(s)'.refreshToken
      PROVE  Settled(g, u)'
  BY <1>1, <1>3, <1>4, <1>6
<1> QED
  BY <1>5, <1>6 DEF RefreshOK, Settled, Pending

\* Without failures, every step keeps the refresh tokens accounted for.
LEMMA RefreshStep ==
  ASSUME ~Failures, IInv, RefreshInv, [Next]_vars
  PROVE  RefreshInv'
<1> SUFFICES ASSUME NEW g \in GrantIDs PROVE RefreshOK(g)'
  BY DEF RefreshInv
<1>1. RefreshOK(g) /\ TypeOK /\ grants \in [GrantIDs -> Grant]
  BY DEF RefreshInv, IInv, TypeOK
<1>2. CASE Waited
  <2>1. \A i \in DOMAIN tokens' : Exchanged(i, g)' => i \in DOMAIN tokens /\ Exchanged(i, g)
    BY <1>2 DEF Waited, Exchanged
  <2> QED
    BY <1>1, <1>2, <2>1, RefreshFrame DEF Waited
<1>3. ASSUME NEW h \in GrantIDs, Created(h)
      PROVE  RefreshOK(g)'
  <2>1. \A i \in DOMAIN tokens' : Exchanged(i, g)' => i \in DOMAIN tokens /\ Exchanged(i, g)
    BY <1>3 DEF Created, Exchanged
  <2>2. CASE h # g
    BY <1>1, <1>3, <2>1, <2>2, RefreshFrame DEF Created
  <2>3. CASE h = g
    <3>1. \A r \in Requests : ~Holds(r, g)'
      BY <1>1, <1>3, <2>3 DEF IInv, RequestInv, Created, Holds, TypeOK
    <3>2. Unexchanged(g)'
      BY <1>3, <2>1, <2>3 DEF IInv, TokensInv, Created, Unexchanged, Exchanged
    <3> QED
      BY <3>1, <3>2 DEF Untouched, RefreshOK
  <2> QED
    BY <2>2, <2>3
<1>4. ASSUME NEW r \in Requests, Arrived(r)
      PROVE  RefreshOK(g)'
  <2>1. \A i \in DOMAIN tokens' : Exchanged(i, g)' => i \in DOMAIN tokens /\ Exchanged(i, g)
    BY <1>4 DEF Arrived, TokensStay, Exchanged
  <2>2. CASE ~Holds(r, g)'
    BY <1>1, <1>4, <2>1, <2>2, RefreshFrame DEF Arrived, Others, Holds
  <2> QED
    BY <1>1, <1>4, <2>2, RefreshArrived
<1>5. ASSUME NEW r \in Requests, NEW new, req[r].gid # g, Others(r), delivered' = delivered,
             grants' = grants \/ grants' = [grants EXCEPT ![req[r].gid] = new],
             tokens' = tokens, pc'[r] = "idle" \/ req'[r].gid = req[r].gid
      PROVE  RefreshOK(g)'
  <2>1. \A i \in DOMAIN tokens' : Exchanged(i, g)' => i \in DOMAIN tokens /\ Exchanged(i, g)
    BY <1>5 DEF Exchanged
  <2> QED
    BY <1>1, <1>5, <2>1, RefreshFrame DEF Others, Holds
<1>6. ASSUME NEW r \in Requests, Consumed(r)
      PROVE  RefreshOK(g)'
  <2>1. View(r) \in Grant /\ req[r].gid \in GrantIDs
    BY <1>1, ViewType DEF TypeOK, Request
  <2>2. PICK new \in Grant :
          /\ new = [View(r) EXCEPT !.consumed = TRUE, !.jkt = req[r].key]
          /\ grants' = [grants EXCEPT ![req[r].gid] = new] /\ View(r)' = new
          /\ pc'[r] = "saved" /\ req'[r] = req[r]
    BY <1>6 DEF Consumed, GaveUp
  <2>3. new.refreshToken = View(r).refreshToken
    BY <2>1, <2>2 DEF Grant
  <2>4. CASE req[r].gid # g
    BY <1>5, <1>6, <2>2, <2>4 DEF Consumed
  <2>5. CASE req[r].gid = g
    BY <1>1, <1>6, <2>2, <2>3, <2>5, RefreshSaved DEF Consumed
  <2> QED
    BY <2>4, <2>5
<1>7. ASSUME NEW r \in Requests, SavedRefreshed(r)
      PROVE  RefreshOK(g)'
  <2>1. View(r) \in Grant /\ req[r].gid \in GrantIDs
    BY <1>1, ViewType DEF TypeOK, Request
  <2>2. PICK new \in Grant :
          /\ new = Refreshed(r)
          /\ grants' = [grants EXCEPT ![req[r].gid] = new] /\ View(r)' = new
          /\ pc'[r] = "saved"
          /\ req'[r].gid = req[r].gid /\ req'[r].op = "refresh"
          /\ req'[r].newRefresh = IF Rotation THEN lastRefresh + 1 ELSE 0
    BY <1>7 DEF SavedRefreshed
  <2>3. new.refreshToken = IF Rotation THEN lastRefresh + 1 ELSE View(r).refreshToken
    BY <2>1, <2>2 DEF Refreshed, Grant
  <2>4. CASE req[r].gid # g
    BY <1>5, <1>7, <2>2, <2>4 DEF SavedRefreshed
  <2>5. CASE req[r].gid = g /\ Rotation
    <3>1. PICK n : n = lastRefresh + 1
      OBVIOUS
    <3> QED
      BY <1>1, <1>7, <2>2, <2>3, <2>5, <3>1, RefreshRotated DEF SavedRefreshed, Holds
  <2>6. CASE req[r].gid = g /\ ~Rotation
    BY <1>1, <1>7, <2>2, <2>3, <2>6, RefreshSaved DEF SavedRefreshed
  <2> QED
    BY <2>4, <2>5, <2>6
<1>8. ASSUME NEW r \in Requests, Responded(r)
      PROVE  RefreshOK(g)'
  <2>1. PICK t \in Token :
          /\ tokens' = Append(tokens, t) /\ t.gid = req[r].gid
          /\ pc'[r] = "idle" /\ Deliver(req[r].gid, ResponseRefreshToken(r))
    BY <1>8 DEF Responded, GaveUp
  <2>2. /\ pc[r] = "saved" /\ Others(r) /\ grants' = grants
        /\ req[r].op \in {"redeem", "refresh"} /\ req[r].gid \in GrantIDs
    BY <1>1, <1>8 DEF Responded, IInv, RequestInv, TypeOK, Request
  <2>3. CASE req[r].gid # g
    <3>1. tokens \in Seq(Token)
      BY <1>1 DEF TypeOK
    <3>2. \A i \in DOMAIN tokens' : tokens'[i] = t \/ (i \in DOMAIN tokens /\ tokens'[i] = tokens[i])
      BY <2>1, <3>1
    <3>3. \A i \in DOMAIN tokens' : Exchanged(i, g)' => i \in DOMAIN tokens /\ Exchanged(i, g)
      BY <2>1, <2>3, <3>2 DEF Exchanged
    <3>4. delivered \subseteq delivered'
      BY <2>1 DEF Deliver
    <3> QED
      BY <1>1, <2>1, <2>2, <2>3, <3>3, <3>4, RefreshFrame DEF Others, Holds
  <2>4. CASE req[r].gid = g
    <3>1. PICK u : u = ResponseRefreshToken(r)
      OBVIOUS
    <3> QED
      BY <1>1, <2>1, <2>2, <2>4, <3>1, RefreshDelivered
  <2> QED
    BY <2>3, <2>4
<1>9. ASSUME NEW r \in Requests, Revoked(r)
      PROVE  RefreshOK(g)'
  <2>1. View(r) \in Grant /\ req[r].gid \in GrantIDs
    BY <1>1, ViewType DEF TypeOK, Request
  <2>2. PICK new : new = [View(r) EXCEPT !.revoked = TRUE]
    OBVIOUS
  <2>3. grants' = [grants EXCEPT ![req[r].gid] = new] /\ new.refreshToken = View(r).refreshToken
    BY <1>9, <2>1, <2>2 DEF Revoked, Grant
  <2>4. CASE req[r].gid # g
    BY <1>5, <1>9, <2>3, <2>4 DEF Revoked
  <2>5. CASE req[r].gid = g
    BY <1>1, <1>9, <2>3, <2>5, RefreshSaved DEF Revoked, Holds
  <2> QED
    BY <2>4, <2>5
<1> QED
  BY <1>2, <1>3, <1>4, <1>6, <1>7, <1>8, <1>9, StepForms DEF Crashed

\* Without failures, and whatever the manager's lookups return, the refresh
\* token in storage is one that a response carried, once the grant is left
\* alone: concurrent redemptions and refreshes lock nobody out.
THEOREM NobodyLockedOut ==
  ASSUME ~Failures
  PROVE  Spec => []StoredRefreshTokenDelivered
<1>1. Init => RefreshInv
  BY DEF Init, RefreshInv, RefreshOK, Untouched, Unexchanged, Holds
<1>2. IInv /\ RefreshInv /\ [Next]_vars => RefreshInv'
  BY RefreshStep
<1>3. IInv /\ RefreshInv => StoredRefreshTokenDelivered
  <2> SUFFICES ASSUME IInv, RefreshInv, NEW i \in DOMAIN tokens, NEW g, g = tokens[i].gid,
                      tokens[i].via \in {"code", "refresh"}, ~InUse(g),
                      grants[g].refreshToken # 0
               PROVE  <<g, grants[g].refreshToken>> \in delivered
    BY DEF StoredRefreshTokenDelivered
  <2>1. g \in GrantIDs
    <3>1. tokens[i] \in Token
      BY DEF IInv, TypeOK
    <3> QED
      BY <3>1 DEF Token
  <2>2. Settled(g, grants[g].refreshToken)
    BY <2>1 DEF RefreshInv, RefreshOK, Untouched, Unexchanged, Exchanged
  <2>3. ~Pending(g, grants[g].refreshToken)
    BY DEF InUse, Busy, Idle, Pending
  <2> QED
    BY <2>2, <2>3 DEF Settled
<1> QED
  BY <1>1, <1>2, <1>3, Inductive, PTL DEF Spec

-----------------------------------------------------------------------------
(* Requests for a grant that are served one after the other.               *)

\* What a refresh must preserve: the client, whether tokens are bound, and the
\* key of a public client.
Compatible(t, grant) ==
  /\ t.client = grant.client
  /\ (t.jkt = NoKey) <=> (grant.jkt = NoKey)
  /\ t.client \in PublicClients => t.jkt = grant.jkt

\* A refreshed code grant is spent.
ExchangedInv ==
  \A i \in DOMAIN tokens :
    (tokens[i].via = "refresh" /\ grants[tokens[i].gid].kind \in CodeKinds)
      => Spent(grants[tokens[i].gid])

Alone(g) == \A r, s \in Requests : Holds(r, g) /\ Holds(s, g) => r = s

\* What the only goroutine at work on a grant knows: it redeems a code nothing
\* was issued for, holds the stored binding, and refreshes with the right key.
HolderOK(r, g) ==
  /\ (pc[r] \in {"checked", "saved"} /\ req[r].op = "redeem") => Unexchanged(g)
  /\ \/ View(r).jkt = grants[g].jkt /\ View(r).client = grants[g].client
     \/ pc[r] = "revoking" /\ Unexchanged(g)
  /\ (pc[r] = "checked" /\ req[r].op = "refresh")
       => RefreshBindingMatches(View(r), View(r).client, req[r].key)

SerialOK(g) ==
  /\ Alone(g)
  /\ \A i, j \in CodeTokens(g) : i = j
  /\ \A i \in DOMAIN tokens : Exchanged(i, g) => Compatible(tokens[i], grants[g])
  /\ \A r \in Requests : Holds(r, g) => HolderOK(r, g)

SerialInv == \A g \in GrantIDs \ contended : SerialOK(g)

\* No token is issued for a code or refresh token of the grant.
NoneExchanged(g) ==
  \A i \in DOMAIN tokens' :
    Exchanged(i, g)' =>
      /\ i \in DOMAIN tokens /\ Exchanged(i, g)
      /\ tokens'[i].client = tokens[i].client /\ tokens'[i].jkt = tokens[i].jkt
      /\ tokens'[i].via = tokens[i].via

\* Two goroutines on a grant overlap.
LEMMA OverlapCounted ==
  ASSUME IsFiniteSet(Requests), NEW g, ~Overlapping(g)
  PROVE  Alone(g)
<1> SUFFICES ASSUME NEW r \in Requests, NEW s \in Requests, Holds(r, g), Holds(s, g), r # s
             PROVE  FALSE
  BY DEF Alone
<1>1. PICK both : both = {q \in Busy : req[q].gid = g}
  OBVIOUS
<1>2. both \subseteq Requests /\ {r, s} \subseteq both
  BY <1>1 DEF Busy, Idle, Holds
<1>3. IsFiniteSet(both) /\ Cardinality(both) \in Nat
  BY <1>2, FS_Subset, FS_CardinalityType
<1>4. Cardinality({r, s}) = 2
  <2>1. IsFiniteSet({r}) /\ Cardinality({r}) = 1
    BY FS_Singleton
  <2>2. Cardinality({r} \cup {s}) = 2
    BY <2>1, FS_AddElement
  <2>3. {r} \cup {s} = {r, s}
    OBVIOUS
  <2> QED
    BY <2>2, <2>3
<1>5. Cardinality({r, s}) <= Cardinality(both)
  BY <1>2, <1>3, FS_Subset
<1> QED
  BY <1>1, <1>3, <1>4, <1>5 DEF Overlapping

\* A step that issues nothing for the grant.
LEMMA SerialKept ==
  ASSUME NEW g, SerialOK(g), Alone(g)', NoneExchanged(g),
         \A i \in DOMAIN tokens : Exchanged(i, g) => Compatible(tokens[i], grants'[g]),
         \A r \in Requests : Holds(r, g)' => HolderOK(r, g)'
  PROVE  SerialOK(g)'
<1>1. \A i \in DOMAIN tokens' : Exchanged(i, g)' => Compatible(tokens'[i], grants'[g])
  BY DEF NoneExchanged, Compatible
<1>2. CodeTokens(g)' \subseteq CodeTokens(g)
  BY DEF CodeTokens, NoneExchanged, Exchanged
<1>3. \A i, j \in CodeTokens(g)' : i = j
  BY <1>2 DEF SerialOK
<1> QED
  BY <1>1, <1>3 DEF SerialOK, Compatible

\* Nothing was issued and nothing is issued for the grant.
LEMMA StillUnexchanged ==
  ASSUME NEW g, Unexchanged(g), NoneExchanged(g)
  PROVE  Unexchanged(g)'
BY DEF Unexchanged, NoneExchanged

\* A step that does not concern the grant.
LEMMA SerialFrame ==
  ASSUME NEW g, SerialOK(g), Alone(g)', NoneExchanged(g), grants'[g] = grants[g],
         \A s \in Requests : Holds(s, g)' =>
           Holds(s, g) /\ pc'[s] = pc[s] /\ req'[s] = req[s] /\ loaded'[s] = loaded[s]
  PROVE  SerialOK(g)'
<1>1. ASSUME NEW s \in Requests, Holds(s, g)'
      PROVE  HolderOK(s, g)'
  <2>1. HolderOK(s, g) /\ View(s)' = View(s) /\ pc'[s] = pc[s] /\ req'[s] = req[s]
    BY <1>1 DEF SerialOK, Holds, View
  <2> QED
    BY <2>1, StillUnexchanged DEF HolderOK, RefreshBindingMatches
<1>2. \A i \in DOMAIN tokens : Exchanged(i, g) => Compatible(tokens[i], grants'[g])
  BY DEF SerialOK
<1> QED
  BY <1>1, <1>2, SerialKept

\* A step of the goroutine that holds the grant, after which it alone may.
LEMMA SerialMove ==
  ASSUME NEW g, NEW r \in Requests, SerialOK(g), Holds(r, g), Others(r), Alone(g)',
         NoneExchanged(g),
         \A i \in DOMAIN tokens : Exchanged(i, g) => Compatible(tokens[i], grants'[g]),
         Holds(r, g)' => HolderOK(r, g)'
  PROVE  SerialOK(g)'
<1>1. \A s \in Requests : Holds(s, g)' => s = r
  BY DEF SerialOK, Alone, Holds, Others
<1> QED
  BY <1>1, SerialKept

\* Refreshing keeps the grant compatible with the tokens issued before.
LEMMA RefreshCompatible ==
  ASSUME NEW r \in Requests, View(r) \in Grant, NEW t, NEW grant, Compatible(t, grant),
         View(r).jkt = grant.jkt, View(r).client = grant.client,
         RefreshBindingMatches(View(r), View(r).client, req[r].key)
  PROVE  Compatible(t, Refreshed(r))
<1>1. /\ Refreshed(r).client = View(r).client
      /\ Refreshed(r).jkt = IF View(r).jkt # NoKey THEN req[r].key ELSE View(r).jkt
  BY DEF Refreshed, Grant
<1> QED
  BY <1>1 DEF Compatible, RefreshBindingMatches

\* A request for the grant arrives.
LEMMA SerialArrived ==
  ASSUME IInv, IInv', ExchangedInv, NEW r \in Requests, NEW g \in GrantIDs, SerialOK(g),
         Alone(g)', NoneExchanged(g), Arrived(r), Holds(r, g)'
  PROVE  SerialOK(g)'
<1>1. /\ View(r)' = grants[g] /\ pc'[r] \in {"checked", "revoking"} /\ grants' = grants
      /\ req'[r].gid = g
      /\ (pc'[r] = "checked" /\ req'[r].op = "redeem") => ~grants[g].consumed /\ ~grants[g].revoked
      /\ req'[r].op = "refresh" => RefreshBindingMatches(grants[g], grants[g].client, req'[r].key)
  BY DEF Arrived, Holds
<1>2. ASSUME pc'[r] = "checked", req'[r].op = "redeem"
      PROVE  Unexchanged(g)
  <2>1. grants[g].kind \in CodeKinds /\ ~Spent(grants[g])
    BY <1>1, <1>2 DEF IInv, RequestInv, Spent
  <2> QED
    BY <2>1 DEF IInv, TokensInv, ExchangedInv, Unexchanged, Exchanged
<1>3. HolderOK(r, g)'
  <2>1. (pc[r] \in {"checked", "saved"} /\ req[r].op = "redeem")' => Unexchanged(g)'
    BY <1>1, <1>2, StillUnexchanged
  <2>2. (View(r).jkt = grants[g].jkt /\ View(r).client = grants[g].client)'
    BY <1>1
  <2>3. (pc[r] = "checked" /\ req[r].op = "refresh")'
          => RefreshBindingMatches(View(r), View(r).client, req[r].key)'
    BY <1>1 DEF RefreshBindingMatches
  <2> QED
    BY <2>1, <2>2, <2>3 DEF HolderOK
<1>4. \A s \in Requests : Holds(s, g)' => HolderOK(s, g)'
  BY <1>3 DEF Alone
<1>5. \A i \in DOMAIN tokens : Exchanged(i, g) => Compatible(tokens[i], grants'[g])
  BY <1>1 DEF SerialOK
<1> QED
  BY <1>4, <1>5, SerialKept

\* The goroutine that holds the grant saves it.
LEMMA SerialSaved ==
  ASSUME IInv, NEW r \in Requests, NEW g \in GrantIDs, SerialOK(g), Holds(r, g),
         Alone(g)', NoneExchanged(g), Consumed(r) \/ SavedRefreshed(r) \/ Revoked(r) \/ Crashed(r)
  PROVE  SerialOK(g)'
<1>1. /\ View(r) \in Grant /\ req[r].gid = g /\ HolderOK(r, g)
      /\ grants \in [GrantIDs -> Grant]
  BY ViewType DEF IInv, TypeOK, SerialOK, Holds
<1>2. Others(r)
  BY DEF Consumed, SavedRefreshed, Revoked, Crashed
<1>3. \A i \in DOMAIN tokens : Exchanged(i, g) => Compatible(tokens[i], grants[g])
  BY DEF SerialOK
<1>4. CASE Unexchanged(g) /\ ~SavedRefreshed(r)
  <2>1. Unexchanged(g)'
    BY <1>4, StillUnexchanged
  <2>2. Holds(r, g)' => HolderOK(r, g)'
    <3>1. CASE Consumed(r) /\ pc'[r] = "saved"
      BY <1>1, <2>1, <3>1 DEF Consumed, GaveUp, HolderOK
    <3>2. CASE Consumed(r) /\ pc'[r] # "saved"
      BY <2>1, <3>2 DEF Consumed, GaveUp, HolderOK, Holds
    <3>3. CASE Revoked(r) \/ Crashed(r)
      BY <3>3 DEF Revoked, Crashed, Holds
    <3> QED
      BY <1>4, <3>1, <3>2, <3>3
  <2> QED
    BY <1>2, <1>4, <2>2, SerialMove DEF Unexchanged
<1>5. CASE SavedRefreshed(r)
  <2>1. /\ View(r).jkt = grants[g].jkt /\ View(r).client = grants[g].client
        /\ RefreshBindingMatches(View(r), View(r).client, req[r].key)
    BY <1>1, <1>5 DEF SavedRefreshed, HolderOK
  <2>2. PICK new : new = Refreshed(r)
    OBVIOUS
  <2>3. \A i \in DOMAIN tokens : Exchanged(i, g) => Compatible(tokens[i], new)
    BY <1>1, <1>3, <2>1, <2>2, RefreshCompatible
  <2>4. grants'[g] = grants[g] \/ grants'[g] = new
    BY <1>1, <1>5, <2>2 DEF SavedRefreshed
  <2>5. Holds(r, g)' => HolderOK(r, g)'
    <3>1. CASE pc'[r] = "saved"
      <4>1. View(r)' = new /\ grants'[g] = new /\ req'[r].op = "refresh"
        BY <1>1, <1>5, <2>2, <3>1 DEF SavedRefreshed
      <4> QED
        BY <3>1, <4>1 DEF HolderOK
    <3>2. CASE pc'[r] # "saved"
      BY <1>5, <3>2 DEF SavedRefreshed, Holds
    <3> QED
      BY <3>1, <3>2
  <2> QED
    BY <1>2, <1>3, <2>3, <2>4, <2>5, SerialMove
<1>6. CASE ~Unexchanged(g) /\ ~SavedRefreshed(r)
  <2>1. Revoked(r) \/ Crashed(r)
    BY <1>1, <1>6 DEF Consumed, HolderOK
  <2>2. View(r).jkt = grants[g].jkt /\ View(r).client = grants[g].client
    BY <1>1, <1>6 DEF HolderOK
  <2>3. PICK new : new = [View(r) EXCEPT !.revoked = TRUE]
    OBVIOUS
  <2>4. new.jkt = grants[g].jkt /\ new.client = grants[g].client
    BY <1>1, <2>2, <2>3 DEF Grant
  <2>5. grants'[g] = grants[g] \/ grants'[g] = new
    BY <1>1, <2>1, <2>3 DEF Revoked, Crashed
  <2>6. \A i \in DOMAIN tokens : Exchanged(i, g) => Compatible(tokens[i], grants'[g])
    BY <1>3, <2>4, <2>5 DEF Compatible
  <2>7. ~Holds(r, g)'
    BY <2>1 DEF Revoked, Crashed, Holds
  <2> QED
    BY <1>2, <2>6, <2>7, SerialMove
<1> QED
  BY <1>4, <1>5, <1>6

\* The goroutine that holds the grant issues a token, or fails to.
LEMMA SerialResponded ==
  ASSUME IInv, NEW r \in Requests, NEW g \in GrantIDs, SerialOK(g), Holds(r, g),
         Alone(g)', Responded(r)
  PROVE  SerialOK(g)'
<1>1. /\ req[r].gid = g /\ HolderOK(r, g) /\ pc[r] = "saved" /\ grants' = grants /\ Others(r)
      /\ View(r).jkt = grants[g].jkt /\ View(r).client = grants[g].client
  BY DEF SerialOK, Holds, HolderOK, Responded
<1>2. Holds(r, g)' => HolderOK(r, g)'
  <2>1. ASSUME Holds(r, g)'
        PROVE  pc'[r] = "revoking" /\ View(r)' = View(r)
    BY <2>1 DEF Holds, Responded, GaveUp
  <2> QED
    BY <1>1, <2>1 DEF HolderOK
<1>3. CASE tokens' = tokens
  <2>1. NoneExchanged(g)
    BY <1>3 DEF NoneExchanged, Exchanged
  <2>2. \A i \in DOMAIN tokens : Exchanged(i, g) => Compatible(tokens[i], grants'[g])
    BY <1>1 DEF SerialOK
  <2> QED
    BY <1>1, <1>2, <2>1, <2>2, SerialMove
<1>4. ASSUME NEW t \in Token, tokens' = Append(tokens, t), t.gid = g, t.via = Via(r),
             t.client = View(r).client, t.jkt = View(r).jkt
      PROVE  SerialOK(g)'
  <2>1. tokens \in Seq(Token) /\ Len(tokens) \in Nat /\ DOMAIN tokens = 1 .. Len(tokens)
    BY DEF IInv, TypeOK
  <2>2. /\ DOMAIN tokens' = 1 .. Len(tokens) + 1
        /\ \A i \in DOMAIN tokens : tokens'[i] = tokens[i]
        /\ tokens'[Len(tokens) + 1] = t
    BY <1>4, <2>1
  <2>3. \A i \in DOMAIN tokens' :
          i = Len(tokens) + 1 \/ (i \in DOMAIN tokens /\ tokens'[i] = tokens[i])
    BY <2>1, <2>2
  <2>4. Compatible(t, grants[g])
    BY <1>1, <1>4 DEF Compatible
  <2>5. \A i \in DOMAIN tokens' : Exchanged(i, g)' => Compatible(tokens'[i], grants'[g])
    BY <1>1, <2>2, <2>3, <2>4 DEF SerialOK, Exchanged
  <2>6. \A i, j \in CodeTokens(g)' : i = j
    <3>1. CASE t.via = "code"
      <4>1. Unexchanged(g)
        BY <1>1, <1>4, <3>1 DEF HolderOK, Via
      <4>2. \A i \in CodeTokens(g)' : i = Len(tokens) + 1
        BY <2>3, <4>1 DEF CodeTokens, Unexchanged, Exchanged
      <4> QED
        BY <4>2
    <3>2. CASE t.via # "code"
      <4>1. CodeTokens(g)' \subseteq CodeTokens(g)
        BY <2>2, <2>3, <3>2 DEF CodeTokens
      <4> QED
        BY <4>1 DEF SerialOK
    <3> QED
      BY <3>1, <3>2
  <2>7. \A s \in Requests : Holds(s, g)' => HolderOK(s, g)'
    <3>1. \A s \in Requests : Holds(s, g)' => s = r
      BY <1>1 DEF SerialOK, Alone, Holds, Others
    <3> QED
      BY <1>2, <3>1
  <2> QED
    BY <2>5, <2>6, <2>7 DEF SerialOK, Compatible
<1> QED
  BY <1>1, <1>3, <1>4 DEF Responded

\* A refreshed code grant stays spent.
LEMMA ExchangedStep ==
  ASSUME IInv, ExchangedInv, [Next]_vars
  PROVE  ExchangedInv'
<1> SUFFICES ASSUME NEW i \in DOMAIN tokens', tokens'[i].via = "refresh",
                    grants'[tokens'[i].gid].kind \in CodeKinds
             PROVE  Spent(grants'[tokens'[i].gid])
  BY DEF ExchangedInv, Spent
<1>1. KeepsGrants
  BY StepKeepsGrants
<1>2. CASE /\ i \in DOMAIN tokens
           /\ tokens'[i].gid = tokens[i].gid /\ tokens'[i].via = tokens[i].via
  <2>1. Exists(tokens[i].gid) /\ tokens[i].gid \in GrantIDs
    <3>1. tokens[i] \in Token
      BY <1>2 DEF IInv, TypeOK
    <3> QED
      BY <1>2, <3>1 DEF Token, IInv, TokensInv
  <2> QED
    BY <1>1, <1>2, <2>1 DEF KeepsGrants, ExchangedInv
<1>3. ASSUME NEW r \in Requests, Responded(r), tokens' # tokens
      PROVE  \/ i \in DOMAIN tokens /\ tokens'[i] = tokens[i]
             \/ Spent(grants'[tokens'[i].gid])
  <2>1. PICK t \in Token : tokens' = Append(tokens, t) /\ t.gid = req[r].gid
    BY <1>3 DEF Responded
  <2>2. tokens \in Seq(Token)
    BY DEF IInv, TypeOK
  <2>3. (i \in DOMAIN tokens /\ tokens'[i] = tokens[i]) \/ tokens'[i] = t
    BY <2>1, <2>2
  <2>4. pc[r] = "saved" /\ grants' = grants
    BY <1>3 DEF Responded
  <2> QED
    BY <2>1, <2>3, <2>4 DEF IInv, WriterInv
<1>4. ASSUME NEW g \in GrantIDs, Created(g)
      PROVE  i \in DOMAIN tokens /\ tokens'[i] = tokens[i]
  BY <1>4 DEF Created
<1> QED
  BY <1>2, <1>3, <1>4, StepForms DEF Waited, Arrived, TokensStay, Consumed, SavedRefreshed,
     Responded, Revoked, Crashed

\* A step after which at most one goroutine is at work on the grant.
LEMMA SerialStep ==
  ASSUME IInv, IInv', ExchangedInv, [Next]_vars, NEW g \in GrantIDs, SerialOK(g), Alone(g)'
  PROVE  SerialOK(g)'
<1>1. TypeOK /\ grants \in [GrantIDs -> Grant]
  BY DEF IInv, TypeOK
<1>2. tokens' = tokens \/ TokensStay => NoneExchanged(g)
  BY DEF TokensStay, NoneExchanged, Exchanged
<1>3. CASE Waited
  BY <1>2, <1>3, SerialFrame DEF Waited, Holds
<1>4. ASSUME NEW h \in GrantIDs, Created(h)
      PROVE  SerialOK(g)'
  <2>1. NoneExchanged(g)
    BY <1>4 DEF Created, NoneExchanged, Exchanged
  <2>2. CASE h # g
    BY <1>4, <2>1, <2>2, SerialFrame DEF Created, Holds
  <2>3. CASE h = g
    <3>1. \A r \in Requests : ~Holds(r, g)'
      BY <1>1, <1>4, <2>3 DEF IInv, RequestInv, Created, Holds, TypeOK
    <3>2. Unexchanged(g)
      BY <1>4, <2>3 DEF IInv, TokensInv, Created, Unexchanged, Exchanged
    <3> QED
      BY <2>1, <3>1, <3>2, SerialKept DEF Unexchanged
  <2> QED
    BY <2>2, <2>3
<1>5. ASSUME NEW r \in Requests, Arrived(r)
      PROVE  SerialOK(g)'
  <2>1. NoneExchanged(g)
    BY <1>2, <1>5 DEF Arrived
  <2>2. CASE ~Holds(r, g)'
    <3>1. \A s \in Requests : Holds(s, g)' => s # r
      BY <2>2
    <3> QED
      BY <1>5, <2>1, <3>1, SerialFrame DEF Arrived, Others, Holds
  <2> QED
    BY <1>5, <2>1, <2>2, SerialArrived
<1>6. ASSUME NEW r \in Requests,
             Consumed(r) \/ SavedRefreshed(r) \/ Responded(r) \/ Revoked(r) \/ Crashed(r),
             ~Holds(r, g)
      PROVE  SerialOK(g)'
  <2>1. Others(r)
    BY <1>6 DEF Consumed, SavedRefreshed, Responded, Revoked, Crashed
  <2>2. pc[r] = "idle" \/ req[r].gid # g
    BY <1>6 DEF Holds
  <2>3. ~Crashed(r) => req[r].gid # g
    BY <1>6, <2>2 DEF Consumed, SavedRefreshed, Responded, Revoked
  <2>4. grants'[g] = grants[g]
    BY <1>1, <1>6, <2>3 DEF Consumed, SavedRefreshed, Responded, Revoked, Crashed
  <2>5. ~Holds(r, g)'
    BY <1>6, <2>3 DEF Consumed, SavedRefreshed, Responded, Revoked, Crashed, GaveUp, Holds
  <2>6. NoneExchanged(g)
    <3>1. CASE Responded(r) /\ tokens' # tokens
      <4>1. PICK t \in Token : tokens' = Append(tokens, t) /\ t.gid = req[r].gid
        BY <3>1 DEF Responded
      <4>2. tokens \in Seq(Token)
        BY <1>1 DEF TypeOK
      <4>3. \A i \in DOMAIN tokens' :
              tokens'[i] = t \/ (i \in DOMAIN tokens /\ tokens'[i] = tokens[i])
        BY <4>1, <4>2
      <4>4. req[r].gid # g
        BY <2>2, <3>1 DEF Responded
      <4> QED
        BY <4>1, <4>3, <4>4 DEF NoneExchanged, Exchanged
    <3> QED
      BY <1>2, <1>6, <3>1 DEF Consumed, SavedRefreshed, Responded, Revoked, Crashed
  <2>7. \A s \in Requests : Holds(s, g)' => s # r
    BY <2>5
  <2> QED
    BY <2>1, <2>4, <2>6, <2>7, SerialFrame DEF Others, Holds
<1>7. ASSUME NEW r \in Requests, Holds(r, g),
             Consumed(r) \/ SavedRefreshed(r) \/ Responded(r) \/ Revoked(r) \/ Crashed(r)
      PROVE  SerialOK(g)'
  <2>1. ~Responded(r) => NoneExchanged(g)
    BY <1>2, <1>7 DEF Consumed, SavedRefreshed, Revoked, Crashed
  <2> QED
    BY <1>7, <2>1, SerialSaved, SerialResponded
<1> QED
  BY <1>3, <1>4, <1>5, <1>6, <1>7, StepForms

\* Both invariants hold together: the history of contention changes no step.
LEMMA SerialInductive ==
  ASSUME IsFiniteSet(Requests)
  PROVE  MCSpec => [](IInv /\ SerialInv)
<1>1. MCInit => IInv /\ ExchangedInv /\ SerialInv
  <2> SUFFICES ASSUME MCInit PROVE IInv /\ ExchangedInv /\ SerialInv
    OBVIOUS
  <2>1. IInv
    BY IInvInit DEF MCInit
  <2>2. tokens = <<>> /\ \A r \in Requests : pc[r] = "idle"
    BY DEF MCInit, Init
  <2> QED
    BY <2>1, <2>2 DEF ExchangedInv, SerialInv, SerialOK, Alone, CodeTokens, Holds
<1>2. IInv /\ ExchangedInv /\ SerialInv /\ [MCNext]_mcvars => (IInv /\ ExchangedInv /\ SerialInv)'
  <2> SUFFICES ASSUME IInv, ExchangedInv, SerialInv, [MCNext]_mcvars
               PROVE  (IInv /\ ExchangedInv /\ SerialInv)'
    OBVIOUS
  <2>1. [Next]_vars
    BY DEF MCNext, mcvars
  <2>2. IInv' /\ ExchangedInv'
    BY <2>1, IInvStep, ExchangedStep
  <2>3. ASSUME NEW g \in GrantIDs \ contended'
        PROVE  SerialOK(g)'
    <3>1. g \notin contended /\ SerialOK(g)
      BY <2>3 DEF SerialInv, MCNext, mcvars
    <3>2. Alone(g)'
      <4>1. CASE MCNext
        <5>1. ~Overlapping(g)'
          BY <2>3, <4>1 DEF MCNext
        <5>2. (~Overlapping(g) => Alone(g))'
          BY OverlapCounted, PTL
        <5> QED
          BY <5>1, <5>2
      <4>2. CASE UNCHANGED mcvars
        BY <3>1, <4>2 DEF mcvars, vars, SerialOK, Alone, Holds
      <4> QED
        BY <4>1, <4>2
    <3> QED
      BY <2>1, <2>2, <3>1, <3>2, SerialStep
  <2> QED
    BY <2>2, <2>3 DEF SerialInv
<1> QED
  BY <1>1, <1>2, PTL DEF MCSpec

\* When the requests for a grant are served one after the other, its code
\* yields at most one access token, whatever fails or crashes.
THEOREM OneTokenPerCode ==
  ASSUME IsFiniteSet(Requests)
  PROVE  MCSpec => []RedeemedAtMostOnceSerially
<1>1. IInv /\ SerialInv => RedeemedAtMostOnceSerially
  <2> SUFFICES ASSUME IInv, SerialInv, NEW g \in GrantIDs \ contended
               PROVE  Cardinality(CodeTokens(g)) <= 1
    BY DEF RedeemedAtMostOnceSerially
  <2>1. \A i, j \in CodeTokens(g) : i = j
    BY DEF SerialInv, SerialOK
  <2>2. CASE CodeTokens(g) = {}
    BY <2>2, FS_EmptySet
  <2>3. CASE CodeTokens(g) # {}
    <3>1. PICK i : i \in CodeTokens(g)
      BY <2>3
    <3>2. CodeTokens(g) = {i}
      BY <2>1, <3>1
    <3>3. Cardinality({i}) = 1
      BY FS_Singleton
    <3> QED
      BY <3>2, <3>3
  <2> QED
    BY <2>2, <2>3
<1> QED
  BY <1>1, SerialInductive, PTL

\* When the requests for a grant are served one after the other, the tokens of
\* its refreshes keep the binding of its code's token.
THEOREM BindingKept ==
  ASSUME IsFiniteSet(Requests)
  PROVE  MCSpec => []BindingContinuitySerially
<1>1. IInv /\ SerialInv => BindingContinuitySerially
  <2> SUFFICES ASSUME IInv, SerialInv, NEW i \in DOMAIN tokens, NEW j \in DOMAIN tokens,
                      tokens[i].gid = tokens[j].gid, tokens[i].gid \notin contended,
                      tokens[i].via = "code", tokens[j].via = "refresh"
               PROVE  /\ (tokens[i].jkt = NoKey) <=> (tokens[j].jkt = NoKey)
                      /\ tokens[i].client \in PublicClients => tokens[i].jkt = tokens[j].jkt
    BY DEF BindingContinuitySerially
  <2>1. tokens[i].gid \in GrantIDs
    <3>1. tokens[i] \in Token
      BY DEF IInv, TypeOK
    <3> QED
      BY <3>1 DEF Token
  <2>2. /\ Compatible(tokens[i], grants[tokens[i].gid])
        /\ Compatible(tokens[j], grants[tokens[i].gid])
    BY <2>1 DEF SerialInv, SerialOK, Exchanged
  <2> QED
    BY <2>2 DEF Compatible
<1> QED
  BY <1>1, SerialInductive, PTL
=============================================================================
