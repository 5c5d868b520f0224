------------------------- MODULE HumanRefreshDelivery -------------------------
(***************************************************************************)
(* The recoverable delivery of refresh tokens to strict human clients      *)
(* (internal/token/human_refresh_delivery.go).  The client invents the     *)
(* successor of its refresh token and a receipt, prepares the delivery,    *)
(* activates it, or aborts it.  Every state transition is an atomic call   *)
(* of the embedder's authority; what the provider does before and after    *)
(* that call, and the network, can fail, and the client repeats itself.    *)
(*                                                                         *)
(* One family of refresh tokens is modelled, with its client.  A receipt   *)
(* belongs to its successor, so the successor stands for both.             *)
(***************************************************************************)
EXTENDS Integers, FiniteSets

CONSTANTS
  Tokens,       \* values of refresh tokens
  First,        \* the token the family began with
  None,         \* no token
  Requests,     \* goroutines that serve requests
  Skew,         \* JWTLeewayTimeSecs
  PendingLife,  \* maxHumanRefreshDeliveryLifetime, and what the authority gives
  DecisionLife, \* lifetime of an issuance snapshot
  FamilyLife,   \* humanTokenMaximumRefreshLife, and what the family got
  MaxTime,      \* bound of the clock
  MaxFaults     \* bound of the failures

ASSUME DeliveryAssumption ==
  /\ First \in Tokens /\ None \notin Tokens
  /\ Skew \in Nat /\ MaxTime \in Nat /\ MaxFaults \in Nat
  /\ PendingLife \in Nat \ {0} /\ DecisionLife \in Nat \ {0} /\ FamilyLife \in Nat \ {0}

VARIABLES
  now,       \* clock of the authority
  drift,     \* how far the clock of the provider is ahead of it
  active,    \* the active refresh token of the family
  delivery,  \* the delivery of each successor, in the authority's store
  revoked,   \* was the family revoked?
  current,   \* the client's refresh token
  successor, \* the successor the client keeps, or None
  phase,     \* what the client is trying to do with it
  acked,     \* was the client told that the family is revoked?
  pc,        \* the goroutines
  req,       \* their requests
  decision,  \* what the authority answered
  faults     \* failures so far

authority == <<active, delivery, revoked>>
client == <<current, successor, phase, acked>>
handlers == <<pc, req, decision>>
vars == <<now, drift, authority, client, handlers, faults>>

Start == Skew + 1
Deadline == Start + FamilyLife
ProviderNow == now + drift

Operations == {"prepare", "activate", "abort", "revoke"}
Phases == {"idle", "prepare", "activate", "abort", "recover"}
Statuses == {"unknown", "pending", "activated", "aborted"}
Delivery == [status : Statuses, pred : Tokens \cup {None}, created : Nat]
Request == [op : Operations, pred : Tokens, token : Tokens, late : BOOLEAN]
Decision == [outcome : {"none", "rejected", "delivery_pending", "activated",
                        "aborted", "activated_conflict", "revoked"},
             created : Nat, expires : Nat]

NoRequest == [op |-> "abort", pred |-> First, token |-> First, late |-> FALSE]
Undecided == [outcome |-> "none", created |-> 0, expires |-> 0]
Outcome(outcome) == [Undecided EXCEPT !.outcome = outcome]
Rejected == Outcome("rejected")
Decided(outcome, created, life) ==
  [outcome |-> outcome, created |-> created, expires |-> created + life]

-----------------------------------------------------------------------------
(* The authority: its methods as pkg/goidc/human_authorization.go asks for *)
(* them, and as the tests implement them.                                  *)

Decide(r, d) == decision' = [decision EXCEPT ![r] = d]

Live == ~revoked /\ now < Deadline
PendingNow(t) == delivery[t].status = "pending" /\ now < delivery[t].created + PendingLife

\* An exact replay answers with what became of the delivery, and with the
\* original timestamps.
Replayed(t) ==
  CASE PendingNow(t) -> Decided("delivery_pending", delivery[t].created, PendingLife)
    [] delivery[t].status = "activated" -> Decided("activated", delivery[t].created, PendingLife)
    [] delivery[t].status = "aborted" -> Decided("aborted", delivery[t].created, PendingLife)
    [] OTHER -> Rejected

\* The predecessor stays active. Whether a second successor is admitted while
\* another one is pending is left to the authority.
PrepareHumanRefreshDelivery(r, p, t) ==
  \/ /\ delivery[t].pred = p
     /\ Decide(r, IF revoked THEN Rejected ELSE Replayed(t))
     /\ UNCHANGED authority
  \/ /\ delivery[t].status = "unknown" /\ Live /\ p = active
     /\ delivery' = [delivery EXCEPT ![t] = [status |-> "pending", pred |-> p, created |-> now]]
     /\ Decide(r, Decided("delivery_pending", now, PendingLife))
     /\ UNCHANGED <<active, revoked>>
  \/ /\ delivery[t].pred # p
     /\ \/ delivery[t].status # "unknown" \/ ~Live \/ p # active
        \/ \E u \in Tokens \ {t} : PendingNow(u)
     /\ Decide(r, Rejected)
     /\ UNCHANGED authority

\* Promotes the successor and rotates its predecessor in one step; an exact
\* replay revalidates and answers with a fresh snapshot.
ActivateHumanRefreshDelivery(r, t) ==
  \/ /\ Live /\ PendingNow(t) /\ delivery[t].pred = active
     /\ active' = t
     /\ delivery' = [delivery EXCEPT ![t].status = "activated"]
     /\ Decide(r, Decided("activated", now, DecisionLife))
     /\ UNCHANGED revoked
  \/ /\ Live /\ delivery[t].status = "activated" /\ active = t
     /\ Decide(r, Decided("activated", now, DecisionLife))
     /\ UNCHANGED authority
  \/ /\ \/ ~Live
        \/ ~ \/ PendingNow(t) /\ delivery[t].pred = active
             \/ delivery[t].status = "activated" /\ active = t
     /\ Decide(r, Rejected)
     /\ UNCHANGED authority

\* Abandons a pending successor for good and never rolls back an activation.
AbortHumanRefreshDelivery(r, t) ==
  \/ /\ PendingNow(t)
     /\ delivery' = [delivery EXCEPT ![t].status = "aborted"]
     /\ Decide(r, Outcome("aborted"))
     /\ UNCHANGED <<active, revoked>>
  \/ /\ ~PendingNow(t)
     /\ Decide(r, CASE delivery[t].status = "activated" -> Outcome("activated_conflict")
                    [] delivery[t].status = "aborted" -> Outcome("aborted")
                    [] OTHER -> Rejected)
     /\ UNCHANGED authority

\* The family of any token that was ever active is revoked; the answer does
\* not depend on the state of the token.
RevokeRefreshToken(r, t) ==
  /\ revoked' = (revoked \/ t = First \/ delivery[t].status = "activated")
  /\ Decide(r, Outcome("revoked"))
  /\ UNCHANGED <<active, delivery>>

AuthorityCall(r) ==
  \/ req[r].op = "prepare" /\ PrepareHumanRefreshDelivery(r, req[r].pred, req[r].token)
  \/ req[r].op = "activate" /\ ActivateHumanRefreshDelivery(r, req[r].token)
  \/ req[r].op = "abort" /\ AbortHumanRefreshDelivery(r, req[r].token)
  \/ req[r].op = "revoke" /\ RevokeRefreshToken(r, req[r].token)

-----------------------------------------------------------------------------
(* What the provider makes of a decision. *)

\* Mutant: the skew is taken from the lifetime instead of added to it.
humanAuthorityTimestampNotExpired_Strict(expiresAt) == expiresAt > ProviderNow + Skew

\* humanAuthorityTimestampNotExpired.
humanAuthorityTimestampNotExpired(expiresAt) ==
  \/ expiresAt > ProviderNow
  \/ Skew > 0 /\ ProviderNow - expiresAt <= Skew

\* validHumanAuthorityDecisionWindow; expiresAt > createdAt by construction.
validHumanAuthorityDecisionWindow(d) ==
  /\ d.created > ProviderNow => d.created - ProviderNow <= Skew
  /\ humanAuthorityTimestampNotExpired(d.expires)

\* validHumanRefreshDeliveryPrepareDecision.
validHumanRefreshDeliveryPrepareDecision(d) ==
  /\ d.created <= ProviderNow + Skew
  /\ d.outcome = "delivery_pending" => humanAuthorityTimestampNotExpired(d.expires)

\* Mutant: the lifetime on the wire is not clamped from above.
PendingExpiresIn_Unclamped(expiresAt) ==
  IF expiresAt <= ProviderNow THEN 1 ELSE expiresAt - ProviderNow

\* expires_in of a pending delivery.
PendingExpiresIn(expiresAt) ==
  CASE expiresAt - ProviderNow < 1 -> 1
    [] expiresAt - ProviderNow > PendingLife -> PendingLife
    [] OTHER -> expiresAt - ProviderNow

\* humanRefreshTokenRemainingLifetime, 0 where it reports an invalid lifetime.
humanRefreshTokenRemainingLifetime(expiresAt) ==
  CASE expiresAt <= ProviderNow /\ (Skew = 0 \/ ProviderNow - expiresAt > Skew) -> 0
    [] expiresAt <= ProviderNow /\ Skew # 0 /\ ProviderNow - expiresAt <= Skew -> 1
    [] expiresAt - ProviderNow > FamilyLife -> FamilyLife
    [] OTHER -> expiresAt - ProviderNow

\* prepareHumanRefreshDelivery after the authority's answer.
PrepareAnswer(d) ==
  IF d.outcome = "rejected" THEN "invalid_grant"
  ELSE IF validHumanRefreshDeliveryPrepareDecision(d) THEN d.outcome ELSE "server_error"

\* activateHumanRefreshDelivery after the authority's answer.
ActivateAnswer(d) ==
  IF d.outcome = "rejected" THEN "invalid_grant"
  ELSE IF /\ humanAuthorityTimestampNotExpired(Deadline)
          /\ validHumanAuthorityDecisionWindow(d)
          /\ humanRefreshTokenRemainingLifetime(Deadline) > 0
       THEN "tokens" ELSE "server_error"

\* Mutant: the conflict is reported like an abort.
AbortAnswer_NoConflict(d) == IF d.outcome = "rejected" THEN "invalid_grant" ELSE "aborted"

\* abortHumanRefreshDelivery after the authority's answer.
AbortAnswer(d) == IF d.outcome = "rejected" THEN "invalid_grant" ELSE d.outcome

Answer(r, d) ==
  CASE r.op = "prepare" -> PrepareAnswer(d)
    [] r.op = "activate" -> ActivateAnswer(d)
    [] r.op = "abort" -> AbortAnswer(d)
    [] r.op = "revoke" -> "revoked"

-----------------------------------------------------------------------------
(* The client, as README.md asks it to behave: it keeps its token and the   *)
(* successor until it was told tokens or an abort.                          *)

\* It begins a delivery.
Begin ==
  /\ successor = None
  /\ \E t \in Tokens :
       /\ delivery[t].status = "unknown" /\ t # First
       /\ \A r \in Requests : pc[r] # "idle" => req[r].token # t
       /\ successor' = t
  /\ phase' = "prepare"
  /\ UNCHANGED <<now, drift, authority, current, acked, handlers, faults>>

\* It changes its mind, unless it knows that the delivery was activated.
GiveUp ==
  /\ phase \in {"prepare", "activate"}
  /\ phase' = "abort"
  /\ UNCHANGED <<now, drift, authority, current, successor, acked, handlers, faults>>

OperationOf(p) == IF p = "recover" THEN "activate" ELSE p

\* It sends, or sends again, the request of its phase. The form, the client
\* assertion and the sealed input are checked before the authority is called;
\* a request that fails there is one the network lost.
Send(r) ==
  /\ pc[r] = "idle" /\ successor # None
  /\ pc' = [pc EXCEPT ![r] = "call"]
  /\ req' = [req EXCEPT ![r] = [op |-> OperationOf(phase), pred |-> current,
                                token |-> successor, late |-> acked]]
  /\ UNCHANGED <<now, drift, authority, client, decision, faults>>

\* It logs the user out, with the token it holds.
SendRevoke(r) ==
  /\ pc[r] = "idle" /\ ~acked
  /\ \A s \in Requests : pc[s] # "idle" => req[s].op # "revoke"
  /\ pc' = [pc EXCEPT ![r] = "call"]
  /\ req' = [req EXCEPT ![r] = [op |-> "revoke", pred |-> current,
                                token |-> current, late |-> acked]]
  /\ UNCHANGED <<now, drift, authority, client, decision, faults>>

\* It settles when it is told tokens or an abort, or that the authority has
\* no pending delivery to abort. An answer about an older successor changes
\* nothing.
Receive(r, answer) ==
  IF r.op = "revoke" THEN acked' = TRUE /\ UNCHANGED <<current, successor, phase>>
  ELSE /\ UNCHANGED acked
       /\ LET mine == r.token = successor IN
          CASE mine /\ answer = "tokens" ->
                 current' = successor /\ successor' = None /\ phase' = "idle"
            [] mine /\ (answer = "aborted" \/ (answer = "invalid_grant" /\ r.op = "abort")) ->
                 current' = current /\ successor' = None /\ phase' = "idle"
            [] mine /\ answer \in {"activated", "activated_conflict"} ->
                 phase' = "recover" /\ UNCHANGED <<current, successor>>
            [] mine /\ answer = "delivery_pending" /\ phase = "prepare" ->
                 phase' = "activate" /\ UNCHANGED <<current, successor>>
            [] mine /\ answer = "invalid_grant" /\ phase = r.op ->
                 phase' = "abort" /\ UNCHANGED <<current, successor>>
            [] OTHER -> UNCHANGED <<current, successor, phase>>

-----------------------------------------------------------------------------
(* The handlers. *)

Return(r) ==
  /\ pc' = [pc EXCEPT ![r] = "idle"]
  /\ req' = [req EXCEPT ![r] = NoRequest]
  /\ Decide(r, Undecided)

Fault == faults < MaxFaults /\ faults' = faults + 1

\* callHumanAuthorizationAuthority and HumanRevokeRefreshToken: the only
\* state transition of the request.
Call(r) ==
  /\ pc[r] = "call"
  /\ pc' = [pc EXCEPT ![r] = "decided"]
  /\ AuthorityCall(r)
  /\ UNCHANGED <<now, drift, client, req, faults>>

\* Mutant: a failed revocation is acknowledged.
CallFails_Acknowledged(r) ==
  /\ pc[r] = "call" /\ Fault /\ Return(r)
  /\ UNCHANGED authority
  /\ IF req[r].op = "revoke" THEN Receive(req[r], "revoked") ELSE UNCHANGED client
  /\ UNCHANGED <<now, drift>>

\* The request is lost on its way, or the authority fails without a
\* transition: the client is told server_error or nothing at all.
CallFails(r) ==
  /\ pc[r] = "call" /\ Fault /\ Return(r)
  /\ UNCHANGED <<now, drift, authority, client>>

\* The decision is checked, the access token signed and the response sent.
Respond(r) ==
  /\ pc[r] = "decided" /\ Return(r)
  /\ Receive(req[r], Answer(req[r], decision[r]))
  /\ UNCHANGED <<now, drift, authority, faults>>

\* The authority reports an error, panics or overruns the request's context
\* after its transition, signing fails, or the response is lost.
RespondFails(r) ==
  /\ pc[r] = "decided" /\ Fault /\ Return(r)
  /\ UNCHANGED <<now, drift, authority, client>>

Tick ==
  /\ now < MaxTime /\ now' = now + 1
  /\ UNCHANGED <<drift, authority, client, handlers, faults>>

Init ==
  /\ now = Start /\ drift \in -Skew..Skew
  /\ active = First /\ revoked = FALSE
  /\ delivery = [t \in Tokens |-> [status |-> "unknown", pred |-> None, created |-> 0]]
  /\ current = First /\ successor = None /\ phase = "idle" /\ acked = FALSE
  /\ pc = [r \in Requests |-> "idle"]
  /\ req = [r \in Requests |-> NoRequest]
  /\ decision = [r \in Requests |-> Undecided]
  /\ faults = 0

Serve(r) == Call(r) \/ CallFails(r) \/ Respond(r) \/ RespondFails(r)

Next ==
  \/ Begin \/ GiveUp \/ Tick
  \/ \E r \in Requests : Send(r) \/ SendRevoke(r) \/ Serve(r)

Spec == Init /\ [][Next]_vars

\* Goroutines run on, and a client that has not settled goes on asking.
FairSpec ==
  /\ Spec
  /\ \A r \in Requests : WF_vars(Serve(r))
  /\ SF_vars(\E r \in Requests : Send(r))

-----------------------------------------------------------------------------
(* Properties. *)

TypeOK ==
  /\ now \in Nat /\ drift \in Int /\ faults \in Nat
  /\ active \in Tokens /\ revoked \in BOOLEAN
  /\ delivery \in [Tokens -> Delivery]
  /\ current \in Tokens /\ successor \in Tokens \cup {None}
  /\ phase \in Phases /\ acked \in BOOLEAN
  /\ pc \in [Requests -> {"idle", "call", "decided"}]
  /\ req \in [Requests -> Request]
  /\ decision \in [Requests -> Decision]

\* Whatever is lost, repeated, answered late or aborted while an activation is
\* under way, the active refresh token of the family is one the client keeps:
\* its own or the successor it has not settled. (Signing comes after the
\* activation, and a conflict is told apart from an abort.)
NeverLockedOut == active \in {current, successor}

\* Once the client was told that its family is revoked, no request it sends
\* afterwards gets as far as signing tokens (revoke reports the failures of
\* the authority).
NoTokensAfterRevocation ==
  \A r \in Requests : pc[r] = "decided" /\ req[r].late => decision[r].outcome # "activated"

\* Whatever the clocks of provider and authority say within the skew, and
\* however long the handler took, a lifetime on the wire is positive, within
\* the limits of its kind, and promises no more than the authority's deadline
\* and twice the skew.
WireLifetimes ==
  LET Promise(expiresIn, limit, expiresAt) ==
        expiresIn \in 1..limit /\ now + expiresIn <= expiresAt + 2 * Skew + 1
  IN \A r \in Requests : pc[r] = "decided" =>
       LET answer == Answer(req[r], decision[r]) IN
       /\ answer = "delivery_pending" =>
            Promise(PendingExpiresIn(decision[r].expires), PendingLife, decision[r].expires)
       /\ answer = "tokens" =>
            Promise(humanRefreshTokenRemainingLifetime(Deadline), FamilyLife, Deadline)

\* A client that goes on asking settles every delivery it began: it gets
\* tokens or an abort, unless the family ends; failures, lost responses and
\* clocks that disagree by the skew do not stop it.
DeliveriesSettle == successor # None ~> (successor = None \/ ~Live)
=============================================================================
