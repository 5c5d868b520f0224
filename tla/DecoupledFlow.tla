---------------------------- MODULE DecoupledFlow ----------------------------
(***************************************************************************)
(* The flows in which the user is not at the client: the device grant and  *)
(* CIBA (poll, ping and push delivery).  The client opens a request and    *)
(* gets a handle (device_code, auth_req_id); the user approves or denies it *)
(* elsewhere (internal/authorize/device.go, GrantCIBARequest,              *)
(* DenyCIBARequest); meanwhile the client polls the token endpoint, or is  *)
(* notified.                                                               *)
(*                                                                         *)
(* The approving goroutines call the manager, the policy and the client's  *)
(* notification endpoint one after the other; a poll looks the grant up,   *)
(* then either the session, or saves the grant as consumed, issues and, if *)
(* anything failed, revokes.  Each of these calls is an action, so polls   *)
(* of one handle overlap.  SharedRecords says, as in TokenEndpoint,        *)
(* whether a lookup returns the stored grant or a copy; nothing is evicted *)
(* here.                                                                   *)
(***************************************************************************)
EXTENDS Naturals, Sequences, FiniteSets

CONSTANTS
  Handles,          \* device codes and auth_req_ids
  Approvers,        \* goroutines of the verification page and the embedder
  Pollers,          \* goroutines of the token endpoint
  Modes,            \* the kinds of request the instance exercises
  RequestLifetime,  \* DeviceAuthLifetimeSecs, the CIBA request's lifetime
  SharedRecords,    \* a lookup returns the stored grant, not a copy
  Failures,         \* may callbacks, storage and notifications fail?
  MaxTime, MaxGrants, MaxTokens  \* bounds of the instance

CIBAModes == {"poll", "ping", "push"}

ASSUME FlowAssumption ==
  /\ Handles # {} /\ Modes \subseteq CIBAModes \cup {"device"}
  /\ RequestLifetime \in Nat
  /\ SharedRecords \in BOOLEAN /\ Failures \in BOOLEAN
  /\ IsFiniteSet(Approvers) /\ IsFiniteSet(Pollers) /\ Approvers \cap Pollers = {}
  /\ MaxTime \in Nat /\ MaxGrants \in Nat /\ MaxTokens \in Nat

VARIABLES
  now,
  sessions,  \* the session of each handle
  grants,    \* grants in the order of their creation
  tokens,    \* access tokens in the order of their creation
  deadline,  \* when the handle expires, as the client was told
  ready,     \* handles whose approval was announced (ping, confirmation page)
  settled,   \* handles whose client was told something final
  pc, job,   \* where each goroutine is, and on which handle it works
  held       \* the grant that a poll found

vars == <<now, sessions, grants, tokens, deadline, ready, settled, pc, job, held>>

Session == [mode: CIBAModes \cup {"device", "none"},
            status: {"pending", "success", "failure"}, expiresAt: Nat]

NoSession == [mode |-> "none", status |-> "pending", expiresAt |-> 0]

Grant == [handle: Handles, expiresAt: Nat, consumed: BOOLEAN, revoked: BOOLEAN]
NoGrant == [handle |-> CHOOSE h \in Handles : TRUE, expiresAt |-> 0,
            consumed |-> FALSE, revoked |-> FALSE]

\* at is the time at which the request for the token was accepted.
Token == [handle: Handles, via: {"poll", "push"}, at: Nat]

Answers == {"tokens", "authorization_pending", "access_denied", "expired_token",
            "invalid_grant", "server_error"}

\* announced: the approval had been announced when the goroutine started.
Job == [handle: Handles, own: BOOLEAN, announced: BOOLEAN]
NoJob == [handle |-> CHOOSE h \in Handles : TRUE, own |-> FALSE, announced |-> FALSE]

\* grant is the position of the grant, at when the request was accepted, answer
\* what the client is told if the grant is revoked; NoHold before and after.
Hold == [grant: Nat, copy: Grant, at: Nat, answer: Answers]
NoHold == [grant |-> 0, copy |-> NoGrant, at |-> 0, answer |-> "server_error"]

Start(p, where, h, own) ==
  /\ pc[p] = "idle"
  /\ pc' = [pc EXCEPT ![p] = where]
  /\ job' = [job EXCEPT ![p] = [handle |-> h, own |-> own, announced |-> h \in ready]]

Goto(p, where) == pc' = [pc EXCEPT ![p] = where] /\ UNCHANGED job

Stop(p) ==
  /\ pc' = [pc EXCEPT ![p] = "idle"]
  /\ job' = [job EXCEPT ![p] = NoJob]

SetStatus(h, status) == sessions' = [sessions EXCEPT ![h].status = status]

\* The client that owns the handle gets an answer; after the first two it asks
\* again.
Tell(h, own, answer) ==
  settled' = IF own /\ answer \notin {"authorization_pending", "server_error"}
             THEN settled \cup {h} ELSE settled

GrantsOf(h) == {i \in DOMAIN grants : grants[i].handle = h}

RoomForGrant == Len(grants) + Cardinality({a \in Approvers : pc[a] # "idle"}) < MaxGrants

-----------------------------------------------------------------------------
(* Opening a request: initDeviceAuth, initBackAuth.                         *)

Open(h, mode) ==
  /\ now + RequestLifetime <= MaxTime  \* the instance sees the deadline
  /\ sessions[h].mode = "none"
  /\ sessions' = [sessions EXCEPT ![h] =
       [mode |-> mode, status |-> "pending", expiresAt |-> now + RequestLifetime]]
  /\ deadline' = [deadline EXCEPT ![h] = now + RequestLifetime]
  /\ UNCHANGED <<now, grants, tokens, ready, settled, pc, job, held>>

-----------------------------------------------------------------------------
(* The device verification page: initDeviceAuthVerification,                *)
(* continueDeviceAuthVerification and authenticateDevice.                   *)

\* The session is found by its user code or by its ID, and has not expired.
\* Nothing asks whether an earlier visit already ended it.
BeginVerify(a, h) ==
  /\ RoomForGrant
  /\ sessions[h].mode = "device"
  /\ now < sessions[h].expiresAt
  /\ Start(a, "authenticating", h, FALSE)
  /\ UNCHANGED <<now, sessions, grants, tokens, deadline, ready, settled, held>>

\* Mutant: the confirmation page is rendered before there is a grant.
AuthenticateDevice_AnnouncesFirst(a) ==
  /\ pc[a] = "authenticating"
  /\ SetStatus(job[a].handle, "success") /\ Goto(a, "announcing")
  /\ UNCHANGED <<now, grants, tokens, deadline, ready, settled, held>>

\* The policy decides; its decision is saved before anything else is done.
AuthenticateDevice(a) ==
  /\ pc[a] = "authenticating"
  /\ \/ SetStatus(job[a].handle, "success") /\ Goto(a, "granting")
     \/ SetStatus(job[a].handle, "pending") /\ Stop(a)
     \/ SetStatus(job[a].handle, "failure") /\ Stop(a)
     \/ Failures /\ UNCHANGED sessions /\ Stop(a)
  /\ UNCHANGED <<now, grants, tokens, deadline, ready, settled, held>>

-----------------------------------------------------------------------------
(* The embedder resolves a CIBA request: GrantCIBARequest, DenyCIBARequest. *)

\* Mutant: a request that has a grant can be approved again.
BeginApprove_Again(a, h) ==
  /\ RoomForGrant
  /\ sessions[h].mode \in CIBAModes
  /\ Start(a, "approving", h, FALSE)
  /\ UNCHANGED <<now, sessions, grants, tokens, deadline, ready, settled, held>>

\* GrantByAuthReqID must find nothing.
BeginApprove(a, h) ==
  /\ RoomForGrant
  /\ sessions[h].mode \in CIBAModes
  /\ GrantsOf(h) = {}
  /\ Start(a, "approving", h, FALSE)
  /\ UNCHANGED <<now, sessions, grants, tokens, deadline, ready, settled, held>>

\* The session is loaded; the approval of an expired one is a denial.
LoadApproved(a) ==
  /\ pc[a] = "approving"
  /\ Goto(a, IF now >= sessions[job[a].handle].expiresAt THEN "denying" ELSE "granting")
  /\ UNCHANGED <<now, sessions, grants, tokens, deadline, ready, settled, held>>

BeginDeny(a, h) ==
  /\ sessions[h].mode \in CIBAModes
  /\ Start(a, "denying", h, FALSE)
  /\ UNCHANGED <<now, sessions, grants, tokens, deadline, ready, settled, held>>

\* The notification of a denial, in ping and push mode, changes nothing here.
Deny(a) ==
  /\ pc[a] = "denying"
  /\ SetStatus(job[a].handle, "failure") \/ (Failures /\ UNCHANGED sessions)
  /\ Stop(a)
  /\ UNCHANGED <<now, grants, tokens, deadline, ready, settled, held>>

-----------------------------------------------------------------------------
(* An approval becomes a grant.                                             *)

\* Mutant: the grant gets a window of its own.
CreateGrant_NewWindow(a) ==
  /\ pc[a] = "granting"
  /\ grants' = Append(grants, [handle |-> job[a].handle, expiresAt |-> now + RequestLifetime,
                               consumed |-> FALSE, revoked |-> FALSE])
  /\ Stop(a)
  /\ UNCHANGED <<now, sessions, tokens, deadline, ready, settled, held>>

\* NewGrant. The grant keeps the deadline of the handle; a pushed auth_req_id
\* is born consumed.
CreateGrant(a) ==
  LET h == job[a].handle
      session == sessions[h] IN
  /\ pc[a] = "granting"
  /\ \/ /\ grants' = Append(grants,
             [handle |-> h, expiresAt |-> session.expiresAt,
              consumed |-> session.mode = "push", revoked |-> FALSE])
        /\ Goto(a, IF session.mode = "device" THEN "announcing" ELSE "resolving")
     \/ Failures /\ UNCHANGED grants /\ Stop(a)
  /\ UNCHANGED <<now, sessions, tokens, deadline, ready, settled, held>>

\* CIBA marks the session after the grant exists.
Resolve(a) ==
  LET h == job[a].handle IN
  /\ pc[a] = "resolving"
  /\ \/ /\ SetStatus(h, "success")
        /\ IF sessions[h].mode = "poll" THEN Stop(a) ELSE Goto(a, "announcing")
     \/ Failures /\ UNCHANGED sessions /\ Stop(a)
  /\ UNCHANGED <<now, grants, tokens, deadline, ready, settled, held>>

\* The confirmation page (device), sendClientNotification (ping), or Issue and
\* sendClientNotification (push). The notification may be lost; the token of a
\* lost push exists all the same.
Announce(a) ==
  LET h == job[a].handle
      push == sessions[h].mode = "push"
      pushed == Append(tokens, [handle |-> h, via |-> "push", at |-> now]) IN
  /\ pc[a] = "announcing"
  /\ Stop(a)
  /\ \/ /\ ~push /\ ready' = ready \cup {h}
        /\ UNCHANGED <<tokens, settled>>
     \/ /\ push /\ Len(tokens) < MaxTokens
        /\ tokens' = pushed
        /\ Tell(h, TRUE, "tokens") \/ (Failures /\ UNCHANGED settled)
        /\ UNCHANGED ready
     \/ /\ Failures
        /\ UNCHANGED <<tokens, ready, settled>>
  /\ UNCHANGED <<now, sessions, grants, deadline, held>>

-----------------------------------------------------------------------------
(* Polling: generateDeviceCodeToken, generateCIBAToken.                     *)

\* The grant the poll's pointer leads to.
View(p) == IF SharedRecords THEN grants[held[p].grant] ELSE held[p].copy

SaveGrant(p, grant) == grants' = [grants EXCEPT ![held[p].grant] = grant]

\* The poll goes on with the grant it holds, or ends.
Keep(p, grant, answer) ==
  held' = [held EXCEPT ![p].copy = IF SharedRecords THEN NoGrant ELSE grant,
                       ![p].answer = answer]
Drop(p) == held' = [held EXCEPT ![p] = NoHold]

RoomForToken ==
  Len(tokens) + Cardinality({p \in Pollers : pc[p] \in {"redeeming", "issuing"}}) < MaxTokens

\* ok stands for the checks on the request's grant type, scopes, resources and
\* details.
Redeemable(grant, own, ok) ==
  /\ now < grant.expiresAt
  /\ ~grant.consumed
  /\ sessions[grant.handle].mode # "push"
  /\ own /\ ok

\* The grant is found. A revoked one is answered at once; one that the request
\* may not redeem is revoked.
PollGranted(p, h, i, own, ok) ==
  /\ i \in GrantsOf(h)
  /\ \/ /\ grants[i].revoked
        /\ pc[p] = "idle"
        /\ Tell(h, own, "expired_token")
        /\ UNCHANGED <<pc, job, held>>
     \/ /\ ~grants[i].revoked
        /\ IF Redeemable(grants[i], own, ok)
           THEN RoomForToken /\ Start(p, "redeeming", h, own)
           ELSE Start(p, "revoking", h, own)
        /\ held' = [held EXCEPT ![p] =
             [grant |-> i, copy |-> IF SharedRecords THEN NoGrant ELSE grants[i],
              at |-> now,
              answer |-> IF now >= grants[i].expiresAt THEN "expired_token" ELSE "invalid_grant"]]
        /\ UNCHANGED settled
  /\ UNCHANGED <<now, sessions, grants, tokens, deadline, ready>>

\* The handle is marked consumed and the grant saved ...
ConsumeHandle(p) ==
  LET grant == [View(p) EXCEPT !.consumed = TRUE] IN
  /\ pc[p] = "redeeming"
  /\ SaveGrant(p, grant) /\ Keep(p, grant, held[p].answer)
  /\ Goto(p, "issuing")
  /\ UNCHANGED <<now, sessions, tokens, deadline, ready, settled>>

\* ... Issue appends an access token ...
Issue(p) == tokens' = Append(tokens, [handle |-> job[p].handle, via |-> "poll", at |-> held[p].at])

IssueAndRespond(p) ==
  /\ pc[p] = "issuing"
  /\ Issue(p)
  /\ Tell(job[p].handle, job[p].own, "tokens")
  /\ Stop(p) /\ Drop(p)
  /\ UNCHANGED <<now, sessions, grants, deadline, ready>>

\* ... and an error after the grant was loaded revokes the grant.
RevokeGrant(p) ==
  /\ pc[p] = "revoking"
  /\ SaveGrant(p, [View(p) EXCEPT !.revoked = TRUE])
  /\ Tell(job[p].handle, job[p].own, held[p].answer)
  /\ Stop(p) /\ Drop(p)
  /\ UNCHANGED <<now, sessions, tokens, deadline, ready>>

\* SaveGrant fails, which the in-memory manager never does; Issue fails; or the
\* ID token does, when the access token already exists.
PollFails(p) ==
  /\ Failures
  /\ \/ /\ pc[p] = "redeeming" /\ ~SharedRecords
        /\ Keep(p, [View(p) EXCEPT !.consumed = TRUE], "server_error")
        /\ Goto(p, "revoking") /\ UNCHANGED <<tokens, settled>>
     \/ /\ pc[p] = "issuing"
        /\ Keep(p, View(p), "server_error")
        /\ Goto(p, "revoking") /\ (UNCHANGED tokens \/ Issue(p)) /\ UNCHANGED settled
     \/ /\ pc[p] = "revoking" /\ ~SharedRecords
        /\ Tell(job[p].handle, job[p].own, "server_error")
        /\ Stop(p) /\ Drop(p) /\ UNCHANGED tokens
  /\ UNCHANGED <<now, sessions, grants, deadline, ready>>

\* No grant is found under the handle.
PollNoGrant(p, h, own) ==
  /\ sessions[h].mode # "none"
  /\ GrantsOf(h) = {}
  /\ Start(p, "nogrant", h, own)
  /\ UNCHANGED <<now, sessions, grants, tokens, deadline, ready, settled, held>>

\* Mutant: the session's deadline is not looked at.
AnswerOf_NoDeadline(session, own) ==
  CASE ~own -> "invalid_grant"
    [] own /\ session.status = "failure" -> "access_denied"
    [] OTHER -> "authorization_pending"

\* Then the session says why.
AnswerOf(session, own) ==
  CASE ~own -> "invalid_grant"
    [] own /\ now >= session.expiresAt -> "expired_token"
    [] own /\ now < session.expiresAt /\ session.status = "failure" -> "access_denied"
    [] OTHER -> "authorization_pending"

PollSession(p) ==
  /\ pc[p] = "nogrant"
  /\ Tell(job[p].handle, job[p].own, AnswerOf(sessions[job[p].handle], job[p].own))
  /\ Stop(p)
  /\ UNCHANGED <<now, sessions, grants, tokens, deadline, ready, held>>

-----------------------------------------------------------------------------
Tick == now < MaxTime /\ now' = now + 1
        /\ UNCHANGED <<sessions, grants, tokens, deadline, ready, settled, pc, job, held>>

Init ==
  /\ now = 1
  /\ sessions = [h \in Handles |-> NoSession]
  /\ grants = <<>>
  /\ tokens = <<>>
  /\ deadline = [h \in Handles |-> 0]
  /\ ready = {}
  /\ settled = {}
  /\ pc = [p \in Approvers \cup Pollers |-> "idle"]
  /\ job = [p \in Approvers \cup Pollers |-> NoJob]
  /\ held = [p \in Pollers |-> NoHold]

Proceed(a) ==
  \/ AuthenticateDevice(a) \/ LoadApproved(a) \/ CreateGrant(a)
  \/ Resolve(a) \/ Announce(a) \/ Deny(a)

Poll(p, h, own) ==
  \/ \E i \in DOMAIN grants, ok \in BOOLEAN : PollGranted(p, h, i, own, ok)
  \/ PollNoGrant(p, h, own)

\* The steps that need storage, or the signer, to do its work.
Succeed(p) == ConsumeHandle(p) \/ IssueAndRespond(p) \/ RevokeGrant(p)

ProceedPoll(p) == PollSession(p) \/ Succeed(p) \/ PollFails(p)

Next ==
  \/ Tick
  \/ \E h \in Handles, mode \in Modes : Open(h, mode)
  \/ \E a \in Approvers :
       \/ \E h \in Handles : BeginVerify(a, h) \/ BeginApprove(a, h) \/ BeginDeny(a, h)
       \/ Proceed(a)
  \/ \E p \in Pollers :
       \/ \E h \in Handles, own \in BOOLEAN : Poll(p, h, own)
       \/ ProceedPoll(p)

Spec == Init /\ [][Next]_vars

\* Goroutines are scheduled, time passes, storage and the signer do not fail
\* for ever, and the client polls until it is told something final, as the
\* flows ask of it.
Fairness ==
  /\ WF_vars(Tick)
  /\ \A a \in Approvers : WF_vars(Proceed(a))
  /\ \A p \in Pollers : WF_vars(ProceedPoll(p))
  /\ SF_vars(\E p \in Pollers : Succeed(p))
  /\ \A h \in Handles : SF_vars(\E p \in Pollers : Poll(p, h, TRUE))

FairSpec == Spec /\ Fairness

-----------------------------------------------------------------------------
(* Properties. *)

TypeOK ==
  /\ now \in Nat
  /\ sessions \in [Handles -> Session]
  /\ grants \in Seq(Grant)
  /\ tokens \in Seq(Token)
  /\ deadline \in [Handles -> Nat]
  /\ ready \subseteq Handles
  /\ settled \subseteq Handles
  /\ pc \in [Approvers \cup Pollers ->
       {"idle", "authenticating", "approving", "granting", "resolving", "announcing",
        "denying", "nogrant", "redeeming", "issuing", "revoking"}]
  /\ job \in [Approvers \cup Pollers -> Job]
  /\ held \in [Pollers -> Hold]

\* Once an approval was announced, by the ping or by the confirmation page, no
\* poll that starts afterwards misses the grant and is sent away with
\* authorization_pending or access_denied, whatever other approvals and
\* denials of the handle are under way.
AnnouncedMeansRedeemable ==
  \A p \in Pollers : pc[p] = "nogrant" => ~job[p].announced

\* "so redemption remains bounded by that window even though the grant is
\* created later" (pkg/goidc/grant.go): a poll is answered with tokens only
\* before the deadline the client was given when it opened the request,
\* however late the user approved.
RedeemedInWindow ==
  \A i \in DOMAIN tokens : tokens[i].via = "poll" => tokens[i].at < deadline[tokens[i].handle]

TokensOf(h) == {i \in DOMAIN tokens : tokens[i].handle = h}

\* Every request settles: a client that keeps polling is told something other
\* than authorization_pending or an internal error in the end, even if the
\* approval or a redemption failed half way.
RequestsSettle ==
  \A h \in Handles : (sessions[h].mode # "none") ~> (h \in settled)
=============================================================================
