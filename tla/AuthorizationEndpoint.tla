------------------------ MODULE AuthorizationEndpoint ------------------------
(***************************************************************************)
(* The authorization endpoint (internal/authorize): pushing a request      *)
(* (pushAuth), starting its authorization with or without a request_uri    *)
(* (initAuth), resuming it at the callback (continueAuth) and running the  *)
(* policy (authenticate), until a grant with a code exists.                *)
(*                                                                         *)
(* A session is loaded, handed to the policy's callback and saved, so other *)
(* requests for the same session run in between.  The manager is one that   *)
(* returns the stored session itself or one that returns a copy, as in     *)
(* TokenEndpoint; the kind is chosen at the start.  The eviction of        *)
(* sessions at capacity is left out: a session that is gone is refused.    *)
(***************************************************************************)
EXTENDS Naturals, Sequences, FiniteSets

CONSTANTS
  SessionIDs,      \* session IDs, each with the request_uri of its session
  Workers,         \* goroutines serving requests
  Kinds,           \* {"direct", "par"} or one of them
  Params, NoParam, \* values of an authorization parameter, and its absence
  FAPI,            \* Profile.IsFAPI: outer parameters are not merged
  PARLifetime,     \* PARLifetimeSecs
  AuthLifetime,    \* AuthTimeoutSecs
  Managers,        \* {"stored", "copies"} or one of them: what a lookup returns
  Failures,
  MaxTime, MaxGrants  \* bounds of the instance

ASSUME EndpointAssumption ==
  /\ SessionIDs # {}
  /\ NoParam \notin Params
  /\ Kinds \subseteq {"direct", "par"}
  /\ FAPI \in BOOLEAN /\ Managers \subseteq {"stored", "copies"} /\ Failures \in BOOLEAN
  /\ PARLifetime \in Nat
  /\ AuthLifetime \in Nat \ {0}  \* 0 stands for the default (nonZeroOrDefault, provider.go)
  /\ MaxTime \in Nat /\ MaxGrants \in Nat

VARIABLES
  manager,    \* the kind of the session manager, chosen once
  now,
  sessions,   \* the session manager
  grants,     \* grants in the order of their creation
  pc, job,    \* where each goroutine is, and what it works on
  held,       \* the session it holds when it is not the stored one
  pushed,     \* the parameter as the client pushed it
  begun,      \* when the authorization of the session first began, 0 before
  aborted,    \* sessions whose callback came before their authorization, while
              \* no other request for them was being served
  denied      \* sessions whose policy ended with failure

vars == <<manager, now, sessions, grants, pc, job, held, pushed, begun, aborted, denied>>

SharedRecords == manager = "stored"

Session == [kind: {"none", "direct", "par"},
            status: {"pending", "success", "failure"},
            policy: BOOLEAN, expiresAt: Nat, param: Params \cup {NoParam}]

NoSession == [kind |-> "none", status |-> "pending", policy |-> FALSE,
              expiresAt |-> 0, param |-> NoParam]

\* at is the time at which the request was accepted; stored whether the
\* goroutine's pointer leads to the session in the manager.
Job == [sid: SessionIDs, at: Nat, stored: BOOLEAN]
NoJob == [sid |-> CHOOSE s \in SessionIDs : TRUE, at |-> 0, stored |-> FALSE]

Grant == [sid: SessionIDs, param: Params \cup {NoParam}, at: Nat]

Alone(w) == \A v \in Workers \ {w} : pc[v] = "idle" \/ job[v].sid # job[w].sid

Room == Len(grants) + Cardinality({w \in Workers : pc[w] # "idle"}) < MaxGrants

\* The session the goroutine's pointer leads to.
View(w) == IF SharedRecords /\ job[w].stored THEN sessions[job[w].sid] ELSE held[w]

Start(w, s, session, stored, where) ==
  /\ pc' = [pc EXCEPT ![w] = where]
  /\ job' = [job EXCEPT ![w] = [sid |-> s, at |-> now, stored |-> stored]]
  /\ held' = [held EXCEPT ![w] = IF SharedRecords /\ stored THEN NoSession ELSE session]

Stop(w) ==
  /\ pc' = [pc EXCEPT ![w] = "idle"]
  /\ job' = [job EXCEPT ![w] = NoJob]
  /\ held' = [held EXCEPT ![w] = NoSession]

\* AuthSaveSession.
SaveSession(w, session) == sessions' = [sessions EXCEPT ![job[w].sid] = session]
SaveFails == Failures /\ ~SharedRecords /\ UNCHANGED sessions

\* Mutant: the outer value wins.
mergeParams_Outer(inner, outer) == IF outer # NoParam THEN outer ELSE inner

\* mergeParams: the inner value, or the outer one where there is none.
mergeParams(inner, outer) == IF inner # NoParam THEN inner ELSE outer

-----------------------------------------------------------------------------
(* pushAuth: the request is stored under a fresh request_uri.               *)
PushAuth(s, param) ==
  /\ "par" \in Kinds
  /\ sessions[s].kind = "none" /\ begun[s] = 0
  /\ sessions' = [sessions EXCEPT ![s] =
       [kind |-> "par", status |-> "pending", policy |-> FALSE,
        expiresAt |-> now + PARLifetime, param |-> param]]
  /\ pushed' = [pushed EXCEPT ![s] = param]
  /\ UNCHANGED <<now, grants, pc, job, held, begun, aborted, denied>>

\* initAuth without a request_uri: a new session, not stored before the policy
\* has run.
InitAuthDirect(w, s, param) ==
  /\ pc[w] = "idle" /\ Room
  /\ "direct" \in Kinds
  /\ sessions[s].kind = "none" /\ begun[s] = 0
  /\ begun' = [begun EXCEPT ![s] = now]
  /\ Start(w, s, [kind |-> "direct", status |-> "pending", policy |-> TRUE,
                  expiresAt |-> now + AuthLifetime, param |-> param], FALSE, "authenticating")
  /\ UNCHANGED <<now, sessions, grants, pushed, aborted, denied>>

\* validateRequestWithPAR: ok stands for the checks of the client and of the
\* parameters.
ValidateRequestWithPAR(session, ok) ==
  ok /\ session.status = "pending" /\ now < session.expiresAt

\* A session admitted by its request_uri: the outer parameters are merged, a
\* policy is chosen and the session gets a new deadline.
Admitted(session, param) ==
  [session EXCEPT !.param = IF FAPI THEN @ ELSE mergeParams(@, param),
                  !.policy = TRUE, !.expiresAt = now + AuthLifetime]

\* initAuth with a request_uri. A request that does not fit fails the session.
\* After that the request may end without an answer of the policy: there is
\* none for it ("no_policy"), or its credentials cannot be resolved
\* ("no_credential"). What was assigned to a shared session stays assigned.
InitAuthPushed(w, s, param, ok, setup) ==
  LET session  == sessions[s]
      admitted == Admitted(session, param)
      Assign(new) == sessions' = IF SharedRecords THEN [sessions EXCEPT ![s] = new] ELSE sessions
      First == begun' = [begun EXCEPT ![s] = IF @ = 0 THEN now ELSE @] IN
  /\ pc[w] = "idle" /\ Room
  /\ session.kind = "par"
  /\ \/ /\ ~ValidateRequestWithPAR(session, ok)
        /\ Start(w, s, session, TRUE, "failing") /\ UNCHANGED <<sessions, begun>>
     \/ /\ ValidateRequestWithPAR(session, ok) /\ setup = "no_policy"
        /\ Stop(w) /\ Assign([session EXCEPT !.param = admitted.param]) /\ UNCHANGED begun
     \/ /\ ValidateRequestWithPAR(session, ok) /\ setup = "no_credential"
        /\ Stop(w) /\ Assign(admitted) /\ First
     \/ /\ ValidateRequestWithPAR(session, ok) /\ setup = "ok"
        /\ Start(w, s, admitted, TRUE, "authenticating") /\ Assign(admitted) /\ First
  /\ UNCHANGED <<now, grants, pushed, aborted, denied>>

\* The session whose request_uri did not fit is saved as failed.
FailSession(w) ==
  /\ pc[w] = "failing"
  /\ SaveSession(w, [View(w) EXCEPT !.status = "failure"]) \/ SaveFails
  /\ Stop(w)
  /\ UNCHANGED <<now, grants, pushed, begun, aborted, denied>>

\* Mutant: the deadline of the session is not looked at.
ContinueAuth_NoDeadline(w, s) ==
  /\ pc[w] = "idle" /\ Room
  /\ sessions[s].kind # "none"
  /\ Start(w, s, sessions[s], TRUE, "authenticating")
  /\ UNCHANGED <<now, sessions, grants, pushed, begun, aborted, denied>>

\* continueAuth: nothing but the deadline is asked of the session.
ContinueAuth(w, s) ==
  /\ pc[w] = "idle" /\ Room
  /\ sessions[s].kind # "none"
  /\ now < sessions[s].expiresAt
  /\ Start(w, s, sessions[s], TRUE, "authenticating")
  /\ UNCHANGED <<now, sessions, grants, pushed, begun, aborted, denied>>

-----------------------------------------------------------------------------
(* authenticate. *)

\* Mutant: the callback is refused, and the session left as it was.
RejectWithoutPolicy_Unsaved(w) ==
  /\ pc[w] = "authenticating" /\ ~View(w).policy
  /\ aborted' = IF Alone(w) THEN aborted \cup {job[w].sid} ELSE aborted
  /\ Stop(w)
  /\ UNCHANGED <<now, sessions, grants, pushed, begun, denied>>

\* The callback came before the authorization: the session fails.
RejectWithoutPolicy(w) ==
  /\ pc[w] = "authenticating" /\ ~View(w).policy
  /\ \/ /\ SaveSession(w, [View(w) EXCEPT !.status = "failure"])
        /\ aborted' = IF Alone(w) THEN aborted \cup {job[w].sid} ELSE aborted
     \/ SaveFails /\ UNCHANGED aborted
  /\ Stop(w)
  /\ UNCHANGED <<now, grants, pushed, begun, denied>>

\* The policy's verdict becomes the status of the session, and is saved.
Authenticate(w, status) ==
  LET session == [View(w) EXCEPT !.status = status] IN
  /\ pc[w] = "authenticating" /\ View(w).policy
  /\ \/ /\ SaveSession(w, session)
        /\ IF status = "success"
           THEN /\ pc' = [pc EXCEPT ![w] = "granting"]
                /\ job' = [job EXCEPT ![w].stored = TRUE]
                /\ held' = [held EXCEPT ![w] = IF SharedRecords THEN NoSession ELSE session]
           ELSE Stop(w)
        /\ denied' = IF status = "failure" THEN denied \cup {job[w].sid} ELSE denied
     \/ SaveFails /\ Stop(w) /\ UNCHANGED denied
  /\ UNCHANGED <<now, grants, pushed, begun, aborted>>

\* NewGrant and the redirect that carries the code.
CreateGrant(w) ==
  /\ pc[w] = "granting"
  /\ \/ grants' = Append(grants, [sid |-> job[w].sid, param |-> View(w).param, at |-> job[w].at])
     \/ Failures /\ UNCHANGED grants
  /\ Stop(w)
  /\ UNCHANGED <<now, sessions, pushed, begun, aborted, denied>>

-----------------------------------------------------------------------------
Tick == now < MaxTime /\ now' = now + 1
        /\ UNCHANGED <<sessions, grants, pc, job, held, pushed, begun, aborted, denied>>

Init ==
  /\ manager \in Managers
  /\ now = 1
  /\ sessions = [s \in SessionIDs |-> NoSession]
  /\ grants = <<>>
  /\ pc = [w \in Workers |-> "idle"]
  /\ job = [w \in Workers |-> NoJob]
  /\ held = [w \in Workers |-> NoSession]
  /\ pushed = [s \in SessionIDs |-> NoParam]
  /\ begun = [s \in SessionIDs |-> 0]
  /\ aborted = {}
  /\ denied = {}

Step ==
  \/ Tick
  \/ \E s \in SessionIDs, param \in Params \cup {NoParam} : PushAuth(s, param)
  \/ \E w \in Workers, s \in SessionIDs :
       \/ \E param \in Params \cup {NoParam} :
            \/ InitAuthDirect(w, s, param)
            \/ \E ok \in BOOLEAN, setup \in {"ok", "no_policy", "no_credential"} :
                 InitAuthPushed(w, s, param, ok, setup)
       \/ ContinueAuth(w, s)
  \/ \E w \in Workers :
       \/ FailSession(w)
       \/ RejectWithoutPolicy(w)
       \/ \E status \in {"success", "pending", "failure"} : Authenticate(w, status)
       \/ CreateGrant(w)

Next == Step /\ UNCHANGED manager

Spec == Init /\ [][Next]_vars

-----------------------------------------------------------------------------
(* Properties. *)

TypeOK ==
  /\ manager \in {"stored", "copies"}
  /\ now \in Nat
  /\ sessions \in [SessionIDs -> Session]
  /\ grants \in Seq(Grant)
  /\ pc \in [Workers -> {"idle", "failing", "authenticating", "granting"}]
  /\ job \in [Workers -> Job]
  /\ held \in [Workers -> Session]
  /\ pushed \in [SessionIDs -> Params \cup {NoParam}]
  /\ begun \in [SessionIDs -> Nat]
  /\ aborted \subseteq SessionIDs /\ denied \subseteq SessionIDs

\* "The inner parameters take priority over the outter ones" (validation.go):
\* whatever requests for the same request_uri run at once, a grant carries the
\* parameter its client pushed.
PushedParametersWin ==
  \A i \in DOMAIN grants :
    pushed[grants[i].sid] # NoParam => grants[i].param = pushed[grants[i].sid]

\* A step creates a grant for the session.
Grants(s) == \E i \in DOMAIN grants' : grants'[i].sid = s /\ i \notin DOMAIN grants

\* A session that was resumed before its authorization began, when nobody else
\* was working on it, yields no grant any more: its request_uri and its
\* callback are dead from then on (authenticate, missing policy id).
AbortedNeverGranted == [][\A s \in aborted : ~Grants(s)]_vars

\* "This defines how long an authorization request may last" (option.go,
\* WithAuthSessionLifetime): without PAR, a grant comes from a request accepted
\* less than AuthLifetime after the authorization began, however often and by
\* however many callbacks the session was resumed and saved. With PAR the
\* lifetime starts anew whenever the request_uri of a pending session is
\* presented (initAuth).
BoundedAuthorization ==
  \A i \in DOMAIN grants :
    LET s == grants[i].sid IN
    sessions[s].kind = "direct" => grants[i].at < begun[s] + AuthLifetime

\* "If it returns [StatusFailure] or an error the flow will end with failure
\* and the client will be denied access" (model.go, AuthnFunc): no grant is
\* created for a session after its policy answered with failure.
FailedFlowEnds == [][\A s \in denied : ~Grants(s)]_vars
=============================================================================
