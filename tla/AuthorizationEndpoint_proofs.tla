--------------------- MODULE AuthorizationEndpoint_proofs ---------------------
(***************************************************************************)
(* Proofs about AuthorizationEndpoint: any sessions, goroutines, lifetimes *)
(* and parameters, either kind of manager, with or without failures.       *)
(***************************************************************************)
EXTENDS AuthorizationEndpoint, TLAPS

\* The record x, stored or held, may be saved as session s: it carries what was
\* pushed, a direct one has the deadline of its beginning, and one whose
\* callback came too early has no policy.
SessionOK(s, x) ==
  /\ x.kind \in {"direct", "par"}
  /\ pushed[s] # NoParam => x.param = pushed[s]
  /\ x.kind = "direct" => x.policy /\ begun[s] # 0 /\ x.expiresAt = begun[s] + AuthLifetime
  /\ s \in aborted => ~x.policy

StoredOK(s) ==
  /\ sessions[s].kind # "none" => SessionOK(s, sessions[s])
  /\ sessions[s].kind = "none" => pushed[s] = NoParam /\ s \notin aborted
  /\ s \in aborted => sessions[s].status = "failure"

\* What a goroutine works on is the session that is stored, or a direct one
\* that is not stored yet.
BusyOK(w, s) ==
  /\ SessionOK(s, View(w))
  /\ sessions[s].kind \in {"none", View(w).kind}
  /\ View(w).kind = "par" => sessions[s].kind = "par"
  /\ View(w).kind = "direct" => job[w].at < begun[s] + AuthLifetime
  /\ job[w].stored => sessions[s].kind # "none"
  /\ pc[w] = "granting" => s \notin aborted /\ sessions[s].kind # "none"

GrantOK(g) ==
  /\ sessions[g.sid].kind # "none"
  /\ pushed[g.sid] # NoParam => g.param = pushed[g.sid]
  /\ sessions[g.sid].kind = "direct" => g.at < begun[g.sid] + AuthLifetime

Inv ==
  /\ TypeOK /\ now > 0
  /\ \A s \in SessionIDs : StoredOK(s)
  /\ \A w \in Workers : pc[w] # "idle" => BusyOK(w, job[w].sid)
  /\ \A i \in DOMAIN grants : GrantOK(grants[i])

-----------------------------------------------------------------------------
(* A step concerns one session, and at most one goroutine. *)

Touches(w, s) ==
  /\ manager' = manager
  /\ \A k \in SessionIDs \ {s} :
       /\ sessions'[k] = sessions[k] /\ pushed'[k] = pushed[k] /\ begun'[k] = begun[k]
       /\ k \in aborted' => k \in aborted
  /\ \A k \in aborted : k \in aborted'
  /\ \A v \in Workers \ {w} : pc'[v] = pc[v] /\ job'[v] = job[v] /\ held'[v] = held[v]
  /\ DOMAIN grants \subseteq DOMAIN grants' /\ \A i \in DOMAIN grants : grants'[i] = grants[i]

\* A session that nobody knows yet may become anything; another keeps its kind
\* and its beginning, and is aborted only when no one else works on it.
Fresh(s) == sessions[s].kind = "none" /\ begun[s] = 0
KindKept(s) ==
  \/ sessions'[s].kind = sessions[s].kind
  \/ sessions[s].kind = "none" /\ sessions'[s].kind = "direct"
Gentle(w, s) ==
  /\ \/ Fresh(s)
     \/ pushed'[s] = pushed[s] /\ KindKept(s) /\ (begun[s] # 0 => begun'[s] = begun[s])
  /\ s \in aborted' \ aborted => \A v \in Workers \ {w} : pc[v] = "idle" \/ job[v].sid # s

\* What a goroutine has in hand is a session.
LEMMA ViewTyped ==
  ASSUME TypeOK, NEW w \in Workers
  PROVE  View(w) \in Session /\ job[w].sid \in SessionIDs
  BY DEF TypeOK, View, Job

\* Grants are typed.
LEMMA GrantTyped ==
  ASSUME TypeOK, NEW i \in DOMAIN grants PROVE grants[i] \in Grant /\ grants[i].sid \in SessionIDs
<1>1. grants \in Seq(Grant)
  BY DEF TypeOK
<1>2. grants[i] \in Grant
  BY <1>1
<1>3. QED
  BY <1>2 DEF Grant

\* Goroutines that work on the same session are not disturbed.
LEMMA Mates ==
  ASSUME Inv, NEW w, NEW s \in SessionIDs, Touches(w, s), Gentle(w, s), StoredOK(s)',
         NEW v \in Workers \ {w}, pc[v] # "idle", job[v].sid = s
  PROVE  BusyOK(v, s)'
<1>1. BusyOK(v, s) /\ StoredOK(s)
  BY DEF Inv
<1>2. pc'[v] = pc[v] /\ job'[v] = job[v] /\ held'[v] = held[v] /\ manager' = manager
  BY DEF Touches
<1>3. ~Fresh(s)
  BY <1>1 DEF Fresh, BusyOK, SessionOK
<1>4. /\ pushed'[s] = pushed[s] /\ KindKept(s) /\ (begun[s] # 0 => begun'[s] = begun[s])
      /\ s \in aborted' => s \in aborted
  BY <1>3 DEF Gentle
<1>5. CASE SharedRecords /\ job[v].stored
  <2>1. View(v) = sessions[s] /\ View(v)' = sessions'[s]
    BY <1>2, <1>5 DEF View, SharedRecords
  <2>2. sessions[s].kind # "none" /\ sessions'[s].kind = sessions[s].kind
    BY <1>1, <1>4, <1>5 DEF BusyOK, KindKept
  <2>3. SessionOK(s, sessions[s]) /\ SessionOK(s, sessions[s])'
    BY <1>1, <2>2 DEF StoredOK
  <2>4. View(v).kind = "direct" => begun'[s] = begun[s]
    BY <1>4, <2>1, <2>3 DEF SessionOK
  <2>5. SessionOK(s, View(v))'
    BY <2>1, <2>3
  <2>6. QED
    BY <1>1, <1>2, <1>4, <2>1, <2>2, <2>4, <2>5 DEF BusyOK
<1>6. CASE ~(SharedRecords /\ job[v].stored)
  <2>. PICK x : x = held[v]
    OBVIOUS
  <2>1. View(v) = x /\ View(v)' = x
    BY <1>2, <1>6 DEF View, SharedRecords
  <2>2. x.kind = "direct" => begun'[s] = begun[s]
    BY <1>1, <1>4, <2>1 DEF BusyOK, SessionOK
  <2>3. SessionOK(s, x)'
    BY <1>1, <1>4, <2>1, <2>2 DEF BusyOK, SessionOK
  <2>4. sessions'[s].kind \in {"none", x.kind} /\ (x.kind = "par" => sessions'[s].kind = "par")
    BY <1>1, <1>4, <2>1 DEF BusyOK, KindKept, SessionOK
  <2>5. sessions[s].kind # "none" => sessions'[s].kind # "none"
    BY <1>4 DEF KindKept
  <2>6. QED
    BY <1>1, <1>2, <1>4, <2>1, <2>2, <2>3, <2>4, <2>5 DEF BusyOK
<1>7. QED
  BY <1>5, <1>6

\* Neither are the grants that exist.
LEMMA GrantsKept ==
  ASSUME Inv, NEW w, NEW s \in SessionIDs, Touches(w, s), Gentle(w, s),
         NEW i \in DOMAIN grants
  PROVE  GrantOK(grants[i])'
<1>. PICK g : g = grants[i]
  OBVIOUS
<1>1. GrantOK(g) /\ g.sid \in SessionIDs /\ grants'[i] = g
  BY GrantTyped DEF Inv, Touches
<1>2. CASE g.sid # s
  <2>1. GrantOK(g)'
    BY <1>1, <1>2 DEF Touches, GrantOK
  <2>2. QED
    BY <1>1, <2>1 DEF GrantOK
<1>3. CASE g.sid = s
  <2>1. sessions[s].kind # "none" /\ SessionOK(s, sessions[s])
    BY <1>1, <1>3 DEF GrantOK, Inv, StoredOK
  <2>2. /\ pushed'[s] = pushed[s] /\ sessions'[s].kind = sessions[s].kind
        /\ sessions[s].kind = "direct" => begun'[s] = begun[s]
    BY <2>1 DEF Gentle, Fresh, KindKept, SessionOK
  <2>3. GrantOK(g)'
    BY <1>1, <1>3, <2>2 DEF GrantOK
  <2>4. QED
    BY <1>1, <2>3 DEF GrantOK
<1>4. QED
  BY <1>2, <1>3

\* The invariant is kept when the session, its goroutine and what is new are
\* in order.
LEMMA OneStep ==
  ASSUME Inv, TypeOK', now' > 0, NEW w, NEW s \in SessionIDs, Touches(w, s), Gentle(w, s),
         StoredOK(s)',
         w \in Workers /\ pc'[w] # "idle" => job'[w].sid = s /\ BusyOK(w, s)',
         \A i \in DOMAIN grants' \ DOMAIN grants : GrantOK(grants[i])'
  PROVE  Inv'
<1>1. \A k \in SessionIDs : StoredOK(k)'
  <2>1. ASSUME NEW k \in SessionIDs \ {s} PROVE StoredOK(k)'
    <3>1. StoredOK(k)
      BY DEF Inv
    <3>2. /\ sessions'[k] = sessions[k] /\ pushed'[k] = pushed[k] /\ begun'[k] = begun[k]
          /\ (k \in aborted' <=> k \in aborted)
      BY DEF Touches
    <3>3. QED
      BY <3>1, <3>2 DEF StoredOK, SessionOK
  <2>2. QED
    BY <2>1
<1>2. ASSUME NEW v \in Workers, pc'[v] # "idle" PROVE BusyOK(v, job[v].sid)'
  <2>1. CASE v = w
    BY <1>2, <2>1 DEF BusyOK, SessionOK
  <2>2. CASE v # w
    <3>1. pc'[v] = pc[v] /\ job'[v] = job[v] /\ held'[v] = held[v] /\ manager' = manager
      BY <2>2 DEF Touches
    <3>. PICK k : k = job[v].sid
      OBVIOUS
    <3>2. k \in SessionIDs /\ BusyOK(v, k)
      BY <1>2, <3>1, ViewTyped DEF Inv
    <3>3. CASE k = s
      <4>1. BusyOK(v, k)'
        BY <1>2, <2>2, <3>1, <3>3, Mates
      <4>2. QED
        BY <3>1, <4>1 DEF BusyOK, SessionOK
    <3>4. CASE k # s
      <4>1. /\ sessions'[k] = sessions[k] /\ pushed'[k] = pushed[k] /\ begun'[k] = begun[k]
            /\ (k \in aborted' <=> k \in aborted)
        BY <3>2, <3>4 DEF Touches
      <4>2. View(v)' = View(v)
        BY <3>1, <4>1 DEF View, SharedRecords
      <4>3. BusyOK(v, k)'
        BY <3>1, <3>2, <4>1, <4>2 DEF BusyOK, SessionOK
      <4>4. QED
        BY <3>1, <4>3 DEF BusyOK, SessionOK
    <3>5. QED
      BY <3>3, <3>4
  <2>3. QED
    BY <2>1, <2>2
<1>3. \A i \in DOMAIN grants' : GrantOK(grants[i])'
  BY GrantsKept
<1>4. QED
  BY <1>1, <1>2, <1>3 DEF Inv

-----------------------------------------------------------------------------
(* What goroutines do. *)

Places == {"idle", "failing", "authenticating", "granting"}
Statuses == {"pending", "success", "failure"}
Others(w) == \A v \in Workers \ {w} : pc'[v] = pc[v] /\ job'[v] = job[v] /\ held'[v] = held[v]
GoroutinesTyped ==
  pc' \in [Workers -> Places] /\ job' \in [Workers -> Job] /\ held' \in [Workers -> Session]

\* The session of nobody is a session, and no job a job.
LEMMA Defaults == NoSession \in Session /\ NoJob \in Job
  BY EndpointAssumption DEF NoSession, Session, NoJob, Job

\* A goroutine ends.
LEMMA Stopped ==
  ASSUME TypeOK, NEW w \in Workers, Stop(w)
  PROVE  GoroutinesTyped /\ Others(w) /\ pc'[w] = "idle"
  BY Defaults DEF TypeOK, Stop, GoroutinesTyped, Others, Places

\* A goroutine starts, with the record x in hand.
LEMMA Started ==
  ASSUME TypeOK, NEW w \in Workers, NEW s \in SessionIDs, NEW x \in Session,
         NEW stored \in BOOLEAN, NEW where \in Places, Start(w, s, x, stored, where),
         manager' = manager, SharedRecords /\ stored => sessions'[s] = x
  PROVE  /\ GoroutinesTyped /\ Others(w) /\ pc'[w] = where
         /\ job'[w].sid = s /\ job'[w].at = now /\ job'[w].stored = stored
         /\ View(w)' = x
<1>. PICK j : j = [sid |-> s, at |-> now, stored |-> stored]
  OBVIOUS
<1>1. j \in Job /\ j.sid = s /\ j.at = now /\ j.stored = stored
  BY DEF Job, TypeOK
<1>. PICK y : y = IF SharedRecords /\ stored THEN NoSession ELSE x
  OBVIOUS
<1>2. y \in Session
  BY Defaults
<1>3. /\ pc' = [pc EXCEPT ![w] = where] /\ job' = [job EXCEPT ![w] = j]
      /\ held' = [held EXCEPT ![w] = y]
  BY DEF Start
<1>4. GoroutinesTyped /\ Others(w)
  BY <1>1, <1>2, <1>3 DEF TypeOK, GoroutinesTyped, Others, Places
<1>5. pc'[w] = where /\ job'[w] = j /\ held'[w] = y
  BY <1>3 DEF TypeOK
<1>6. View(w)' = x
  BY <1>1, <1>5 DEF View, SharedRecords
<1>7. QED
  BY <1>1, <1>4, <1>5, <1>6

\* The record in hand with a new status.
LEMMA StatusOf ==
  ASSUME Inv, NEW w \in Workers, pc[w] # "idle", NEW st \in Statuses,
         NEW x, x = [View(w) EXCEPT !.status = st]
  PROVE  /\ x \in Session /\ x.status = st /\ x.kind = View(w).kind /\ x.policy = View(w).policy
         /\ SessionOK(job[w].sid, x)
<1>1. View(w) \in Session /\ BusyOK(w, job[w].sid)
  BY ViewTyped DEF Inv
<1>2. /\ x \in Session /\ x.status = st /\ x.kind = View(w).kind /\ x.policy = View(w).policy
      /\ x.param = View(w).param /\ x.expiresAt = View(w).expiresAt
  BY <1>1 DEF Session, Statuses
<1>3. QED
  BY <1>1, <1>2 DEF BusyOK, SessionOK

\* The session is aborted only as failed, without a policy and by its only
\* goroutine; it stays failed.
AbortOK(w, s, x) ==
  \/ aborted' = aborted /\ (s \in aborted => x.status = "failure")
  \/ aborted' = aborted \cup {s} /\ Alone(w) /\ x.status = "failure" /\ ~x.policy

\* Saving the session x, which others may be working on.
LEMMA Saved ==
  ASSUME Inv, NEW w \in Workers, pc[w] # "idle", NEW s \in SessionIDs, s = job[w].sid,
         NEW x \in Session, x.kind = View(w).kind, SessionOK(s, x),
         sessions' = [sessions EXCEPT ![s] = x], manager' = manager, pushed' = pushed,
         begun' = begun, grants' = grants, Others(w), AbortOK(w, s, x)
  PROVE  /\ sessions' \in [SessionIDs -> Session] /\ sessions'[s] = x
         /\ Touches(w, s) /\ Gentle(w, s) /\ StoredOK(s)' /\ SessionOK(s, x)'
<1>1. sessions \in [SessionIDs -> Session] /\ BusyOK(w, s)
  BY DEF Inv, TypeOK
<1>2. sessions' \in [SessionIDs -> Session] /\ sessions'[s] = x
  BY <1>1
<1>3. Touches(w, s)
  BY <1>1 DEF Touches, Others, AbortOK
<1>4. KindKept(s)
  BY <1>1, <1>2 DEF KindKept, BusyOK, SessionOK
<1>5. Gentle(w, s)
  BY <1>4 DEF Gentle, Alone, AbortOK
<1>6. SessionOK(s, x)'
  BY DEF SessionOK, AbortOK
<1>7. StoredOK(s)'
  BY <1>2, <1>6 DEF StoredOK, SessionOK, AbortOK
<1>8. QED
  BY <1>2, <1>3, <1>5, <1>6, <1>7

\* A goroutine ends, and may have saved its session.
LEMMA EndStep ==
  ASSUME Inv, NEW w \in Workers, NEW s \in SessionIDs, s = job[w].sid, pc[w] # "idle", Stop(w),
         \/ UNCHANGED <<sessions, aborted>>
         \/ \E st \in Statuses :
              /\ sessions' = [sessions EXCEPT ![s] = [View(w) EXCEPT !.status = st]]
              /\ \/ aborted' = aborted /\ (s \in aborted => st = "failure")
                 \/ /\ aborted' = aborted \cup {s} /\ Alone(w)
                    /\ st = "failure" /\ ~View(w).policy,
         denied' \subseteq SessionIDs,
         UNCHANGED <<manager, now, grants, pushed, begun>>
  PROVE  Inv'
<1>1. TypeOK /\ StoredOK(s) /\ now' > 0
  BY DEF Inv
<1>2. GoroutinesTyped /\ Others(w) /\ pc'[w] = "idle"
  BY <1>1, Stopped
<1>3. CASE UNCHANGED <<sessions, aborted>>
  <2>1. TypeOK'
    BY <1>1, <1>2, <1>3 DEF TypeOK, GoroutinesTyped, Places
  <2>2. Touches(w, s) /\ Gentle(w, s) /\ StoredOK(s)'
    BY <1>1, <1>2, <1>3 DEF Touches, Gentle, KindKept, Others, StoredOK, SessionOK
  <2>3. DOMAIN grants' \ DOMAIN grants = {}
    OBVIOUS
  <2>4. QED
    BY <1>1, <1>2, <2>1, <2>2, <2>3, OneStep
<1>4. ASSUME NEW st \in Statuses,
             sessions' = [sessions EXCEPT ![s] = [View(w) EXCEPT !.status = st]],
             \/ aborted' = aborted /\ (s \in aborted => st = "failure")
             \/ /\ aborted' = aborted \cup {s} /\ Alone(w)
                /\ st = "failure" /\ ~View(w).policy
      PROVE  Inv'
  <2>. PICK x : x = [View(w) EXCEPT !.status = st]
    OBVIOUS
  <2>1. /\ x \in Session /\ x.status = st /\ x.kind = View(w).kind /\ x.policy = View(w).policy
        /\ SessionOK(s, x)
    BY StatusOf
  <2>2. AbortOK(w, s, x)
    BY <1>4, <2>1 DEF AbortOK
  <2>3. sessions' \in [SessionIDs -> Session] /\ Touches(w, s) /\ Gentle(w, s) /\ StoredOK(s)'
    <3>1. /\ sessions' = [sessions EXCEPT ![s] = x]
          /\ manager' = manager /\ pushed' = pushed /\ begun' = begun /\ grants' = grants
      BY <1>4
    <3>2. QED
      BY <1>2, <2>1, <2>2, <3>1, Saved
  <2>4. TypeOK'
    BY <1>1, <1>2, <1>4, <2>3 DEF TypeOK, GoroutinesTyped, Places
  <2>5. DOMAIN grants' \ DOMAIN grants = {}
    OBVIOUS
  <2>6. QED
    BY <1>1, <1>2, <2>3, <2>4, <2>5, OneStep
<1>5. QED
  BY <1>3, <1>4

\* A request_uri that did not fit (initAuth), and a callback that came before
\* the authorization (authenticate).
LEMMA FailStep ==
  ASSUME NEW w \in Workers, Inv, FailSession(w) \/ RejectWithoutPolicy(w), UNCHANGED manager
  PROVE  Inv'
<1>1. TypeOK /\ job[w].sid \in SessionIDs
  BY ViewTyped DEF Inv
<1>2. /\ pc[w] # "idle" /\ Stop(w) /\ UNCHANGED <<now, grants, pushed, begun, denied>>
      /\ denied' \subseteq SessionIDs
  BY <1>1 DEF FailSession, RejectWithoutPolicy, TypeOK
<1>3. CASE UNCHANGED <<sessions, aborted>>
  BY <1>1, <1>2, <1>3, EndStep
<1>4. CASE /\ SaveSession(w, [View(w) EXCEPT !.status = "failure"])
           /\ \/ aborted' = aborted
              \/ aborted' = aborted \cup {job[w].sid} /\ Alone(w) /\ ~View(w).policy
  <2>1. "failure" \in Statuses
    BY DEF Statuses
  <2>2. QED
    BY <1>1, <1>2, <1>4, <2>1, EndStep DEF SaveSession
<1>5. QED
  BY <1>3, <1>4 DEF FailSession, RejectWithoutPolicy, SaveFails

\* The policy's verdict is saved, and a success leads to the grant. (A session
\* that was aborted has no policy to answer.)
LEMMA AuthenticateStep ==
  ASSUME NEW w \in Workers, NEW status \in Statuses, Inv, Authenticate(w, status),
         UNCHANGED manager
  PROVE  Inv'
<1>1. TypeOK /\ job[w].sid \in SessionIDs
  BY ViewTyped DEF Inv
<1>. PICK s \in SessionIDs : s = job[w].sid
  BY <1>1
<1>2. /\ pc[w] = "authenticating" /\ View(w).policy
      /\ UNCHANGED <<now, grants, pushed, begun, aborted>> /\ denied' \subseteq SessionIDs
  BY <1>1 DEF Authenticate, TypeOK
<1>3. BusyOK(w, s) /\ s \notin aborted
  BY <1>2 DEF Inv, BusyOK, SessionOK
<1>4. CASE Stop(w) /\ UNCHANGED sessions
  BY <1>1, <1>2, <1>4, EndStep
<1>5. CASE Stop(w) /\ SaveSession(w, [View(w) EXCEPT !.status = status])
  BY <1>1, <1>2, <1>3, <1>5, EndStep DEF SaveSession
<1>6. CASE /\ SaveSession(w, [View(w) EXCEPT !.status = status])
           /\ pc' = [pc EXCEPT ![w] = "granting"]
           /\ job' = [job EXCEPT ![w].stored = TRUE]
           /\ held' = [held EXCEPT ![w] = IF SharedRecords THEN NoSession
                                          ELSE [View(w) EXCEPT !.status = status]]
  <2>. PICK x : x = [View(w) EXCEPT !.status = status]
    OBVIOUS
  <2>. PICK y : y = IF SharedRecords THEN NoSession ELSE x
    OBVIOUS
  <2>. PICK j : j = [job[w] EXCEPT !.stored = TRUE]
    OBVIOUS
  <2>1. /\ x \in Session /\ x.kind = View(w).kind /\ SessionOK(s, x)
    BY <1>2, StatusOf
  <2>2. y \in Session /\ j \in Job /\ j.sid = s /\ j.at = job[w].at /\ j.stored = TRUE
    <3>1. job[w] \in Job
      BY <1>1 DEF TypeOK
    <3>2. QED
      BY <2>1, <3>1, Defaults DEF Job
  <2>3. /\ sessions' = [sessions EXCEPT ![s] = x] /\ pc' = [pc EXCEPT ![w] = "granting"]
        /\ job' = [job EXCEPT ![w] = j] /\ held' = [held EXCEPT ![w] = y]
    BY <1>6 DEF SaveSession
  <2>4. GoroutinesTyped /\ Others(w)
    BY <1>1, <2>2, <2>3 DEF TypeOK, GoroutinesTyped, Others, Places
  <2>5. pc'[w] = "granting" /\ job'[w] = j /\ held'[w] = y
    BY <1>1, <2>3 DEF TypeOK
  <2>6. AbortOK(w, s, x)
    BY <1>2, <1>3 DEF AbortOK
  <2>7. /\ sessions' \in [SessionIDs -> Session] /\ sessions'[s] = x
        /\ Touches(w, s) /\ Gentle(w, s) /\ StoredOK(s)' /\ SessionOK(s, x)'
    <3>1. pushed' = pushed /\ begun' = begun /\ grants' = grants /\ manager' = manager
          /\ pc[w] # "idle"
      BY <1>2
    <3>2. QED
      BY <2>1, <2>3, <2>4, <2>6, <3>1, Saved
  <2>8. View(w)' = x
    BY <2>2, <2>5, <2>7 DEF View, SharedRecords
  <2>9. BusyOK(w, s)'
    <3>1. x.kind # "none"
      BY <2>1 DEF SessionOK
    <3>2. x.kind = "direct" => job'[w].at < begun'[s] + AuthLifetime
      BY <1>2, <1>3, <2>1, <2>2, <2>5 DEF BusyOK
    <3>3. s \notin aborted'
      BY <1>2, <1>3
    <3>4. QED
      BY <2>7, <2>8, <3>1, <3>2, <3>3 DEF BusyOK
  <2>10. TypeOK' /\ now' > 0
    BY <1>1, <1>2, <2>4, <2>7 DEF TypeOK, GoroutinesTyped, Places, Inv
  <2>11. job'[w].sid = s /\ DOMAIN grants' \ DOMAIN grants = {}
    BY <1>2, <2>2, <2>5
  <2>12. QED
    BY <2>7, <2>9, <2>10, <2>11, OneStep
<1>7. QED
  BY <1>4, <1>5, <1>6 DEF Authenticate, SaveFails

\* The callback resumes a session before its deadline (continueAuth), or a
\* request_uri that does not fit is about to fail its session (initAuth).
LEMMA ResumeStep ==
  ASSUME NEW w \in Workers, NEW s \in SessionIDs, NEW where \in {"authenticating", "failing"},
         Inv, sessions[s].kind # "none",
         sessions[s].kind = "direct" => now < sessions[s].expiresAt,
         Start(w, s, sessions[s], TRUE, where),
         UNCHANGED <<manager, now, sessions, grants, pushed, begun, aborted, denied>>
  PROVE  Inv'
<1>. PICK x : x = sessions[s]
  OBVIOUS
<1>1. TypeOK /\ StoredOK(s) /\ x \in Session /\ where \in Places
  BY DEF Inv, TypeOK, Places
<1>2. /\ GoroutinesTyped /\ Others(w) /\ pc'[w] = where
      /\ job'[w].sid = s /\ job'[w].at = now /\ job'[w].stored = TRUE /\ View(w)' = x
  BY <1>1, Started
<1>3. Touches(w, s) /\ Gentle(w, s)
  BY <1>2 DEF Touches, Gentle, KindKept, Others
<1>4. StoredOK(s)' /\ SessionOK(s, x) /\ SessionOK(s, x)'
  BY <1>1 DEF StoredOK, SessionOK
<1>5. BusyOK(w, s)'
  BY <1>2, <1>4 DEF BusyOK, SessionOK
<1>6. TypeOK' /\ now' > 0 /\ DOMAIN grants' \ DOMAIN grants = {}
  BY <1>1, <1>2 DEF TypeOK, GoroutinesTyped, Places, Inv
<1>7. QED
  BY <1>2, <1>3, <1>4, <1>5, <1>6, OneStep

\* A new session, held by its goroutine alone (initAuth).
LEMMA DirectStep ==
  ASSUME NEW w \in Workers, NEW s \in SessionIDs, NEW param \in Params \cup {NoParam},
         Inv, InitAuthDirect(w, s, param), UNCHANGED manager
  PROVE  Inv'
<1>. PICK x : x = [kind |-> "direct", status |-> "pending", policy |-> TRUE,
                   expiresAt |-> now + AuthLifetime, param |-> param]
  OBVIOUS
<1>1. TypeOK /\ StoredOK(s) /\ now \in Nat /\ now > 0
  BY DEF Inv, TypeOK
<1>2. /\ x \in Session /\ x.kind = "direct" /\ x.policy /\ x.expiresAt = now + AuthLifetime
  BY <1>1, EndpointAssumption DEF Session
<1>3. /\ Fresh(s) /\ begun' = [begun EXCEPT ![s] = now]
      /\ UNCHANGED <<manager, now, sessions, grants, pushed, aborted, denied>>
      /\ Start(w, s, x, FALSE, "authenticating")
  BY DEF InitAuthDirect, Fresh
<1>4. begun'[s] = now /\ begun' \in [SessionIDs -> Nat]
      /\ \A k \in SessionIDs \ {s} : begun'[k] = begun[k]
  BY <1>1, <1>3 DEF TypeOK
<1>5. /\ GoroutinesTyped /\ Others(w) /\ pc'[w] = "authenticating"
      /\ job'[w].sid = s /\ job'[w].at = now /\ job'[w].stored = FALSE /\ View(w)' = x
  <2>1. "authenticating" \in Places /\ FALSE \in BOOLEAN
    BY DEF Places
  <2>2. QED
    BY <1>1, <1>2, <1>3, <2>1, Started
<1>6. Touches(w, s) /\ Gentle(w, s)
  BY <1>3, <1>4, <1>5 DEF Touches, Gentle, Others
<1>7. pushed[s] = NoParam /\ s \notin aborted /\ sessions[s].kind = "none"
  BY <1>1, <1>3 DEF StoredOK, Fresh
<1>8. StoredOK(s)' /\ SessionOK(s, x)'
  BY <1>1, <1>2, <1>3, <1>4, <1>7 DEF StoredOK, SessionOK
<1>9. BusyOK(w, s)'
  <2>1. job'[w].at < begun'[s] + AuthLifetime
    BY <1>1, <1>4, <1>5, EndpointAssumption
  <2>2. QED
    BY <1>2, <1>3, <1>5, <1>7, <1>8, <2>1 DEF BusyOK
<1>10. TypeOK' /\ now' > 0 /\ DOMAIN grants' \ DOMAIN grants = {}
  BY <1>1, <1>3, <1>4, <1>5 DEF TypeOK, GoroutinesTyped, Places
<1>11. QED
  BY <1>5, <1>6, <1>8, <1>9, <1>10, OneStep

\* A pushed session that is pending may be given the record x, and a beginning
\* when it has none.
LEMMA AssignStep ==
  ASSUME NEW w \in Workers, NEW s \in SessionIDs, Inv, sessions[s].kind = "par",
         s \notin aborted, NEW x \in Session, x.kind = "par", SessionOK(s, x),
         sessions' = IF SharedRecords THEN [sessions EXCEPT ![s] = x] ELSE sessions,
         \/ begun' = begun
         \/ begun' = [begun EXCEPT ![s] = IF @ = 0 THEN now ELSE @],
         Stop(w) \/ Start(w, s, x, TRUE, "authenticating"),
         UNCHANGED <<manager, now, grants, pushed, aborted, denied>>
  PROVE  Inv'
<1>1. TypeOK /\ StoredOK(s) /\ sessions \in [SessionIDs -> Session] /\ begun \in [SessionIDs -> Nat]
      /\ now \in Nat /\ now > 0
  BY DEF Inv, TypeOK
<1>2. /\ begun' \in [SessionIDs -> Nat] /\ (begun[s] # 0 => begun'[s] = begun[s])
      /\ \A k \in SessionIDs \ {s} : begun'[k] = begun[k]
  BY <1>1
<1>3. /\ sessions' \in [SessionIDs -> Session] /\ sessions'[s].kind = "par"
      /\ (SharedRecords => sessions'[s] = x) /\ (~SharedRecords => sessions'[s] = sessions[s])
      /\ \A k \in SessionIDs \ {s} : sessions'[k] = sessions[k]
  BY <1>1
<1>4. /\ GoroutinesTyped /\ Others(w)
      /\ \/ pc'[w] = "idle"
         \/ /\ pc'[w] = "authenticating" /\ View(w)' = x
            /\ job'[w].sid = s /\ job'[w].stored = TRUE
  <2>1. CASE Stop(w)
    BY <1>1, <2>1, Stopped
  <2>2. CASE Start(w, s, x, TRUE, "authenticating")
    <3>1. "authenticating" \in Places /\ TRUE \in BOOLEAN
      BY DEF Places
    <3>2. manager' = manager /\ (SharedRecords /\ TRUE => sessions'[s] = x)
      BY <1>3
    <3>3. /\ GoroutinesTyped /\ Others(w) /\ pc'[w] = "authenticating" /\ job'[w].sid = s
          /\ job'[w].stored = TRUE /\ View(w)' = x
      BY <1>1, <2>2, <3>1, <3>2, Started
    <3>4. QED
      BY <3>3
  <2>3. QED
    BY <2>1, <2>2
<1>5. Touches(w, s) /\ Gentle(w, s)
  BY <1>2, <1>3, <1>4 DEF Touches, Gentle, KindKept, Others
<1>6. SessionOK(s, x)'
  BY <1>2 DEF SessionOK
<1>7. StoredOK(s)'
  <2>1. CASE SharedRecords
    BY <1>3, <1>6, <2>1 DEF StoredOK, SessionOK
  <2>2. CASE ~SharedRecords
    BY <1>1, <1>3, <2>2 DEF StoredOK, SessionOK
  <2>3. QED
    BY <2>1, <2>2
<1>8. pc'[w] # "idle" => job'[w].sid = s /\ BusyOK(w, s)'
  BY <1>3, <1>4, <1>6 DEF BusyOK
<1>9. TypeOK' /\ now' > 0 /\ DOMAIN grants' \ DOMAIN grants = {}
  BY <1>1, <1>2, <1>3, <1>4 DEF TypeOK, GoroutinesTyped, Places
<1>10. QED
  BY <1>5, <1>7, <1>8, <1>9, OneStep

\* The merged parameters are the pushed ones, where there are any.
LEMMA AdmittedOK ==
  ASSUME NEW s \in SessionIDs, Inv, sessions[s].kind = "par", sessions[s].status = "pending",
         NEW param \in Params \cup {NoParam}, NEW x,
         \/ x = Admitted(sessions[s], param)
         \/ x = [sessions[s] EXCEPT !.param = Admitted(sessions[s], param).param]
  PROVE  x \in Session /\ x.kind = "par" /\ SessionOK(s, x) /\ s \notin aborted
<1>1. /\ sessions[s] \in Session /\ SessionOK(s, sessions[s]) /\ s \notin aborted
      /\ now + AuthLifetime \in Nat
  BY EndpointAssumption DEF Inv, TypeOK, StoredOK
<1>. PICK y : y = IF FAPI THEN sessions[s].param ELSE mergeParams(sessions[s].param, param)
  OBVIOUS
<1>2. y \in Params \cup {NoParam} /\ (pushed[s] # NoParam => y = pushed[s])
  BY <1>1 DEF Session, SessionOK, mergeParams
<1>3. /\ Admitted(sessions[s], param) \in Session
      /\ Admitted(sessions[s], param).kind = "par" /\ Admitted(sessions[s], param).param = y
  <2>. PICK z : z = Admitted(sessions[s], param)
    OBVIOUS
  <2>. PICK r, e : r = sessions[s] /\ e = now + AuthLifetime
    OBVIOUS
  <2>. PICK r1 : r1 = [r EXCEPT !.param = y]
    OBVIOUS
  <2>. PICK r2 : r2 = [r1 EXCEPT !.policy = TRUE]
    OBVIOUS
  <2>1. z = [r2 EXCEPT !.expiresAt = e]
    BY DEF Admitted
  <2>2. r1 \in Session /\ r1.kind = r.kind /\ r1.param = y
    BY <1>1, <1>2 DEF Session
  <2>3. r2 \in Session /\ r2.kind = r.kind /\ r2.param = y
    BY <2>2 DEF Session
  <2>4. e \in Nat /\ r.kind = "par"
    BY <1>1
  <2>5. z \in Session /\ z.kind = "par" /\ z.param = y
    BY <2>1, <2>3, <2>4 DEF Session
  <2>6. QED
    BY <2>5
<1>4. x \in Session /\ x.kind = "par" /\ x.param = y
  <2>1. CASE x = Admitted(sessions[s], param)
    BY <1>3, <2>1
  <2>2. CASE x = [sessions[s] EXCEPT !.param = Admitted(sessions[s], param).param]
    BY <1>1, <1>2, <1>3, <2>2 DEF Session
  <2>3. QED
    BY <2>1, <2>2
<1>5. QED
  BY <1>1, <1>2, <1>4 DEF SessionOK

\* A request_uri is presented (initAuth).
LEMMA PushedStep ==
  ASSUME NEW w \in Workers, NEW s \in SessionIDs, NEW param \in Params \cup {NoParam},
         NEW ok \in BOOLEAN, NEW setup \in {"ok", "no_policy", "no_credential"},
         Inv, InitAuthPushed(w, s, param, ok, setup), UNCHANGED manager
  PROVE  Inv'
<1>1. sessions[s].kind = "par" /\ UNCHANGED <<manager, now, grants, pushed, aborted, denied>>
  BY DEF InitAuthPushed
<1>2. CASE Start(w, s, sessions[s], TRUE, "failing") /\ UNCHANGED <<sessions, begun>>
  BY <1>1, <1>2, ResumeStep
<1>3. ASSUME NEW x, sessions[s].status = "pending",
             \/ x = Admitted(sessions[s], param)
             \/ x = [sessions[s] EXCEPT !.param = Admitted(sessions[s], param).param],
             sessions' = IF SharedRecords THEN [sessions EXCEPT ![s] = x] ELSE sessions,
             \/ begun' = begun
             \/ begun' = [begun EXCEPT ![s] = IF @ = 0 THEN now ELSE @],
             Stop(w) \/ Start(w, s, x, TRUE, "authenticating")
      PROVE  Inv'
  <2>1. x \in Session /\ x.kind = "par" /\ SessionOK(s, x) /\ s \notin aborted
    BY <1>1, <1>3, AdmittedOK
  <2>2. QED
    BY <1>1, <1>3, <2>1, AssignStep
<1>4. QED
  <2>1. CASE ~ValidateRequestWithPAR(sessions[s], ok)
    BY <1>2, <2>1 DEF InitAuthPushed
  <2>2. CASE ValidateRequestWithPAR(sessions[s], ok)
    <3>1. sessions[s].status = "pending"
      BY <2>2 DEF ValidateRequestWithPAR
    <3>2. CASE setup = "no_policy"
      BY <1>3, <2>2, <3>1, <3>2 DEF InitAuthPushed
    <3>3. CASE setup \in {"no_credential", "ok"}
      BY <1>3, <2>2, <3>1, <3>3 DEF InitAuthPushed
    <3>4. QED
      BY <3>2, <3>3
  <2>3. QED
    BY <2>1, <2>2

\* A request is stored under a new request_uri (pushAuth).
LEMMA PushStep ==
  ASSUME NEW s \in SessionIDs, NEW param \in Params \cup {NoParam}, Inv, PushAuth(s, param),
         UNCHANGED manager
  PROVE  Inv'
<1>. PICK x : x = [kind |-> "par", status |-> "pending", policy |-> FALSE,
                   expiresAt |-> now + PARLifetime, param |-> param]
  OBVIOUS
<1>1. TypeOK /\ StoredOK(s) /\ now > 0
  BY DEF Inv
<1>2. x \in Session /\ x.kind = "par" /\ x.param = param
  BY <1>1, EndpointAssumption DEF Session, TypeOK
<1>3. /\ Fresh(s) /\ sessions' = [sessions EXCEPT ![s] = x]
      /\ pushed' = [pushed EXCEPT ![s] = param]
      /\ UNCHANGED <<manager, now, grants, pc, job, held, begun, aborted, denied>>
  BY DEF PushAuth, Fresh
<1>4. /\ sessions' \in [SessionIDs -> Session] /\ sessions'[s] = x /\ pushed'[s] = param
      /\ \A k \in SessionIDs \ {s} : sessions'[k] = sessions[k] /\ pushed'[k] = pushed[k]
      /\ pushed' \in [SessionIDs -> Params \cup {NoParam}]
  BY <1>1, <1>2, <1>3 DEF TypeOK
<1>. PICK w : w \notin Workers
  BY NoSetContainsEverything
<1>5. Touches(w, s) /\ Gentle(w, s)
  BY <1>3, <1>4 DEF Touches, Gentle
<1>6. StoredOK(s)'
  BY <1>1, <1>2, <1>3, <1>4 DEF StoredOK, SessionOK, Fresh
<1>7. TypeOK' /\ now' > 0 /\ DOMAIN grants' \ DOMAIN grants = {}
  BY <1>1, <1>3, <1>4 DEF TypeOK
<1>8. QED
  BY <1>5, <1>6, <1>7, OneStep

\* The grant is made from the session in hand (NewGrant).
LEMMA CreateGrantStep ==
  ASSUME NEW w \in Workers, Inv, CreateGrant(w), UNCHANGED manager
  PROVE  Inv'
<1>1. TypeOK /\ job[w] \in Job /\ View(w) \in Session /\ job[w].sid \in SessionIDs
  BY ViewTyped DEF Inv, TypeOK
<1>. PICK s \in SessionIDs : s = job[w].sid
  BY <1>1
<1>2. /\ pc[w] = "granting" /\ Stop(w)
      /\ UNCHANGED <<manager, now, sessions, pushed, begun, aborted, denied>>
  BY DEF CreateGrant
<1>3. BusyOK(w, s) /\ StoredOK(s)
  BY <1>2 DEF Inv
<1>4. CASE UNCHANGED grants
  <2>1. denied' \subseteq SessionIDs
    BY <1>1, <1>2 DEF TypeOK
  <2>2. QED
    BY <1>2, <1>4, <2>1, EndStep
<1>5. CASE grants' = Append(grants, [sid |-> s, param |-> View(w).param, at |-> job[w].at])
  <2>. PICK g : g = [sid |-> s, param |-> View(w).param, at |-> job[w].at]
    OBVIOUS
  <2>1. g \in Grant /\ g.sid = s /\ g.param = View(w).param /\ g.at = job[w].at
    BY <1>1 DEF Grant, Job, Session
  <2>2. grants \in Seq(Grant) /\ grants' = Append(grants, g)
    BY <1>1, <1>5 DEF TypeOK
  <2>3. /\ grants' \in Seq(Grant) /\ DOMAIN grants \subseteq DOMAIN grants'
        /\ \A i \in DOMAIN grants : grants'[i] = grants[i]
        /\ \A i \in DOMAIN grants' \ DOMAIN grants : grants'[i] = g
    BY <2>1, <2>2
  <2>4. GoroutinesTyped /\ Others(w) /\ pc'[w] = "idle"
    BY <1>1, <1>2, Stopped
  <2>5. Touches(w, s) /\ Gentle(w, s) /\ StoredOK(s)'
    BY <1>2, <1>3, <2>3, <2>4 DEF Touches, Gentle, KindKept, Others, StoredOK, SessionOK
  <2>6. GrantOK(g)'
    <3>1. sessions[s].kind # "none" /\ sessions[s].kind = View(w).kind
      BY <1>2, <1>3 DEF BusyOK
    <3>2. QED
      BY <1>2, <1>3, <2>1, <3>1 DEF GrantOK, BusyOK, SessionOK
  <2>7. \A i \in DOMAIN grants' \ DOMAIN grants : GrantOK(grants[i])'
    BY <2>3, <2>6 DEF GrantOK
  <2>8. TypeOK' /\ now' > 0
    BY <1>1, <1>2, <2>3, <2>4 DEF TypeOK, GoroutinesTyped, Places, Inv
  <2>9. QED
    BY <2>4, <2>5, <2>7, <2>8, OneStep
<1>6. QED
  BY <1>4, <1>5 DEF CreateGrant

\* Time passes, or nothing happens.
LEMMA StillStep ==
  ASSUME Inv, now' \in Nat, now' > 0,
         UNCHANGED <<manager, sessions, grants, pc, job, held, pushed, begun, aborted, denied>>
  PROVE  Inv'
<1>1. TypeOK'
  BY DEF Inv, TypeOK
<1>2. \A s \in SessionIDs : StoredOK(s)'
  BY DEF Inv, StoredOK, SessionOK
<1>3. \A w \in Workers : pc'[w] # "idle" => BusyOK(w, job[w].sid)'
  BY DEF Inv, BusyOK, SessionOK, View, SharedRecords
<1>4. \A i \in DOMAIN grants' : GrantOK(grants[i])'
  BY DEF Inv, GrantOK
<1>5. QED
  BY <1>1, <1>2, <1>3, <1>4 DEF Inv

\* Every step keeps the invariant.
LEMMA NextInv == Inv /\ [Next]_vars => Inv'
<1> SUFFICES ASSUME Inv, [Next]_vars PROVE Inv'
  OBVIOUS
<1>1. CASE UNCHANGED vars
  <2>1. now' \in Nat /\ now' > 0
    BY <1>1 DEF vars, Inv, TypeOK
  <2>2. QED
    BY <1>1, <2>1, StillStep DEF vars
<1>2. CASE Next
  <2>1. UNCHANGED manager
    BY <1>2 DEF Next
  <2>2. CASE Tick
    <3>1. now' \in Nat /\ now' > 0
      BY <2>2 DEF Tick, Inv, TypeOK
    <3>2. QED
      BY <2>1, <2>2, <3>1, StillStep DEF Tick
  <2>3. ASSUME NEW s \in SessionIDs, NEW param \in Params \cup {NoParam}, PushAuth(s, param)
        PROVE  Inv'
    BY <2>1, <2>3, PushStep
  <2>4. ASSUME NEW w \in Workers, NEW s \in SessionIDs, NEW param \in Params \cup {NoParam},
               InitAuthDirect(w, s, param)
        PROVE  Inv'
    BY <2>1, <2>4, DirectStep
  <2>5. ASSUME NEW w \in Workers, NEW s \in SessionIDs, NEW param \in Params \cup {NoParam},
               NEW ok \in BOOLEAN, NEW setup \in {"ok", "no_policy", "no_credential"},
               InitAuthPushed(w, s, param, ok, setup)
        PROVE  Inv'
    BY <2>1, <2>5, PushedStep
  <2>6. ASSUME NEW w \in Workers, NEW s \in SessionIDs, ContinueAuth(w, s) PROVE Inv'
    BY <2>1, <2>6, ResumeStep DEF ContinueAuth
  <2>7. ASSUME NEW w \in Workers, FailSession(w) \/ RejectWithoutPolicy(w) PROVE Inv'
    BY <2>1, <2>7, FailStep
  <2>8. ASSUME NEW w \in Workers, NEW status \in {"success", "pending", "failure"},
               Authenticate(w, status)
        PROVE  Inv'
    BY <2>1, <2>8, AuthenticateStep DEF Statuses
  <2>9. ASSUME NEW w \in Workers, CreateGrant(w) PROVE Inv'
    BY <2>1, <2>9, CreateGrantStep
  <2>10. QED
    BY <1>2, <2>2, <2>3, <2>4, <2>5, <2>6, <2>7, <2>8, <2>9 DEF Next, Step
<1>3. QED
  BY <1>1, <1>2

\* Nothing was pushed or begun before the first request.
LEMMA InitInv == Init => Inv
<1> SUFFICES ASSUME Init PROVE Inv
  OBVIOUS
<1>1. TypeOK /\ now > 0
  BY Defaults, EndpointAssumption DEF Init, TypeOK
<1>2. \A s \in SessionIDs : StoredOK(s)
  BY DEF Init, StoredOK, NoSession
<1>3. QED
  BY <1>1, <1>2 DEF Init, Inv

\* The invariant holds throughout.
LEMMA Invariant == Spec => []Inv
  BY InitInv, NextInv, PTL DEF Spec

\* mergeParams is applied to the stored request only, so that whoever presents
\* the request_uri, and however often, a grant carries what was pushed.
THEOREM PushedParametersPrevail == Spec => []PushedParametersWin
<1>1. Inv => PushedParametersWin
  BY DEF Inv, PushedParametersWin, GrantOK
<1>2. QED
  BY <1>1, Invariant, PTL

\* The deadline set by initAuth is the only one a session without PAR ever
\* has: no callback, save or stale copy extends it.
THEOREM AuthorizationsBounded == Spec => []BoundedAuthorization
<1>1. Inv => BoundedAuthorization
  BY DEF Inv, BoundedAuthorization, GrantOK
<1>2. QED
  BY <1>1, Invariant, PTL

\* A session that failed at a premature callback stays failed and without a
\* policy in the manager and in every copy, so no grant comes of it.
THEOREM AbortedStaysDead == Spec => AbortedNeverGranted
<1>1. Inv /\ [Next]_vars => [\A s \in aborted : ~Grants(s)]_vars
  <2> SUFFICES ASSUME Inv, Next, NEW s \in aborted, Grants(s) PROVE FALSE
    OBVIOUS
  <2>1. grants' # grants
    BY DEF Grants
  <2>2. PICK w \in Workers : CreateGrant(w)
    <3>1. ~Tick /\ \A k \in SessionIDs, param \in Params \cup {NoParam} : ~PushAuth(k, param)
      BY <2>1 DEF Tick, PushAuth
    <3>2. \A w \in Workers, k \in SessionIDs, param \in Params \cup {NoParam} :
            ~InitAuthDirect(w, k, param) /\ ~ContinueAuth(w, k)
      BY <2>1 DEF InitAuthDirect, ContinueAuth
    <3>3. ASSUME NEW w, NEW k, NEW param, NEW ok, NEW setup,
                 InitAuthPushed(w, k, param, ok, setup)
          PROVE  FALSE
      BY <2>1, <3>3 DEF InitAuthPushed
    <3>4. \A w, status : ~FailSession(w) /\ ~RejectWithoutPolicy(w) /\ ~Authenticate(w, status)
      BY <2>1 DEF FailSession, RejectWithoutPolicy, Authenticate
    <3>5. QED
      BY <3>1, <3>2, <3>3, <3>4, Zenon DEF Next, Step
  <2>3. TypeOK /\ job[w] \in Job /\ View(w) \in Session /\ pc[w] = "granting"
    BY <2>2, ViewTyped DEF Inv, TypeOK, CreateGrant
  <2>. PICK g : g = [sid |-> job[w].sid, param |-> View(w).param, at |-> job[w].at]
    OBVIOUS
  <2>4. g \in Grant /\ g.sid = job[w].sid /\ grants \in Seq(Grant)
    BY <2>3 DEF Grant, Job, Session, TypeOK
  <2>5. grants' = Append(grants, g)
    BY <2>1, <2>2 DEF CreateGrant
  <2>6. \A i \in DOMAIN grants' \ DOMAIN grants : grants'[i] = g
    BY <2>4, <2>5
  <2>7. job[w].sid = s
    BY <2>4, <2>6 DEF Grants
  <2>8. QED
    BY <2>3, <2>7 DEF Inv, BusyOK
<1>2. QED
  BY <1>1, Invariant, PTL DEF Spec, AbortedNeverGranted
=============================================================================
