------------------------ MODULE DecoupledFlow_proofs ------------------------
(***************************************************************************)
(* Proofs about DecoupledFlow: any handles, goroutines and lifetimes, both *)
(* kinds of manager, with or without failures.                             *)
(***************************************************************************)
EXTENDS MCDecoupledFlow, FiniteSetTheorems, TLAPS

Goroutines == Approvers \cup Pollers
Mode(h) == sessions[h].mode

\* What came of a handle, and who works on it, agree with how it was opened;
\* an approval is announced after its grant was created.
GrantOK(g) ==
  /\ Mode(g.handle) # "none" /\ g.expiresAt = deadline[g.handle]
  /\ Mode(g.handle) = "push" => g.consumed
TokenOK(t) ==
  /\ Mode(t.handle) # "none"
  /\ t.via = "poll" => t.at < deadline[t.handle]
WorkerOK(p) ==
  /\ pc[p] # "idle" => Mode(job[p].handle) # "none"
  /\ pc[p] = "authenticating" => Mode(job[p].handle) = "device"
  /\ pc[p] \in {"resolving", "announcing"} => GrantsOf(job[p].handle) # {}
  /\ pc[p] = "nogrant" => ~job[p].announced

\* A poll that found a grant works on one of its handle; one that may redeem it
\* asked in time.
Stages == {"redeeming", "issuing", "revoking"}
ViewOK(p) ==
  /\ held[p].grant \in DOMAIN grants /\ grants[held[p].grant].handle = job[p].handle
  /\ ~SharedRecords => held[p].copy.handle = job[p].handle /\ GrantOK(held[p].copy)
HeldOK(p) ==
  pc[p] \in Stages =>
    /\ ViewOK(p)
    /\ pc[p] # "revoking" => /\ Mode(job[p].handle) # "push"
                             /\ held[p].at < deadline[job[p].handle]

Inv ==
  /\ TypeOK
  /\ \A h \in Handles : deadline[h] = sessions[h].expiresAt
  /\ \A i \in DOMAIN grants : GrantOK(grants[i])
  /\ \A i \in DOMAIN tokens : TokenOK(tokens[i])
  /\ \A p \in Goroutines : WorkerOK(p)
  /\ \A p \in Pollers : HeldOK(p)
  /\ \A h \in ready : GrantsOf(h) # {}

\* The approver works on the handle.
On(a, h) == pc[a] # "idle" /\ job[a].handle = h

\* The poll found a grant of the handle.
PollOn(p, h) == pc[p] \in Stages /\ job[p].handle = h

\* What holds of a CIBA request that one approver and one redeeming poll at a
\* time work on: it has at most one grant and one token, a token consumed the
\* grant, who is about to create a grant, to push or to issue a token finds
\* none, and the copy a poll holds does not undo the consumption.
Alone(h) ==
  /\ \A a, b \in Approvers : On(a, h) /\ On(b, h) => a = b
  /\ \A p, q \in Pollers : PollOn(p, h) /\ PollOn(q, h) => p = q
WorkOK(a, h) ==
  /\ pc[a] \in {"approving", "granting"} => GrantsOf(h) = {}
  /\ pc[a] \in {"resolving", "announcing"} /\ Mode(h) = "push" => TokensOf(h) = {}
PollOK(p, h) ==
  /\ pc[p] # "revoking" => TokensOf(h) = {}
  /\ pc[p] = "issuing" => grants[held[p].grant].consumed
  /\ ~SharedRecords /\ grants[held[p].grant].consumed => held[p].copy.consumed
SingleOK(h) ==
  Mode(h) \in CIBAModes =>
    /\ \A i, j \in GrantsOf(h) : i = j
    /\ \A i, j \in TokensOf(h) : i = j
    /\ TokensOf(h) # {} => \E i \in GrantsOf(h) : grants[i].consumed
    /\ \A a \in Approvers : On(a, h) => WorkOK(a, h)
    /\ \A p \in Pollers : PollOn(p, h) => PollOK(p, h)

SinglesOK == \A h \in Handles \ contended : Alone(h) /\ SingleOK(h)

-----------------------------------------------------------------------------
(* What the steps do to sessions, grants and tokens. *)

SessionsKept ==
  /\ deadline' = deadline
  /\ \A h \in Handles : Mode(h)' = Mode(h) /\ sessions'[h].expiresAt = sessions[h].expiresAt

\* Grants are appended, and keep their handles; what is stored is in order.
GrantsGrow ==
  /\ DOMAIN grants \subseteq DOMAIN grants'
  /\ \A i \in DOMAIN grants : grants'[i].handle = grants[i].handle
GrantsSaved ==
  \A i \in DOMAIN grants' :
    GrantOK(grants[i])' \/ (i \in DOMAIN grants /\ grants'[i] = grants[i])

TokensGrow ==
  /\ DOMAIN tokens \subseteq DOMAIN tokens'
  /\ \A i \in DOMAIN tokens : tokens'[i] = tokens[i]

\* No goroutine but p moves.
Only(p) == \A q \in Goroutines \ {p} : pc'[q] = pc[q] /\ job'[q] = job[q]
HeldOnly(p) == \A q \in Pollers \ {p} : held'[q] = held[q]

\* Every stored grant and token is well formed and belongs to a request.
LEMMA Elements ==
  ASSUME TypeOK
  PROVE  /\ \A i \in DOMAIN grants : grants[i] \in Grant /\ grants[i].handle \in Handles
         /\ \A i \in DOMAIN tokens : tokens[i] \in Token /\ tokens[i].handle \in Handles
<1>1. grants \in Seq(Grant) /\ tokens \in Seq(Token)
  BY DEF TypeOK
<1>2. \A i \in DOMAIN grants : grants[i] \in Grant
  BY <1>1
<1>3. \A i \in DOMAIN tokens : tokens[i] \in Token
  BY <1>1
<1>4. QED
  BY <1>2, <1>3 DEF Grant, Token

\* A stored grant stays in order while its handle keeps its mode and deadline.
LEMMA GrantStays ==
  ASSUME SessionsKept, NEW g, g.handle \in Handles, GrantOK(g)
  PROVE  GrantOK(g)'
  BY DEF SessionsKept, GrantOK, Mode

\* The invariant follows when what is new is in order.
LEMMA Kept ==
  ASSUME Inv, TypeOK', SessionsKept, GrantsGrow, TokensGrow, NEW p \in Goroutines, Only(p),
         HeldOnly(p), GrantsSaved,
         \A i \in DOMAIN tokens' \ DOMAIN tokens : TokenOK(tokens[i])',
         WorkerOK(p)', p \in Pollers => HeldOK(p)',
         \A h \in ready' \ ready : GrantsOf(h)' # {}
  PROVE  Inv'
<1>1. \A h \in Handles : GrantsOf(h) # {} => GrantsOf(h)' # {}
  BY DEF GrantsOf, GrantsGrow
<1>2. \A h \in Handles : (deadline[h] = sessions[h].expiresAt)'
  BY DEF Inv, SessionsKept
<1>3. \A i \in DOMAIN grants' : GrantOK(grants[i])'
  <2>1. ASSUME NEW i \in DOMAIN grants, grants'[i] = grants[i] PROVE GrantOK(grants[i])'
    <3>. PICK g : g = grants[i]
      OBVIOUS
    <3>1. g.handle \in Handles /\ GrantOK(g)
      BY Elements DEF Inv
    <3>2. GrantOK(g)'
      BY <3>1, GrantStays
    <3>3. QED
      BY <2>1, <3>2 DEF GrantOK, Mode
  <2>2. QED
    BY <2>1 DEF GrantsSaved
<1>4. \A i \in DOMAIN tokens' : TokenOK(tokens[i])'
  <2>1. ASSUME NEW i \in DOMAIN tokens PROVE TokenOK(tokens[i])'
    <3>1. tokens[i].handle \in Handles
      BY Elements DEF Inv
    <3>2. TokenOK(tokens[i]) /\ tokens'[i] = tokens[i]
      BY DEF Inv, TokensGrow
    <3>3. Mode(tokens[i].handle)' = Mode(tokens[i].handle) /\ deadline' = deadline
      BY <3>1, <3>2 DEF SessionsKept, Mode
    <3>4. QED
      BY <3>2, <3>3 DEF TokenOK
  <2>2. QED
    BY <2>1
<1>5. \A q \in Goroutines : WorkerOK(q)'
  <2>1. ASSUME NEW q \in Goroutines \ {p} PROVE WorkerOK(q)'
    <3>1. job[q].handle \in Handles /\ pc'[q] = pc[q] /\ job'[q] = job[q]
      BY DEF Inv, TypeOK, Job, Only, Goroutines
    <3>2. GrantsOf(job[q].handle) # {} => GrantsOf(job[q].handle)' # {}
      BY <1>1, <3>1 DEF GrantsOf
    <3>3. Mode(job[q].handle)' = Mode(job[q].handle)
      BY <3>1 DEF SessionsKept, Mode
    <3>4. WorkerOK(q)
      BY DEF Inv
    <3>5. QED
      BY <3>1, <3>2, <3>3, <3>4 DEF WorkerOK
  <2>2. QED
    BY <2>1
<1>6. \A q \in Pollers : HeldOK(q)'
  <2>1. ASSUME NEW q \in Pollers \ {p}, pc'[q] \in Stages PROVE HeldOK(q)'
    <3>. PICK h \in Handles : h = job[q].handle
      BY DEF Inv, TypeOK, Job
    <3>. PICK x : x = held[q]
      OBVIOUS
    <3>1. pc'[q] = pc[q] /\ job'[q] = job[q] /\ held'[q] = x
      BY DEF Only, HeldOnly, Goroutines
    <3>2. Mode(h)' = Mode(h) /\ deadline' = deadline
      BY DEF SessionsKept, Mode
    <3>3. /\ x.grant \in DOMAIN grants /\ grants[x.grant].handle = h
          /\ ~SharedRecords => x.copy.handle = h /\ GrantOK(x.copy)
          /\ pc[q] # "revoking" => Mode(h) # "push" /\ x.at < deadline[h]
      BY <2>1, <3>1 DEF Inv, HeldOK, ViewOK
    <3>4. x.grant \in DOMAIN grants' /\ grants'[x.grant].handle = h
      BY <3>3 DEF GrantsGrow
    <3>5. ~SharedRecords => GrantOK(x.copy)'
      BY <3>2, <3>3 DEF GrantOK
    <3>6. ViewOK(q)'
      BY <3>1, <3>3, <3>4, <3>5 DEF ViewOK, GrantOK, Mode
    <3>7. QED
      BY <3>1, <3>2, <3>3, <3>6 DEF HeldOK, Mode
  <2>2. QED
    BY <2>1 DEF HeldOK
<1>7. \A h \in ready' : GrantsOf(h)' # {}
  BY <1>1 DEF Inv, TypeOK
<1>8. QED
  BY <1>2, <1>3, <1>4, <1>5, <1>6, <1>7 DEF Inv

\* What SetStatus does to the sessions.
LEMMA StatusSet ==
  ASSUME TypeOK, deadline' = deadline, NEW h \in Handles,
         \/ UNCHANGED sessions
         \/ \E status \in {"pending", "success", "failure"} : SetStatus(h, status)
  PROVE  sessions' \in [Handles -> Session] /\ SessionsKept
<1>1. CASE UNCHANGED sessions
  BY <1>1 DEF SessionsKept, TypeOK, Mode
<1>2. ASSUME NEW status \in {"pending", "success", "failure"}, SetStatus(h, status)
      PROVE  sessions' \in [Handles -> Session] /\ SessionsKept
  <2>1. sessions[h] \in Session
    BY DEF TypeOK
  <2>2. sessions' = [sessions EXCEPT ![h] = [sessions[h] EXCEPT !.status = status]]
    BY <1>2 DEF SetStatus
  <2>3. [sessions[h] EXCEPT !.status = status] \in Session
    BY <2>1 DEF Session
  <2>4. QED
    BY <2>1, <2>2, <2>3 DEF SessionsKept, TypeOK, Mode, Session
<1>3. QED
  BY <1>1, <1>2

Places == {"idle", "authenticating", "approving", "granting", "resolving", "announcing",
           "denying", "nogrant"} \cup Stages

\* Where a goroutine goes.
LEMMA Stopped ==
  ASSUME TypeOK, NEW p \in Goroutines, Stop(p)
  PROVE  /\ pc' \in [Goroutines -> Places] /\ job' \in [Goroutines -> Job]
         /\ Only(p) /\ pc'[p] = "idle"
<1>1. NoJob \in Job
  BY FlowAssumption DEF NoJob, Job
<1>2. QED
  BY <1>1 DEF TypeOK, Stop, Only, Goroutines, Places, Stages

\* A goroutine that goes on moves alone and keeps its job.
LEMMA Gone ==
  ASSUME TypeOK, NEW p \in Goroutines, NEW where \in Places, Goto(p, where)
  PROVE  pc' \in [Goroutines -> Places] /\ job' = job /\ Only(p) /\ pc'[p] = where
  BY DEF TypeOK, Goto, Only, Goroutines, Places, Stages

\* A goroutine that starts takes the handle as its job and notes whether the
\* client had been told about it.
LEMMA Started ==
  ASSUME TypeOK, NEW p \in Goroutines, NEW where \in Places, NEW h \in Handles,
         NEW own \in BOOLEAN, Start(p, where, h, own)
  PROVE  /\ pc' \in [Goroutines -> Places] /\ job' \in [Goroutines -> Job] /\ Only(p)
         /\ pc'[p] = where /\ job'[p].handle = h /\ (job'[p].announced <=> h \in ready)
<1> DEFINE Noted(b) == [handle |-> h, own |-> own, announced |-> b]
           j == Noted(h \in ready)
<1>1. j \in Job /\ j.handle = h /\ (j.announced <=> h \in ready)
  <2>1. \A b \in BOOLEAN : Noted(b) \in Job /\ Noted(b).handle = h /\ (Noted(b).announced <=> b)
    BY DEF Job
  <2>2. (h \in ready) \in BOOLEAN
    OBVIOUS
  <2> HIDE DEF Noted
  <2>3. QED
    BY <2>1, <2>2, Zenon
<1> HIDE DEF j
<1>2. pc' = [pc EXCEPT ![p] = where] /\ job' = [job EXCEPT ![p] = j]
  BY DEF Start, j
<1>3. job \in [Goroutines -> Job] /\ pc \in [Goroutines -> Places]
  BY DEF TypeOK, Goroutines, Places, Stages
<1>4. QED
  BY <1>1, <1>2, <1>3 DEF Only

\* Appending keeps what is there.
LEMMA Appended ==
  ASSUME NEW S, NEW s \in Seq(S), NEW x \in S
  PROVE  /\ Append(s, x) \in Seq(S) /\ DOMAIN s \subseteq DOMAIN Append(s, x)
         /\ DOMAIN Append(s, x) \ DOMAIN s = {Len(s) + 1}
         /\ Append(s, x)[Len(s) + 1] = x /\ \A i \in DOMAIN s : Append(s, x)[i] = s[i]
  OBVIOUS

\* The client is told something.
LEMMA Told ==
  ASSUME TypeOK, NEW h \in Handles, NEW own, NEW answer, Tell(h, own, answer)
  PROVE  settled' \subseteq Handles
  BY DEF TypeOK, Tell

\* Nothing that was created changes.
LEMMA NothingNew ==
  ASSUME UNCHANGED <<grants, tokens, ready>>
  PROVE  /\ GrantsGrow /\ GrantsSaved /\ TokensGrow
         /\ DOMAIN tokens' \ DOMAIN tokens = {}
         /\ ready' \ ready = {}
         /\ \A h : GrantsOf(h)' = GrantsOf(h) /\ TokensOf(h)' = TokensOf(h)
  BY DEF GrantsGrow, GrantsSaved, TokensGrow, GrantsOf, TokensOf

-----------------------------------------------------------------------------
(* One step per action. *)

\* A step that touches no record, such as the clock's, disturbs nothing.
LEMMA StillStep ==
  ASSUME Inv, now' \in Nat,
         UNCHANGED <<sessions, grants, tokens, deadline, ready, settled, pc, job, held>>
  PROVE  Inv'
<1>1. TypeOK'
  BY DEF Inv, TypeOK
<1>2. \A h \in Handles : (deadline[h] = sessions[h].expiresAt)'
  BY DEF Inv
<1>3. \A i \in DOMAIN grants' : GrantOK(grants[i])'
  BY DEF Inv, GrantOK, Mode
<1>4. \A i \in DOMAIN tokens' : TokenOK(tokens[i])'
  BY DEF Inv, TokenOK, Mode
<1>5. \A p \in Goroutines : WorkerOK(p)'
  BY DEF Inv, WorkerOK, Mode, GrantsOf
<1>6. \A p \in Pollers : HeldOK(p)'
  BY DEF Inv, HeldOK, ViewOK, GrantOK, Mode
<1>7. \A h \in ready' : GrantsOf(h)' # {}
  BY DEF Inv, GrantsOf
<1>8. QED
  BY <1>1, <1>2, <1>3, <1>4, <1>5, <1>6, <1>7 DEF Inv

\* A handle that is opened has no history (initDeviceAuth, initBackAuth).
LEMMA OpenStep ==
  ASSUME NEW h \in Handles, NEW mode \in Modes PROVE Inv /\ Open(h, mode) => Inv'
<1> SUFFICES ASSUME Inv, Open(h, mode) PROVE Inv'
  OBVIOUS
<1> DEFINE new == [mode |-> mode, status |-> "pending", expiresAt |-> now + RequestLifetime]
<1>1. /\ Mode(h) = "none" /\ sessions' = [sessions EXCEPT ![h] = new]
      /\ deadline' = [deadline EXCEPT ![h] = now + RequestLifetime]
      /\ UNCHANGED <<now, grants, tokens, ready, settled, pc, job, held>>
  BY DEF Open, Mode
<1>2. now + RequestLifetime \in Nat /\ new \in Session /\ new.expiresAt = now + RequestLifetime
  BY FlowAssumption DEF Session, Inv, TypeOK, CIBAModes
<1> HIDE DEF new
<1>3. TypeOK'
  BY <1>1, <1>2 DEF Inv, TypeOK
<1>4. \A k \in Handles : (deadline[k] = sessions[k].expiresAt)'
  BY <1>1, <1>2 DEF Inv, TypeOK
<1>5. \A k \in Handles \ {h} : Mode(k)' = Mode(k) /\ deadline'[k] = deadline[k]
  BY <1>1 DEF Inv, TypeOK, Mode
<1>6. ASSUME NEW i \in DOMAIN grants PROVE GrantOK(grants[i])'
  <2>1. grants[i].handle \in Handles \ {h} /\ GrantOK(grants[i])
    BY <1>1, Elements DEF Inv, GrantOK
  <2>2. Mode(grants[i].handle)' = Mode(grants[i].handle)
    BY <1>1, <1>5, <2>1 DEF Mode
  <2>3. QED
    BY <1>1, <1>5, <2>1, <2>2 DEF GrantOK
<1>7. ASSUME NEW i \in DOMAIN tokens PROVE TokenOK(tokens[i])'
  <2>1. tokens[i].handle \in Handles \ {h} /\ TokenOK(tokens[i])
    BY <1>1, Elements DEF Inv, TokenOK
  <2>2. Mode(tokens[i].handle)' = Mode(tokens[i].handle)
    BY <1>1, <1>5, <2>1 DEF Mode
  <2>3. QED
    BY <1>1, <1>5, <2>1, <2>2 DEF TokenOK
<1>8. ASSUME NEW p \in Goroutines PROVE WorkerOK(p)'
  <2>1. WorkerOK(p) /\ job[p].handle \in Handles
    BY DEF Inv, TypeOK, Job, Goroutines
  <2>2. CASE pc[p] = "idle"
    BY <1>1, <2>2 DEF WorkerOK
  <2>3. CASE pc[p] # "idle"
    <3>1. job[p].handle \in Handles \ {h}
      BY <1>1, <2>1, <2>3 DEF WorkerOK
    <3>2. Mode(job[p].handle)' = Mode(job[p].handle)
      BY <1>1, <1>5, <3>1 DEF Mode
    <3>3. QED
      BY <1>1, <2>1, <3>2 DEF WorkerOK, GrantsOf
  <2>4. QED
    BY <2>2, <2>3
<1>9. ASSUME NEW p \in Pollers, pc[p] \in Stages PROVE HeldOK(p)'
  <2>. PICK k \in Handles : k = job[p].handle
    BY DEF Inv, TypeOK, Job
  <2>1. HeldOK(p) /\ Mode(k) # "none"
    BY <1>9 DEF Inv, WorkerOK, Goroutines, Stages
  <2>2. Mode(k)' = Mode(k) /\ deadline'[k] = deadline[k]
    BY <1>1, <1>5, <2>1
  <2>3. ViewOK(p)'
    BY <1>1, <1>9, <2>1, <2>2 DEF HeldOK, ViewOK, GrantOK, Mode
  <2>4. QED
    BY <1>1, <1>9, <2>1, <2>2, <2>3 DEF HeldOK, Mode
<1>10. \A p \in Pollers : HeldOK(p)'
  BY <1>1, <1>9 DEF HeldOK
<1>11. QED
  BY <1>1, <1>3, <1>4, <1>6, <1>7, <1>8, <1>10 DEF Inv, GrantsOf

\* A goroutine starts (BeginVerify, BeginApprove, BeginDeny, PollNoGrant).
LEMMA StartStep ==
  ASSUME Inv, NEW p \in Goroutines, NEW h \in Handles, NEW own \in BOOLEAN,
         NEW where \in {"authenticating", "approving", "denying", "nogrant"},
         Start(p, where, h, own), Mode(h) # "none",
         where = "authenticating" => Mode(h) = "device",
         where = "nogrant" => GrantsOf(h) = {},
         UNCHANGED <<now, sessions, grants, tokens, deadline, ready, settled, held>>
  PROVE  Inv'
<1>1. /\ pc' \in [Goroutines -> Places] /\ job' \in [Goroutines -> Job] /\ Only(p)
      /\ pc'[p] = where /\ job'[p].handle = h /\ (job'[p].announced <=> h \in ready)
  <2>1. where \in Places /\ TypeOK
    BY DEF Places, Inv
  <2>2. QED
    BY <2>1, Started
<1>2. TypeOK'
  BY <1>1 DEF Inv, TypeOK, Goroutines, Places, Stages
<1>3. SessionsKept
  BY DEF SessionsKept, Mode
<1>4. WorkerOK(p)'
  <2>1. Mode(job[p].handle)' = Mode(h)
    BY <1>1 DEF Mode
  <2>2. where = "nogrant" => h \notin ready
    BY DEF Inv
  <2>3. QED
    BY <1>1, <2>1, <2>2 DEF WorkerOK
<1>5. HeldOnly(p) /\ HeldOK(p)'
  BY <1>1 DEF HeldOnly, HeldOK, Stages
<1>6. QED
  BY <1>1, <1>2, <1>3, <1>4, <1>5, NothingNew, Kept

\* A goroutine that ends, having done no more than set a status or answer.
LEMMA StopStep ==
  ASSUME Inv, NEW p \in Goroutines, NEW h \in Handles, Stop(p),
         settled' \subseteq Handles,
         \/ UNCHANGED sessions
         \/ \E status \in {"pending", "success", "failure"} : SetStatus(h, status),
         UNCHANGED <<now, grants, tokens, deadline, ready, held>>
  PROVE  Inv'
<1>1. /\ pc' \in [Goroutines -> Places] /\ job' \in [Goroutines -> Job]
      /\ Only(p) /\ pc'[p] = "idle"
  BY Stopped DEF Inv
<1>2. sessions' \in [Handles -> Session] /\ SessionsKept
  BY StatusSet DEF Inv
<1>3. TypeOK'
  BY <1>1, <1>2 DEF Inv, TypeOK, Goroutines, Places, Stages
<1>4. WorkerOK(p)'
  BY <1>1 DEF WorkerOK
<1>5. HeldOnly(p) /\ HeldOK(p)'
  BY <1>1 DEF HeldOnly, HeldOK, Stages
<1>6. QED
  BY <1>1, <1>2, <1>3, <1>4, <1>5, NothingNew, Kept

\* A goroutine that goes on, having done no more than set a status.
LEMMA GotoStep ==
  ASSUME Inv, NEW p \in Goroutines, NEW where \in {"granting", "denying", "announcing"},
         Goto(p, where), pc[p] # "idle",
         where = "announcing" => pc[p] = "resolving",
         \/ UNCHANGED sessions
         \/ \E status \in {"pending", "success", "failure"} : SetStatus(job[p].handle, status),
         UNCHANGED <<now, grants, tokens, deadline, ready, settled, held>>
  PROVE  Inv'
<1>1. job[p].handle \in Handles
  BY DEF Inv, TypeOK, Job, Goroutines
<1>2. pc' \in [Goroutines -> Places] /\ job' = job /\ Only(p) /\ pc'[p] = where
  <2>1. where \in Places /\ TypeOK
    BY DEF Places, Inv
  <2>2. QED
    BY <2>1, Gone
<1>3. sessions' \in [Handles -> Session] /\ SessionsKept
  BY <1>1, StatusSet DEF Inv
<1>4. TypeOK'
  BY <1>2, <1>3 DEF Inv, TypeOK, Goroutines, Places, Stages
<1>5. WorkerOK(p)'
  <2>1. Mode(job[p].handle)' = Mode(job[p].handle)
    BY <1>1, <1>2, <1>3 DEF SessionsKept, Mode
  <2>2. GrantsOf(job[p].handle)' = GrantsOf(job[p].handle)
    BY <1>2 DEF GrantsOf
  <2>3. WorkerOK(p)
    BY DEF Inv
  <2>4. QED
    BY <1>2, <2>1, <2>2, <2>3 DEF WorkerOK
<1>6. HeldOnly(p) /\ HeldOK(p)'
  BY <1>2 DEF HeldOnly, HeldOK, Stages
<1>7. QED
  BY <1>2, <1>3, <1>4, <1>5, <1>6, NothingNew, Kept

\* The grant of an approval, with the deadline of its handle.
NewGrant(h) == [handle |-> h, expiresAt |-> sessions[h].expiresAt,
                consumed |-> sessions[h].mode = "push", revoked |-> FALSE]

\* The grant saveGrant makes is well formed and ends when its session ends.
LEMMA NewGrantTyped ==
  ASSUME TypeOK, NEW h \in Handles
  PROVE  /\ NewGrant(h) \in Grant /\ NewGrant(h).handle = h
         /\ NewGrant(h).expiresAt = sessions[h].expiresAt
         /\ (NewGrant(h).consumed <=> Mode(h) = "push")
<1> DEFINE g(b) == [handle |-> h, expiresAt |-> sessions[h].expiresAt, consumed |-> b,
                    revoked |-> FALSE]
<1>1. sessions[h].expiresAt \in Nat
  BY DEF TypeOK, Session
<1>2. \A b \in BOOLEAN : /\ g(b) \in Grant /\ g(b).handle = h
                         /\ g(b).expiresAt = sessions[h].expiresAt /\ (g(b).consumed <=> b)
  BY <1>1 DEF Grant
<1>3. NewGrant(h) = g(sessions[h].mode = "push") /\ (sessions[h].mode = "push") \in BOOLEAN
  BY DEF NewGrant
<1> HIDE DEF g
<1>4. QED
  BY <1>2, <1>3, Zenon DEF Mode

\* NewGrant: the grant keeps the deadline of its handle.
LEMMA CreateGrantStep == ASSUME NEW a \in Approvers PROVE Inv /\ CreateGrant(a) => Inv'
<1> SUFFICES ASSUME Inv, CreateGrant(a) PROVE Inv'
  OBVIOUS
<1>1. /\ pc[a] = "granting" /\ UNCHANGED <<now, sessions, tokens, deadline, ready, settled, held>>
      /\ a \in Goroutines
  BY DEF CreateGrant, Goroutines
<1>2. TypeOK /\ job[a].handle \in Handles
  BY DEF Inv, TypeOK, Job
<1>. PICK h \in Handles : h = job[a].handle
  BY <1>2
<1>. PICK g : g = NewGrant(h)
  OBVIOUS
<1>3. CASE UNCHANGED grants /\ Stop(a)
  <2>1. settled' \subseteq Handles
    BY <1>1 DEF Inv, TypeOK
  <2>2. QED
    BY <1>1, <1>2, <1>3, <2>1, StopStep
<1>4. ASSUME NEW where \in {"announcing", "resolving"}, grants' = Append(grants, g),
             Goto(a, where)
      PROVE  Inv'
  <2>1. /\ g \in Grant /\ g.handle = h /\ g.expiresAt = sessions[h].expiresAt
        /\ (g.consumed <=> Mode(h) = "push")
    BY <1>2, NewGrantTyped
  <2>2. pc' \in [Goroutines -> Places] /\ job' = job /\ Only(a) /\ pc'[a] = where
    <3>1. where \in Places
      BY DEF Places
    <3>2. QED
      BY <1>1, <1>2, <1>4, <3>1, Gone
  <2>3. grants \in Seq(Grant)
    BY DEF Inv, TypeOK
  <2>4. /\ grants' \in Seq(Grant) /\ DOMAIN grants \subseteq DOMAIN grants'
        /\ DOMAIN grants' \ DOMAIN grants = {Len(grants) + 1}
        /\ grants'[Len(grants) + 1] = g /\ \A i \in DOMAIN grants : grants'[i] = grants[i]
    BY <1>4, <2>1, <2>3, Appended
  <2>5. GrantsGrow /\ TokensGrow /\ SessionsKept /\ HeldOnly(a) /\ a \notin Pollers
    BY <1>1, <2>4, FlowAssumption DEF GrantsGrow, TokensGrow, SessionsKept, Mode, HeldOnly
  <2>6. TypeOK'
    BY <1>1, <2>2, <2>4 DEF Inv, TypeOK, Goroutines, Places, Stages
  <2>7. Mode(h) # "none" /\ Mode(h)' = Mode(h) /\ deadline'[h] = sessions[h].expiresAt
    BY <1>1 DEF Inv, WorkerOK, Mode
  <2>8. GrantOK(g)'
    BY <2>1, <2>7 DEF GrantOK
  <2>9. GrantsSaved
    BY <2>4, <2>8 DEF GrantsSaved, GrantOK, Mode
  <2>10. GrantsOf(h)' # {}
    <3>1. Len(grants) + 1 \in DOMAIN grants' /\ grants'[Len(grants) + 1].handle = h
      BY <2>1, <2>4
    <3>2. QED
      BY <3>1 DEF GrantsOf
  <2>11. WorkerOK(a)'
    <3>1. job'[a].handle = h
      BY <2>2
    <3>2. QED
      BY <2>2, <2>7, <2>10, <3>1 DEF WorkerOK, Mode, GrantsOf
  <2>12. DOMAIN tokens' \ DOMAIN tokens = {} /\ ready' \ ready = {}
    BY <1>1
  <2>13. QED
    BY <1>1, <2>2, <2>5, <2>6, <2>9, <2>11, <2>12, Kept
<1>5. QED
  <2>1. \/ UNCHANGED grants /\ Stop(a)
        \/ \E where \in {"announcing", "resolving"} : grants' = Append(grants, g) /\ Goto(a, where)
    BY DEF CreateGrant, NewGrant
  <2>2. QED
    BY <1>3, <1>4, <2>1

\* A token for the handle h.
LEMMA NewToken ==
  ASSUME TypeOK, NEW h \in Handles, NEW via \in {"poll", "push"}, Mode(h) # "none",
         NEW at \in Nat, via = "poll" => at < deadline[h], deadline' = deadline,
         Mode(h)' = Mode(h),
         tokens' = Append(tokens, [handle |-> h, via |-> via, at |-> at])
  PROVE  /\ tokens' \in Seq(Token) /\ TokensGrow
         /\ DOMAIN tokens' \ DOMAIN tokens = {Len(tokens) + 1}
         /\ \A i \in DOMAIN tokens' \ DOMAIN tokens : TokenOK(tokens[i])' /\ tokens'[i].handle = h
<1>. PICK t : t = [handle |-> h, via |-> via, at |-> at]
  OBVIOUS
<1>1. t \in Token /\ t.handle = h /\ t.via = via /\ t.at = at /\ tokens \in Seq(Token)
  BY DEF Token, TypeOK
<1>2. /\ tokens' \in Seq(Token) /\ DOMAIN tokens \subseteq DOMAIN tokens'
      /\ DOMAIN tokens' \ DOMAIN tokens = {Len(tokens) + 1}
      /\ tokens'[Len(tokens) + 1] = t /\ \A i \in DOMAIN tokens : tokens'[i] = tokens[i]
  BY <1>1, Appended
<1>3. TokenOK(t)'
  BY <1>1 DEF TokenOK, Mode
<1>4. \A i \in DOMAIN tokens' \ DOMAIN tokens : TokenOK(tokens[i])' /\ tokens'[i].handle = h
  BY <1>1, <1>2, <1>3 DEF TokenOK, Mode
<1>5. QED
  BY <1>2, <1>4 DEF TokensGrow

\* The approval is announced, or its tokens are pushed.
LEMMA AnnounceStep == ASSUME NEW a \in Approvers PROVE Inv /\ Announce(a) => Inv'
<1> SUFFICES ASSUME Inv, Announce(a) PROVE Inv'
  OBVIOUS
<1>1. /\ pc[a] = "announcing" /\ Stop(a) /\ UNCHANGED <<now, sessions, grants, deadline, held>>
      /\ a \in Goroutines
  BY DEF Announce, Goroutines
<1>2. TypeOK /\ job[a].handle \in Handles
  BY DEF Inv, TypeOK, Job
<1>. PICK h \in Handles : h = job[a].handle
  BY <1>2
<1>3. /\ pc' \in [Goroutines -> Places] /\ job' \in [Goroutines -> Job]
      /\ Only(a) /\ pc'[a] = "idle"
  BY <1>1, <1>2, Stopped
<1>4. Mode(h) # "none" /\ GrantsOf(h) # {}
  BY <1>1 DEF Inv, WorkerOK
<1>5. SessionsKept /\ GrantsGrow /\ GrantsSaved /\ WorkerOK(a)' /\ HeldOnly(a) /\ HeldOK(a)'
      /\ (\A k : GrantsOf(k)' = GrantsOf(k)) /\ \A k : Mode(k)' = Mode(k)
  BY <1>1, <1>3 DEF SessionsKept, GrantsGrow, GrantsSaved, WorkerOK, Mode, GrantsOf,
                    HeldOnly, HeldOK, Stages
<1>6. CASE ready' = ready \cup {h} /\ UNCHANGED <<tokens, settled>>
  <2>1. TypeOK'
    BY <1>1, <1>2, <1>3, <1>6 DEF TypeOK, Goroutines, Places, Stages
  <2>2. TokensGrow /\ DOMAIN tokens' \ DOMAIN tokens = {}
    BY <1>6 DEF TokensGrow
  <2>3. \A k \in ready' \ ready : GrantsOf(k)' # {}
    BY <1>4, <1>5, <1>6
  <2>4. QED
    BY <1>1, <1>3, <1>5, <2>1, <2>2, <2>3, Kept
<1>7. CASE /\ tokens' = Append(tokens, [handle |-> h, via |-> "push", at |-> now])
           /\ Tell(h, TRUE, "tokens") \/ UNCHANGED settled
           /\ UNCHANGED ready
  <2>1. /\ tokens' \in Seq(Token) /\ TokensGrow
        /\ \A i \in DOMAIN tokens' \ DOMAIN tokens : TokenOK(tokens[i])'
    <3>1. deadline' = deadline /\ Mode(h)' = Mode(h)
      BY <1>1, <1>5
    <3>2. now \in Nat
      BY <1>2 DEF TypeOK
    <3>3. QED
      BY <1>2, <1>4, <1>7, <3>1, <3>2, NewToken
  <2>2. settled' \subseteq Handles
    <3>1. CASE UNCHANGED settled
      BY <1>2, <3>1 DEF TypeOK
    <3>2. CASE Tell(h, TRUE, "tokens")
      BY <1>2, <3>2, Told
    <3>3. QED
      BY <1>7, <3>1, <3>2
  <2>3. TypeOK'
    BY <1>1, <1>2, <1>3, <1>7, <2>1, <2>2 DEF TypeOK, Goroutines, Places, Stages
  <2>4. ready' \ ready = {}
    BY <1>7
  <2>5. QED
    BY <1>1, <1>3, <1>5, <2>1, <2>3, <2>4, Kept
<1>8. CASE UNCHANGED <<tokens, ready, settled>>
  <2>1. settled' \subseteq Handles
    BY <1>2, <1>8 DEF TypeOK
  <2>2. QED
    BY <1>1, <1>2, <1>8, <2>1, StopStep
<1>9. QED
  BY <1>6, <1>7, <1>8 DEF Announce

\* A grant that is saved keeps its handle and its deadline.
LEMMA Saved ==
  ASSUME TypeOK, NEW i \in DOMAIN grants, NEW g \in Grant, g.handle = grants[i].handle,
         GrantOK(g)', grants' = [grants EXCEPT ![i] = g]
  PROVE  /\ grants' \in Seq(Grant) /\ GrantsGrow /\ GrantsSaved
         /\ grants'[i] = g /\ \A j \in DOMAIN grants \ {i} : grants'[j] = grants[j]
         /\ DOMAIN grants' = DOMAIN grants /\ \A h : GrantsOf(h)' = GrantsOf(h)
<1>1. grants \in Seq(Grant)
  BY DEF TypeOK
<1>2. grants' \in Seq(Grant) /\ DOMAIN grants' = DOMAIN grants
  BY <1>1
<1>3. grants'[i] = g /\ \A j \in DOMAIN grants \ {i} : grants'[j] = grants[j]
  BY <1>1
<1>4. GrantsSaved
  BY <1>2, <1>3 DEF GrantsSaved, GrantOK, Mode
<1>5. QED
  BY <1>2, <1>3, <1>4 DEF GrantsGrow, GrantsOf

\* What a poll sees of its grant is in order.
LEMMA Viewed ==
  ASSUME Inv, NEW p \in Pollers, pc[p] \in Stages
  PROVE  /\ View(p) \in Grant /\ View(p).handle = job[p].handle /\ GrantOK(View(p))
         /\ held[p].grant \in DOMAIN grants /\ grants[held[p].grant].handle = job[p].handle
         /\ job[p].handle \in Handles
<1>1. TypeOK /\ HeldOK(p) /\ held[p] \in Hold /\ job[p].handle \in Handles
  BY DEF Inv, TypeOK, Job
<1>2. held[p].copy \in Grant /\ ViewOK(p)
  BY <1>1 DEF Hold, HeldOK
<1>3. held[p].grant \in DOMAIN grants /\ grants[held[p].grant].handle = job[p].handle
  BY <1>2 DEF ViewOK
<1>4. grants[held[p].grant] \in Grant /\ GrantOK(grants[held[p].grant])
  BY <1>1, <1>3, Elements DEF Inv
<1>5. QED
  BY <1>1, <1>2, <1>3, <1>4 DEF View, ViewOK

\* A flag that is set changes nothing else of the grant.
LEMMA Flagged ==
  ASSUME NEW v \in Grant, v.handle \in Handles, GrantOK(v), UNCHANGED <<sessions, deadline>>
  PROVE  \A g \in {[v EXCEPT !.consumed = TRUE], [v EXCEPT !.revoked = TRUE]} :
           g \in Grant /\ g.handle = v.handle /\ GrantOK(g) /\ GrantOK(g)'
<1>1. \A g \in {[v EXCEPT !.consumed = TRUE], [v EXCEPT !.revoked = TRUE]} :
        /\ g \in Grant /\ g.handle = v.handle /\ g.expiresAt = v.expiresAt
        /\ v.consumed => g.consumed
  BY DEF Grant
<1>2. QED
  BY <1>1 DEF GrantOK, Mode

\* A poll that goes on changes only what it holds, and never the grant.
LEMMA KeptHold ==
  ASSUME TypeOK, NEW p \in Pollers, NEW g \in Grant, NEW answer \in Answers, Keep(p, g, answer)
  PROVE  /\ held' \in [Pollers -> Hold] /\ HeldOnly(p)
         /\ held'[p].grant = held[p].grant /\ held'[p].at = held[p].at
         /\ ~SharedRecords => held'[p].copy = g
<1>. PICK c : c = IF SharedRecords THEN NoGrant ELSE g
  OBVIOUS
<1>1. NoGrant \in Grant
  BY FlowAssumption DEF NoGrant, Grant
<1>2. c \in Grant
  BY <1>1
<1>3. held \in [Pollers -> Hold]
  BY DEF TypeOK
<1>. PICK x \in Hold : x = held[p]
  BY <1>3
<1>. PICK y : y = [x EXCEPT !.copy = c, !.answer = answer]
  OBVIOUS
<1>4. y \in Hold /\ y.grant = x.grant /\ y.at = x.at /\ y.copy = c
  BY <1>2 DEF Hold
<1>5. held' = [held EXCEPT ![p] = y]
  BY <1>3 DEF Keep
<1>6. QED
  BY <1>3, <1>4, <1>5 DEF HeldOnly

\* A poll that ends holds nothing.
LEMMA Dropped ==
  ASSUME TypeOK, NEW p \in Pollers, Drop(p)
  PROVE  held' \in [Pollers -> Hold] /\ HeldOnly(p)
<1>1. NoHold \in Hold
  BY FlowAssumption DEF NoHold, NoGrant, Hold, Grant, Answers
<1>2. QED
  BY <1>1 DEF TypeOK, Drop, HeldOnly

\* A poll that finds a grant notes it; one that may redeem it came in time.
LEMMA PollGrantedStep ==
  ASSUME NEW p \in Pollers, NEW h \in Handles, NEW i \in DOMAIN grants,
         NEW own \in BOOLEAN, NEW ok \in BOOLEAN
  PROVE  Inv /\ PollGranted(p, h, i, own, ok) => Inv'
<1> SUFFICES ASSUME Inv, PollGranted(p, h, i, own, ok) PROVE Inv'
  OBVIOUS
<1>1. /\ grants[i].handle = h /\ p \in Goroutines /\ TypeOK
      /\ UNCHANGED <<now, sessions, grants, tokens, deadline, ready>>
  BY DEF PollGranted, Goroutines, GrantsOf, Inv
<1>2. /\ Mode(h) # "none" /\ grants[i].expiresAt = deadline[h] /\ GrantOK(grants[i])
      /\ grants[i] \in Grant
  BY <1>1, Elements DEF Inv, GrantOK
<1>3. SessionsKept
  BY <1>1 DEF SessionsKept, Mode
<1>4. CASE Tell(h, own, "expired_token") /\ UNCHANGED <<pc, job, held>>
  <2>1. settled' \subseteq Handles
    BY <1>1, <1>4, Told
  <2>2. TypeOK'
    BY <1>1, <1>4, <2>1 DEF TypeOK
  <2>3. Only(p) /\ HeldOnly(p)
    BY <1>4 DEF Only, HeldOnly
  <2>4. WorkerOK(p)' /\ HeldOK(p)'
    BY <1>1, <1>4 DEF Inv, WorkerOK, HeldOK, ViewOK, GrantOK, Mode, GrantsOf
  <2>5. QED
    BY <1>1, <1>3, <2>2, <2>3, <2>4, NothingNew, Kept
<1>5. ASSUME NEW where \in {"redeeming", "revoking"}, Start(p, where, h, own),
             where = "redeeming" => Redeemable(grants[i], own, ok),
             NEW answer \in Answers, UNCHANGED settled,
             held' = [held EXCEPT ![p] =
               [grant |-> i, copy |-> IF SharedRecords THEN NoGrant ELSE grants[i],
                at |-> now, answer |-> answer]]
      PROVE  Inv'
  <2>1. /\ pc' \in [Goroutines -> Places] /\ job' \in [Goroutines -> Job] /\ Only(p)
        /\ pc'[p] = where /\ job'[p].handle = h
    <3>1. where \in Places
      BY DEF Places, Stages
    <3>2. QED
      BY <1>1, <1>5, <3>1, Started
  <2>. PICK c : c = IF SharedRecords THEN NoGrant ELSE grants[i]
    OBVIOUS
  <2>. PICK x : x = [grant |-> i, copy |-> c, at |-> now, answer |-> answer]
    OBVIOUS
  <2>2. c \in Grant
    BY <1>2, FlowAssumption DEF NoGrant, Grant
  <2>3. x \in Hold /\ x.grant = i /\ x.copy = c /\ x.at = now /\ i \in Nat
    BY <1>1, <2>2 DEF Hold, TypeOK
  <2>4. held' = [held EXCEPT ![p] = x] /\ held \in [Pollers -> Hold]
    BY <1>1, <1>5 DEF TypeOK
  <2>5. held' \in [Pollers -> Hold] /\ held'[p] = x /\ HeldOnly(p)
    BY <2>3, <2>4 DEF HeldOnly
  <2>6. TypeOK'
    BY <1>1, <1>5, <2>1, <2>5 DEF TypeOK, Goroutines, Places, Stages
  <2>7. ViewOK(p)'
    BY <1>1, <1>2, <2>1, <2>3, <2>5 DEF ViewOK, GrantOK, Mode
  <2>8. where = "redeeming" => now < deadline[h] /\ Mode(h) # "push"
    BY <1>1, <1>2, <1>5 DEF Redeemable, Mode
  <2>9. WorkerOK(p)' /\ HeldOK(p)'
    BY <1>1, <1>2, <2>1, <2>3, <2>5, <2>7, <2>8 DEF WorkerOK, HeldOK, Mode
  <2>10. QED
    BY <1>1, <1>3, <2>1, <2>5, <2>6, <2>9, NothingNew, Kept
<1>6. QED
  <2>1. PICK answer \in Answers :
          answer = IF now >= grants[i].expiresAt THEN "expired_token" ELSE "invalid_grant"
    BY DEF Answers
  <2>2. \/ Tell(h, own, "expired_token") /\ UNCHANGED <<pc, job, held>>
        \/ \E where \in {"redeeming", "revoking"} :
             /\ Start(p, where, h, own)
             /\ where = "redeeming" => Redeemable(grants[i], own, ok)
             /\ UNCHANGED settled
             /\ held' = [held EXCEPT ![p] =
                  [grant |-> i, copy |-> IF SharedRecords THEN NoGrant ELSE grants[i],
                   at |-> now, answer |-> answer]]
    BY <2>1 DEF PollGranted
  <2>3. QED
    BY <1>4, <1>5, <2>1, <2>2

\* A step of a poll that holds a grant: what it saves and issues is in order,
\* and so is what it holds afterwards.
LEMMA StageKept ==
  ASSUME Inv, NEW p \in Pollers, pc[p] \in Stages,
         NEW where \in {"issuing", "revoking", "idle"},
         \/ where # "idle" /\ Goto(p, where) /\ \E answer \in Answers, g \in Grant :
              g.handle = job[p].handle /\ GrantOK(g)' /\ Keep(p, g, answer)
         \/ where = "idle" /\ Stop(p) /\ Drop(p),
         where = "issuing" => pc[p] = "redeeming",
         grants' \in Seq(Grant), GrantsGrow, GrantsSaved,
         tokens' \in Seq(Token), TokensGrow,
         \A i \in DOMAIN tokens' \ DOMAIN tokens : TokenOK(tokens[i])',
         settled' \subseteq Handles, UNCHANGED <<now, sessions, deadline, ready>>
  PROVE  Inv' /\ Only(p) /\ HeldOnly(p) /\ pc'[p] = where
<1>1. p \in Goroutines /\ TypeOK /\ SessionsKept
  BY DEF Goroutines, Inv, SessionsKept, Mode
<1>2. CASE where = "idle"
  <2>1. /\ pc' \in [Goroutines -> Places] /\ job' \in [Goroutines -> Job]
        /\ Only(p) /\ pc'[p] = "idle"
    BY <1>1, <1>2, Stopped
  <2>2. held' \in [Pollers -> Hold] /\ HeldOnly(p)
    BY <1>1, <1>2, Dropped
  <2>3. TypeOK'
    BY <1>1, <2>1, <2>2 DEF TypeOK, Goroutines, Places, Stages
  <2>4. WorkerOK(p)' /\ HeldOK(p)'
    BY <2>1 DEF WorkerOK, HeldOK, Stages
  <2>5. QED
    BY <1>1, <1>2, <2>1, <2>2, <2>3, <2>4, Kept
<1>3. CASE where # "idle"
  <2>. PICK h \in Handles : h = job[p].handle
    BY <1>1 DEF TypeOK, Job
  <2>1. PICK answer \in Answers, g \in Grant :
          g.handle = h /\ GrantOK(g)' /\ Keep(p, g, answer)
    BY <1>3
  <2>2. pc' \in [Goroutines -> Places] /\ job' = job /\ Only(p) /\ pc'[p] = where
    <3>1. where \in Places
      BY DEF Places, Stages
    <3>2. QED
      BY <1>1, <1>3, <3>1, Gone
  <2>3. /\ held' \in [Pollers -> Hold] /\ HeldOnly(p)
        /\ held'[p].grant = held[p].grant /\ held'[p].at = held[p].at
        /\ ~SharedRecords => held'[p].copy = g
    BY <1>1, <2>1, KeptHold
  <2>4. TypeOK'
    BY <1>1, <2>2, <2>3 DEF TypeOK, Goroutines, Places, Stages
  <2>5. /\ held[p].grant \in DOMAIN grants /\ grants[held[p].grant].handle = h
        /\ Mode(h) # "none"
        /\ pc[p] # "revoking" => Mode(h) # "push" /\ held[p].at < deadline[h]
    BY <1>1 DEF Inv, HeldOK, ViewOK, WorkerOK, Stages
  <2>6. ViewOK(p)'
    <3>1. held[p].grant \in DOMAIN grants' /\ grants'[held[p].grant].handle = h
      BY <2>5 DEF GrantsGrow
    <3>2. QED
      BY <2>1, <2>2, <2>3, <3>1 DEF ViewOK, GrantOK, Mode
  <2>7. HeldOK(p)'
    BY <1>3, <2>2, <2>3, <2>5, <2>6 DEF HeldOK, Mode
  <2>8. WorkerOK(p)'
    BY <1>3, <2>2, <2>5 DEF WorkerOK, Mode
  <2>9. QED
    BY <1>1, <2>2, <2>3, <2>4, <2>7, <2>8, Kept
<1>4. QED
  BY <1>2, <1>3

\* A poll that saves what it sees with one flag set.
LEMMA SaveView ==
  ASSUME Inv, NEW p \in Pollers, pc[p] \in Stages, UNCHANGED <<sessions, deadline>>,
         NEW g \in {[View(p) EXCEPT !.consumed = TRUE], [View(p) EXCEPT !.revoked = TRUE]},
         SaveGrant(p, g)
  PROVE  /\ g \in Grant /\ g.handle = job[p].handle /\ GrantOK(g)'
         /\ grants' \in Seq(Grant) /\ GrantsGrow /\ GrantsSaved
         /\ held[p].grant \in DOMAIN grants /\ DOMAIN grants' = DOMAIN grants
         /\ grants[held[p].grant].handle = job[p].handle
         /\ grants'[held[p].grant] = g
         /\ \A j \in DOMAIN grants \ {held[p].grant} : grants'[j] = grants[j]
         /\ \A h : GrantsOf(h)' = GrantsOf(h)
<1>. PICK v : v = View(p)
  OBVIOUS
<1>. PICK i : i = held[p].grant
  OBVIOUS
<1>1. /\ v \in Grant /\ v.handle = job[p].handle /\ GrantOK(v) /\ i \in DOMAIN grants
      /\ grants[i].handle = job[p].handle /\ job[p].handle \in Handles /\ TypeOK
  BY Viewed DEF Inv
<1>2. g \in Grant /\ g.handle = v.handle /\ GrantOK(g)'
  BY <1>1, Flagged
<1>3. grants' = [grants EXCEPT ![i] = g]
  BY DEF SaveGrant
<1>4. /\ grants' \in Seq(Grant) /\ GrantsGrow /\ GrantsSaved
      /\ grants'[i] = g /\ \A j \in DOMAIN grants \ {i} : grants'[j] = grants[j]
      /\ DOMAIN grants' = DOMAIN grants /\ \A h : GrantsOf(h)' = GrantsOf(h)
  BY <1>1, <1>2, <1>3, Saved
<1>5. QED
  BY <1>1, <1>2, <1>4

\* Nothing is saved.
LEMMA NothingSaved ==
  ASSUME Inv, UNCHANGED grants
  PROVE  grants' \in Seq(Grant) /\ GrantsGrow /\ GrantsSaved
  BY DEF Inv, TypeOK, GrantsGrow, GrantsSaved

\* Nothing is issued.
LEMMA NothingIssued ==
  ASSUME Inv, UNCHANGED tokens
  PROVE  /\ tokens' \in Seq(Token) /\ TokensGrow
         /\ \A i \in DOMAIN tokens' \ DOMAIN tokens : TokenOK(tokens[i])'
  BY DEF Inv, TypeOK, TokensGrow

\* The poll's token is issued in time.
LEMMA Issued ==
  ASSUME Inv, NEW p \in Pollers, pc[p] = "issuing", Issue(p), UNCHANGED <<sessions, deadline>>
  PROVE  /\ tokens' \in Seq(Token) /\ TokensGrow
         /\ \A i \in DOMAIN tokens' \ DOMAIN tokens : TokenOK(tokens[i])'
<1>. PICK h \in Handles : h = job[p].handle
  BY DEF Inv, TypeOK, Job
<1>. PICK at : at = held[p].at
  OBVIOUS
<1>1. at \in Nat /\ at < deadline[h] /\ Mode(h) # "none" /\ TypeOK
  BY DEF Inv, TypeOK, Hold, HeldOK, WorkerOK, Goroutines, Stages
<1>2. tokens' = Append(tokens, [handle |-> h, via |-> "poll", at |-> at])
  BY DEF Issue
<1>3. deadline' = deadline /\ Mode(h)' = Mode(h)
  BY DEF Mode
<1>4. QED
  BY <1>1, <1>2, <1>3, NewToken

\* The handle is marked consumed.
LEMMA ConsumeStep ==
  ASSUME Inv, NEW p \in Pollers, ConsumeHandle(p)
  PROVE  Inv' /\ Only(p) /\ HeldOnly(p) /\ pc'[p] = "issuing"
<1>1. /\ pc[p] = "redeeming" /\ pc[p] \in Stages
      /\ UNCHANGED <<now, sessions, tokens, deadline, ready, settled>>
  BY DEF ConsumeHandle, Stages
<1>. PICK g : g = [View(p) EXCEPT !.consumed = TRUE]
  OBVIOUS
<1>2. /\ g \in Grant /\ g.handle = job[p].handle /\ GrantOK(g)'
      /\ grants' \in Seq(Grant) /\ GrantsGrow /\ GrantsSaved
  BY <1>1, SaveView DEF ConsumeHandle
<1>3. \E answer \in Answers, k \in Grant :
        k.handle = job[p].handle /\ GrantOK(k)' /\ Keep(p, k, answer)
  <2>1. held[p].answer \in Answers
    BY DEF Inv, TypeOK, Hold
  <2>2. Keep(p, g, held[p].answer)
    BY DEF ConsumeHandle
  <2>3. QED
    BY <1>2, <2>1, <2>2
<1>4. settled' \subseteq Handles /\ Goto(p, "issuing")
  BY <1>1 DEF Inv, TypeOK, ConsumeHandle
<1>5. /\ tokens' \in Seq(Token) /\ TokensGrow
      /\ \A i \in DOMAIN tokens' \ DOMAIN tokens : TokenOK(tokens[i])'
  BY <1>1, NothingIssued
<1>6. QED
  BY <1>1, <1>2, <1>3, <1>4, <1>5, StageKept

\* The tokens are issued and the client told.
LEMMA IssueStep ==
  ASSUME Inv, NEW p \in Pollers, IssueAndRespond(p)
  PROVE  Inv' /\ Only(p) /\ HeldOnly(p) /\ pc'[p] = "idle"
<1>1. /\ pc[p] = "issuing" /\ pc[p] \in Stages /\ Stop(p) /\ Drop(p)
      /\ UNCHANGED <<now, sessions, grants, deadline, ready>>
  BY DEF IssueAndRespond, Stages
<1>2. /\ tokens' \in Seq(Token) /\ TokensGrow
      /\ \A i \in DOMAIN tokens' \ DOMAIN tokens : TokenOK(tokens[i])'
  BY <1>1, Issued DEF IssueAndRespond
<1>3. settled' \subseteq Handles
  <2>1. job[p].handle \in Handles /\ TypeOK
    BY DEF Inv, TypeOK, Job
  <2>2. QED
    BY <2>1, Told DEF IssueAndRespond
<1>4. grants' \in Seq(Grant) /\ GrantsGrow /\ GrantsSaved
  BY <1>1, NothingSaved
<1>5. QED
  BY <1>1, <1>2, <1>3, <1>4, StageKept

\* The grant is revoked.
LEMMA RevokeStep ==
  ASSUME Inv, NEW p \in Pollers, RevokeGrant(p)
  PROVE  Inv' /\ Only(p) /\ HeldOnly(p) /\ pc'[p] = "idle"
<1>1. /\ pc[p] = "revoking" /\ pc[p] \in Stages /\ Stop(p) /\ Drop(p)
      /\ UNCHANGED <<now, sessions, tokens, deadline, ready>>
  BY DEF RevokeGrant, Stages
<1>2. grants' \in Seq(Grant) /\ GrantsGrow /\ GrantsSaved
  BY <1>1, SaveView DEF RevokeGrant
<1>3. settled' \subseteq Handles
  <2>1. job[p].handle \in Handles /\ TypeOK
    BY DEF Inv, TypeOK, Job
  <2>2. QED
    BY <2>1, Told DEF RevokeGrant
<1>4. /\ tokens' \in Seq(Token) /\ TokensGrow
      /\ \A i \in DOMAIN tokens' \ DOMAIN tokens : TokenOK(tokens[i])'
  BY <1>1, NothingIssued
<1>5. QED
  BY <1>1, <1>2, <1>3, <1>4, StageKept

\* A poll fails on its way, or cannot even revoke.
LEMMA FailStep ==
  ASSUME Inv, NEW p \in Pollers, PollFails(p)
  PROVE  /\ Inv' /\ Only(p) /\ HeldOnly(p)
         /\ pc'[p] = IF pc[p] = "revoking" THEN "idle" ELSE "revoking"
<1>1. /\ pc[p] \in Stages /\ TypeOK
      /\ UNCHANGED <<now, sessions, grants, deadline, ready>>
  BY DEF PollFails, Stages, Inv
<1>2. grants' \in Seq(Grant) /\ GrantsGrow /\ GrantsSaved
  BY <1>1, NothingSaved
<1>3. /\ tokens' \in Seq(Token) /\ TokensGrow
      /\ \A i \in DOMAIN tokens' \ DOMAIN tokens : TokenOK(tokens[i])'
  <2>1. UNCHANGED tokens \/ (pc[p] = "issuing" /\ Issue(p))
    BY DEF PollFails
  <2>2. QED
    BY <1>1, <2>1, NothingIssued, Issued
<1>4. settled' \subseteq Handles
  <2>1. job[p].handle \in Handles
    BY <1>1 DEF TypeOK, Job
  <2>2. UNCHANGED settled \/ Tell(job[p].handle, job[p].own, "server_error")
    BY DEF PollFails
  <2>3. QED
    BY <1>1, <2>1, <2>2, Told DEF TypeOK
<1>. PICK v : v = View(p)
  OBVIOUS
<1>. PICK g : g = [v EXCEPT !.consumed = TRUE]
  OBVIOUS
<1>5. /\ v \in Grant /\ v.handle = job[p].handle /\ GrantOK(v)' /\ GrantOK(v)
      /\ g \in Grant /\ g.handle = job[p].handle /\ GrantOK(g)'
  <2>1. v \in Grant /\ v.handle = job[p].handle /\ GrantOK(v) /\ v.handle \in Handles
    BY <1>1, Viewed
  <2>2. g \in Grant /\ g.handle = v.handle /\ GrantOK(g)'
    BY <1>1, <2>1, Flagged
  <2>3. GrantOK(v)'
    BY <1>1, <2>1 DEF GrantOK, Mode
  <2>4. QED
    BY <2>1, <2>2, <2>3
<1>6. CASE pc[p] = "revoking"
  <2>1. Stop(p) /\ Drop(p)
    BY <1>6 DEF PollFails
  <2>2. QED
    BY <1>1, <1>2, <1>3, <1>4, <1>6, <2>1, StageKept
<1>7. CASE pc[p] # "revoking"
  <2>1. Goto(p, "revoking") /\ (Keep(p, g, "server_error") \/ Keep(p, v, "server_error"))
    BY <1>7 DEF PollFails
  <2>2. \E answer \in Answers, k \in Grant :
          k.handle = job[p].handle /\ GrantOK(k)' /\ Keep(p, k, answer)
    <3>1. "server_error" \in Answers
      BY DEF Answers
    <3>2. QED
      BY <1>5, <2>1, <3>1
  <2>3. QED
    BY <1>1, <1>2, <1>3, <1>4, <1>7, <2>1, <2>2, StageKept
<1>8. QED
  BY <1>6, <1>7

\* The approving goroutines that only set a status and move on.
LEMMA ApproverStep ==
  ASSUME NEW a \in Approvers
  PROVE  Inv /\ (AuthenticateDevice(a) \/ LoadApproved(a) \/ Deny(a) \/ Resolve(a)) => Inv'
<1> SUFFICES ASSUME Inv, AuthenticateDevice(a) \/ LoadApproved(a) \/ Deny(a) \/ Resolve(a)
             PROVE  Inv'
  OBVIOUS
<1>1. a \in Goroutines /\ TypeOK /\ job[a].handle \in Handles
  BY DEF Goroutines, Inv, TypeOK, Job
<1>2. UNCHANGED <<now, grants, tokens, deadline, ready, settled, held>>
  BY DEF AuthenticateDevice, LoadApproved, Deny, Resolve
<1>3. settled' \subseteq Handles
  BY <1>1, <1>2 DEF TypeOK
<1>4. \/ UNCHANGED sessions
      \/ \E status \in {"pending", "success", "failure"} : SetStatus(job[a].handle, status)
  BY DEF AuthenticateDevice, LoadApproved, Deny, Resolve
<1>5. CASE Stop(a)
  BY <1>1, <1>2, <1>3, <1>4, <1>5, StopStep
<1>6. CASE \E where \in {"granting", "denying", "announcing"} :
             /\ Goto(a, where) /\ pc[a] # "idle"
             /\ where = "announcing" => pc[a] = "resolving"
  BY <1>1, <1>2, <1>4, <1>6, GotoStep
<1>7. QED
  BY <1>5, <1>6 DEF AuthenticateDevice, LoadApproved, Deny, Resolve

\* A poll that found no grant answers what the session says.
LEMMA PollSessionStep == ASSUME NEW p \in Pollers PROVE Inv /\ PollSession(p) => Inv'
<1> SUFFICES ASSUME Inv, PollSession(p) PROVE Inv'
  OBVIOUS
<1>1. /\ p \in Goroutines /\ TypeOK /\ job[p].handle \in Handles /\ job[p].own \in BOOLEAN
  BY DEF Goroutines, Inv, TypeOK, Job
<1>2. Stop(p) /\ UNCHANGED <<now, sessions, grants, tokens, deadline, ready, held>>
  BY DEF PollSession
<1>3. settled' \subseteq Handles
  BY <1>1, Told DEF PollSession
<1>4. QED
  BY <1>1, <1>2, <1>3, StopStep

\* Every step keeps the invariant.
LEMMA NextInv == Inv /\ [Next]_vars => Inv'
<1> SUFFICES ASSUME Inv, [Next]_vars PROVE Inv'
  OBVIOUS
<1>1. CASE UNCHANGED vars
  <2>1. now' \in Nat /\ UNCHANGED <<sessions, grants, tokens, deadline, ready, settled, pc, job, held>>
    BY <1>1 DEF vars, Inv, TypeOK
  <2>2. QED
    BY <2>1, StillStep
<1>2. CASE Tick
  <2>1. now' \in Nat /\ UNCHANGED <<sessions, grants, tokens, deadline, ready, settled, pc, job, held>>
    BY <1>2 DEF Tick, Inv, TypeOK
  <2>2. QED
    BY <2>1, StillStep
<1>3. ASSUME NEW h \in Handles, NEW mode \in Modes, Open(h, mode) PROVE Inv'
  BY <1>3, OpenStep
<1>4. ASSUME NEW p \in Goroutines, NEW h \in Handles,
             \/ BeginVerify(p, h) \/ BeginApprove(p, h) \/ BeginDeny(p, h)
             \/ \E own \in BOOLEAN : PollNoGrant(p, h, own)
      PROVE  Inv'
  <2>1. CASE BeginVerify(p, h)
    BY <2>1, StartStep DEF BeginVerify, Mode
  <2>2. CASE BeginApprove(p, h)
    BY <2>2, StartStep DEF BeginApprove, Mode, CIBAModes
  <2>3. CASE BeginDeny(p, h)
    BY <2>3, StartStep DEF BeginDeny, Mode, CIBAModes
  <2>4. CASE \E own \in BOOLEAN : PollNoGrant(p, h, own)
    BY <2>4, StartStep DEF PollNoGrant, Mode
  <2>5. QED
    BY <1>4, <2>1, <2>2, <2>3, <2>4
<1>5. ASSUME NEW a \in Approvers, Proceed(a) PROVE Inv'
  BY <1>5, ApproverStep, CreateGrantStep, AnnounceStep DEF Proceed
<1>6. ASSUME NEW p \in Pollers, NEW h \in Handles, NEW own \in BOOLEAN, Poll(p, h, own)
      PROVE  Inv'
  BY <1>4, <1>6, PollGrantedStep DEF Poll, Goroutines
<1>7. ASSUME NEW p \in Pollers, ProceedPoll(p) PROVE Inv'
  BY <1>7, PollSessionStep, ConsumeStep, IssueStep, RevokeStep, FailStep DEF ProceedPoll, Succeed
<1>8. QED
  BY <1>1, <1>2, <1>3, <1>4, <1>5, <1>6, <1>7 DEF Next, Goroutines

\* Before the first request there is nothing to be in order.
LEMMA InitInv == Init => Inv
<1> SUFFICES ASSUME Init PROVE Inv
  OBVIOUS
<1>1. NoJob \in Job /\ NoSession \in Session /\ NoHold \in Hold
  BY FlowAssumption DEF NoJob, Job, NoSession, Session, NoHold, NoGrant, Hold, Grant, Answers
<1>2. TypeOK
  BY <1>1 DEF Init, TypeOK
<1>3. /\ DOMAIN grants = {} /\ DOMAIN tokens = {}
      /\ \A h \in Handles : deadline[h] = 0 /\ sessions[h].expiresAt = 0
  BY DEF Init, NoSession
<1>4. \A p \in Goroutines : WorkerOK(p) /\ HeldOK(p)
  BY DEF Init, WorkerOK, HeldOK, Goroutines, Stages
<1>5. QED
  BY <1>2, <1>3, <1>4 DEF Init, Inv, Goroutines

\* A poll is answered with tokens only before the deadline that the client was
\* given when it opened the request: NewGrant copies the session's expiry into
\* the grant (pkg/goidc/grant.go), whose own check refuses later polls.
THEOREM RedemptionBounded == Spec => []RedeemedInWindow
<1>1. Inv => RedeemedInWindow
  BY DEF Inv, RedeemedInWindow, TokenOK
<1>2. QED
  BY <1>1, InitInv, NextInv, PTL DEF Spec

\* An announced approval is found by every poll that starts afterwards: the
\* grant exists before the ping or the confirmation page, and none is removed.
THEOREM AnnouncementsHold == Spec => []AnnouncedMeansRedeemable
<1>1. Inv => AnnouncedMeansRedeemable
  BY DEF Inv, AnnouncedMeansRedeemable, WorkerOK, Goroutines
<1>2. QED
  BY <1>1, InitInv, NextInv, PTL DEF Spec

-----------------------------------------------------------------------------
(* A request that one approver and one redeeming poll at a time work on. *)

\* Counting to one.
LEMMA AtMostOne ==
  ASSUME NEW S, IsFiniteSet(S), ~(Cardinality(S) > 1), NEW a \in S, NEW b \in S
  PROVE  a = b
<1> SUFFICES ASSUME a # b PROVE FALSE
  OBVIOUS
<1>1. IsFiniteSet({a}) /\ Cardinality({a}) = 1
  BY FS_Singleton
<1>2. {a, b} = {a} \cup {b} /\ b \notin {a}
  OBVIOUS
<1>3. Cardinality({a, b}) = 2
  <2>1. Cardinality({a} \cup {b}) = Cardinality({a}) + 1
    BY <1>1, <1>2, FS_AddElement
  <2>2. QED
    BY <1>1, <1>2, <2>1
<1>4. Cardinality({a, b}) <= Cardinality(S)
  <2>1. {a, b} \subseteq S
    OBVIOUS
  <2>2. QED
    BY <2>1, FS_Subset
<1>5. Cardinality(S) \in Nat
  BY FS_CardinalityType
<1>6. QED
  BY <1>3, <1>4, <1>5

\* The converse.
LEMMA CountOne ==
  ASSUME NEW S, \A a, b \in S : a = b
  PROVE  Cardinality(S) <= 1
<1>1. CASE S = {}
  BY <1>1, FS_EmptySet
<1>2. CASE S # {}
  <2>. PICK a \in S : TRUE
    BY <1>2
  <2>1. S = {a}
    OBVIOUS
  <2>2. QED
    BY <2>1, FS_Singleton
<1>3. QED
  BY <1>1, <1>2

\* The goroutines of a handle that is not contended.
LEMMA NotContended ==
  ASSUME NEW h \in Handles, ~Overlapping(h)' PROVE Alone(h)'
<1>. PICK S : S = {a \in Approvers : pc'[a] # "idle" /\ job'[a].handle = h}
  OBVIOUS
<1>. PICK T : T = {p \in {q \in Pollers : pc'[q] \in Stages} : job'[p].handle = h}
  OBVIOUS
<1>1. ~(Cardinality(S) > 1) /\ ~(Cardinality(T) > 1)
  BY DEF Overlapping, Redeeming, Stages
<1>2. IsFiniteSet(S) /\ IsFiniteSet(T)
  <2>1. S \subseteq Approvers /\ IsFiniteSet(Approvers) /\ T \subseteq Pollers /\ IsFiniteSet(Pollers)
    BY FlowAssumption
  <2>2. QED
    BY <2>1, FS_Subset
<1>3. (\A a, b \in S : a = b) /\ \A p, q \in T : p = q
  BY <1>1, <1>2, AtMostOne
<1>4. QED
  BY <1>3 DEF Alone, On, PollOn

\* Nothing of the handle changes but who works on it.
Same(h) ==
  /\ Mode(h)' = Mode(h) /\ GrantsOf(h)' = GrantsOf(h) /\ TokensOf(h)' = TokensOf(h)
  /\ \A i \in GrantsOf(h) : grants'[i] = grants[i]

\* A step that neither grants, saves nor issues anything for the handle.
LEMMA SingleKept ==
  ASSUME Inv, NEW h \in Handles, SingleOK(h), Same(h),
         NEW p \in Goroutines, Only(p), HeldOnly(p),
         Mode(h) \in CIBAModes /\ p \in Approvers /\ On(p, h)' => WorkOK(p, h)',
         Mode(h) \in CIBAModes /\ p \in Pollers /\ PollOn(p, h)' => PollOK(p, h)'
  PROVE  SingleOK(h)'
<1> SUFFICES ASSUME Mode(h) \in CIBAModes PROVE SingleOK(h)'
  BY DEF SingleOK, Same
<1>1. /\ TokensOf(h)' # {} => \E i \in GrantsOf(h)' : grants'[i].consumed
      /\ (\A i, j \in GrantsOf(h)' : i = j) /\ \A i, j \in TokensOf(h)' : i = j
  BY DEF SingleOK, Same
<1>2. ASSUME NEW b \in Approvers, On(b, h)' PROVE WorkOK(b, h)'
  <2>1. CASE b = p
    BY <1>2, <2>1
  <2>2. CASE b # p
    <3>1. pc'[b] = pc[b] /\ job'[b] = job[b]
      BY <2>2 DEF Only, Goroutines
    <3>2. On(b, h) /\ WorkOK(b, h)
      BY <1>2, <3>1 DEF On, SingleOK
    <3>3. QED
      BY <3>1, <3>2 DEF WorkOK, Same
  <2>3. QED
    BY <2>1, <2>2
<1>3. ASSUME NEW b \in Pollers, PollOn(b, h)' PROVE PollOK(b, h)'
  <2>1. CASE b = p
    BY <1>3, <2>1
  <2>2. CASE b # p
    <3>1. pc'[b] = pc[b] /\ job'[b] = job[b] /\ held'[b] = held[b]
      BY <2>2 DEF Only, HeldOnly, Goroutines
    <3>2. PollOn(b, h) /\ PollOK(b, h)
      BY <1>3, <3>1 DEF PollOn, SingleOK
    <3>3. held[b].grant \in GrantsOf(h)
      BY <3>2 DEF Inv, HeldOK, ViewOK, PollOn, GrantsOf
    <3>4. grants'[held'[b].grant] = grants[held[b].grant]
      BY <3>1, <3>3 DEF Same
    <3>5. QED
      BY <3>1, <3>2, <3>4 DEF PollOK, Same
  <2>3. QED
    BY <2>1, <2>2
<1>4. QED
  BY <1>1, <1>2, <1>3 DEF SingleOK

\* A handle that is opened is as good as new.
LEMMA SingleOpen ==
  ASSUME Inv, Inv', NEW k \in Handles, NEW mode \in Modes, Open(k, mode), NEW h \in Handles,
         SingleOK(h)
  PROVE  SingleOK(h)'
<1>1. UNCHANGED <<grants, tokens, pc, job, held>> /\ Mode(k) = "none"
  BY DEF Open, Mode
<1>2. CASE h = k
  <2>1. GrantsOf(h)' = {}
    BY <1>1, <1>2 DEF Inv, GrantOK, GrantsOf
  <2>2. TokensOf(h)' = {}
    BY <1>1, <1>2 DEF Inv, TokenOK, TokensOf
  <2>3. (\A b \in Approvers : ~On(b, h)') /\ \A q \in Pollers : ~PollOn(q, h)'
    BY <1>1, <1>2 DEF Inv, WorkerOK, On, PollOn, Goroutines, Stages
  <2>4. QED
    BY <2>1, <2>2, <2>3 DEF SingleOK
<1>3. CASE h # k
  <2>1. Mode(h)' = Mode(h)
    BY <1>3 DEF Open, Inv, TypeOK, Mode
  <2>2. QED
    BY <1>1, <2>1 DEF SingleOK, WorkOK, On, PollOK, PollOn, GrantsOf, TokensOf
<1>4. QED
  BY <1>2, <1>3

\* The grant of an approval is the first of its handle.
LEMMA SingleGrant ==
  ASSUME Inv, NEW a \in Approvers, CreateGrant(a), NEW h \in Handles, SingleOK(h),
         Alone(h)'
  PROVE  SingleOK(h)'
<1>1. /\ UNCHANGED <<sessions, tokens, held>> /\ a \in Goroutines /\ TypeOK /\ pc[a] = "granting"
      /\ HeldOnly(a) /\ a \notin Pollers
  BY FlowAssumption DEF CreateGrant, Goroutines, Inv, HeldOnly
<1>2. Mode(h)' = Mode(h) /\ TokensOf(h)' = TokensOf(h)
  BY <1>1 DEF Mode, TokensOf
<1>3. CASE UNCHANGED grants /\ Stop(a)
  <2>1. Only(a) /\ pc'[a] = "idle"
    BY <1>1, <1>3, Stopped
  <2>2. Same(h) /\ ~On(a, h)'
    BY <1>2, <1>3, <2>1 DEF Same, GrantsOf, On
  <2>3. QED
    BY <1>1, <2>1, <2>2, SingleKept
<1>4. ASSUME NEW where \in {"announcing", "resolving"}, Goto(a, where),
             grants' = Append(grants, NewGrant(job[a].handle))
      PROVE  SingleOK(h)'
  <2>. PICK k \in Handles : k = job[a].handle
    BY DEF Inv, TypeOK, Job
  <2>. PICK g : g = NewGrant(k)
    OBVIOUS
  <2>1. g \in Grant /\ g.handle = k
    BY <1>1, NewGrantTyped
  <2>2. grants \in Seq(Grant)
    BY <1>1 DEF TypeOK
  <2>3. /\ DOMAIN grants \subseteq DOMAIN grants'
        /\ DOMAIN grants' \ DOMAIN grants = {Len(grants) + 1}
        /\ grants'[Len(grants) + 1] = g /\ \A i \in DOMAIN grants : grants'[i] = grants[i]
    BY <1>4, <2>1, <2>2, Appended
  <2>4. job' = job /\ Only(a) /\ pc'[a] = where
    <3>1. where \in Places
      BY DEF Places
    <3>2. QED
      BY <1>1, <1>4, <3>1, Gone
  <2>5. CASE h # k
    <3>1. Same(h)
      BY <1>2, <2>1, <2>3, <2>5 DEF Same, GrantsOf
    <3>2. ~On(a, h)'
      BY <2>4, <2>5 DEF On
    <3>3. QED
      BY <1>1, <2>4, <3>1, <3>2, SingleKept
  <2>6. CASE h = k
    <3> SUFFICES ASSUME Mode(h) \in CIBAModes PROVE SingleOK(h)'
      BY <1>2 DEF SingleOK
    <3>1. On(a, h) /\ On(a, h)'
      BY <1>1, <2>4, <2>6 DEF On
    <3>2. GrantsOf(h) = {}
      BY <1>1, <3>1 DEF SingleOK, WorkOK
    <3>3. TokensOf(h)' = {}
      BY <1>2, <3>2 DEF SingleOK
    <3>4. \A i, j \in GrantsOf(h)' : i = j
      BY <2>3, <3>2 DEF GrantsOf
    <3>5. \A b \in Approvers : On(b, h)' => b = a
      BY <3>1 DEF Alone
    <3>6. WorkOK(a, h)'
      BY <2>4, <3>3 DEF WorkOK
    <3>7. ASSUME NEW q \in Pollers, PollOn(q, h)' PROVE FALSE
      <4>1. q # a
        BY <1>1
      <4>2. PollOn(q, h)
        BY <2>4, <3>7, <4>1 DEF PollOn, Only, Goroutines
      <4>3. held[q].grant \in GrantsOf(h)
        BY <4>2 DEF Inv, HeldOK, ViewOK, PollOn, GrantsOf
      <4>4. QED
        BY <3>2, <4>3
    <3>8. QED
      BY <3>3, <3>4, <3>5, <3>6, <3>7 DEF SingleOK
  <2>7. QED
    BY <2>5, <2>6
<1>5. QED
  BY <1>3, <1>4 DEF CreateGrant, NewGrant

\* A new token is the only one of its handle.
LEMMA TokensAfter ==
  ASSUME TypeOK, NEW h \in Handles, NEW k \in Handles, NEW via \in {"poll", "push"},
         NEW at \in Nat, tokens' = Append(tokens, [handle |-> k, via |-> via, at |-> at])
  PROVE  /\ h # k => TokensOf(h)' = TokensOf(h)
         /\ h = k /\ TokensOf(h) = {} => \A i, j \in TokensOf(h)' : i = j
<1>. PICK t : t = [handle |-> k, via |-> via, at |-> at]
  OBVIOUS
<1>1. t \in Token /\ t.handle = k /\ tokens \in Seq(Token)
  BY DEF Token, TypeOK
<1>2. /\ DOMAIN tokens \subseteq DOMAIN tokens'
      /\ DOMAIN tokens' \ DOMAIN tokens = {Len(tokens) + 1}
      /\ tokens'[Len(tokens) + 1] = t /\ \A i \in DOMAIN tokens : tokens'[i] = tokens[i]
  BY <1>1, Appended
<1>3. h # k => TokensOf(h)' = TokensOf(h)
  BY <1>1, <1>2 DEF TokensOf
<1>4. h = k /\ TokensOf(h) = {} => \A i, j \in TokensOf(h)' : i = j
  BY <1>1, <1>2 DEF TokensOf
<1>5. QED
  BY <1>3, <1>4

\* A pushed token is the first of its handle, whose grant was born consumed.
LEMMA SingleAnnounce ==
  ASSUME Inv, NEW a \in Approvers, Announce(a), NEW h \in Handles, SingleOK(h), Alone(h)
  PROVE  SingleOK(h)'
<1>1. /\ pc[a] = "announcing" /\ Stop(a) /\ UNCHANGED <<now, sessions, grants, deadline, held>>
      /\ a \in Goroutines /\ TypeOK /\ HeldOnly(a) /\ a \notin Pollers /\ now \in Nat
  BY FlowAssumption DEF Announce, Goroutines, Inv, HeldOnly, TypeOK
<1>. PICK k \in Handles : k = job[a].handle
  BY DEF Inv, TypeOK, Job
<1>2. Only(a) /\ ~On(a, h)'
  BY <1>1, Stopped DEF On
<1>3. GrantsOf(h)' = GrantsOf(h) /\ Mode(h)' = Mode(h)
  BY <1>1 DEF GrantsOf, Mode
<1>4. CASE TokensOf(h)' = TokensOf(h)
  <2>1. Same(h)
    BY <1>1, <1>3, <1>4 DEF Same
  <2>2. QED
    BY <1>1, <1>2, <2>1, SingleKept
<1>5. CASE h = k /\ tokens' = Append(tokens, [handle |-> k, via |-> "push", at |-> now])
           /\ Mode(k) = "push"
  <2>1. On(a, h)
    BY <1>1, <1>5 DEF On
  <2>2. Mode(h) \in CIBAModes
    BY <1>5 DEF CIBAModes
  <2>3. TokensOf(h) = {}
    BY <1>1, <1>5, <2>1, <2>2 DEF SingleOK, WorkOK
  <2>4. \A i, j \in TokensOf(h)' : i = j
    BY <1>1, <1>5, <2>3, TokensAfter
  <2>5. \E i \in GrantsOf(h)' : grants'[i].consumed
    <3>1. GrantsOf(h) # {}
      BY <1>1, <1>5 DEF Inv, WorkerOK
    <3>2. \A i \in GrantsOf(h) : grants[i].consumed
      BY <1>5 DEF Inv, GrantOK, GrantsOf
    <3>3. QED
      BY <1>1, <1>3, <3>1, <3>2
  <2>6. ASSUME NEW b \in Approvers, On(b, h)' PROVE FALSE
    <3>1. b # a
      BY <1>2, <2>6
    <3>2. On(b, h)
      BY <1>2, <2>6, <3>1 DEF On, Only, Goroutines
    <3>3. QED
      BY <2>1, <3>1, <3>2 DEF Alone
  <2>7. ASSUME NEW q \in Pollers, PollOn(q, h)' PROVE PollOK(q, h)'
    <3>1. PollOn(q, h) /\ pc'[q] = pc[q]
      BY <1>1, <1>2, <2>7 DEF PollOn, Only, Goroutines
    <3>2. pc[q] = "revoking" /\ PollOK(q, h)
      BY <1>5, <2>2, <3>1 DEF Inv, HeldOK, PollOn, SingleOK
    <3>3. QED
      BY <1>1, <3>1, <3>2 DEF PollOK
  <2>8. QED
    BY <1>3, <2>2, <2>4, <2>5, <2>6, <2>7 DEF SingleOK
<1>6. QED
  <2>1. CASE UNCHANGED tokens
    BY <1>4, <2>1 DEF TokensOf
  <2>2. CASE tokens' = Append(tokens, [handle |-> k, via |-> "push", at |-> now])
             /\ Mode(k) = "push"
    <3>1. h # k => TokensOf(h)' = TokensOf(h)
      BY <1>1, <2>2, TokensAfter
    <3>2. QED
      BY <1>4, <1>5, <2>2, <3>1
  <2>3. QED
    BY <2>1, <2>2 DEF Announce, Mode

\* A poll that finds a grant which is not consumed finds no token either.
LEMMA SingleFound ==
  ASSUME Inv, NEW p \in Pollers, NEW k \in Handles, NEW i \in DOMAIN grants,
         NEW own \in BOOLEAN, NEW ok \in BOOLEAN, PollGranted(p, k, i, own, ok),
         NEW h \in Handles, SingleOK(h), Alone(h)'
  PROVE  SingleOK(h)'
<1>1. /\ UNCHANGED <<sessions, grants, tokens>> /\ TypeOK /\ p \in Goroutines
      /\ grants[i].handle = k /\ p \notin Approvers
  BY FlowAssumption DEF PollGranted, Inv, Goroutines, GrantsOf
<1>2. Same(h)
  BY <1>1 DEF Same, Mode, GrantsOf, TokensOf
<1>3. CASE UNCHANGED <<pc, job, held>>
  BY <1>1, <1>3 DEF SingleOK, WorkOK, PollOK, On, PollOn, Mode, GrantsOf, TokensOf
<1>4. ASSUME NEW where \in {"redeeming", "revoking"}, Start(p, where, k, own),
             where = "redeeming" => ~grants[i].consumed,
             NEW answer, held' = [held EXCEPT ![p] =
               [grant |-> i, copy |-> IF SharedRecords THEN NoGrant ELSE grants[i],
                at |-> now, answer |-> answer]]
      PROVE  SingleOK(h)'
  <2>1. Only(p) /\ pc'[p] = where /\ job'[p].handle = k
    <3>1. where \in Places
      BY DEF Places, Stages
    <3>2. QED
      BY <1>1, <1>4, <3>1, Started
  <2>. PICK c : c = IF SharedRecords THEN NoGrant ELSE grants[i]
    OBVIOUS
  <2>. PICK x : x = [grant |-> i, copy |-> c, at |-> now, answer |-> answer]
    OBVIOUS
  <2>2. held'[p] = x /\ HeldOnly(p)
    BY <1>1, <1>4 DEF TypeOK, HeldOnly
  <2>3. x.grant = i /\ x.copy = c
    OBVIOUS
  <2>4. ASSUME Mode(h) \in CIBAModes, PollOn(p, h)' PROVE PollOK(p, h)'
    <3>1. h = k /\ i \in GrantsOf(h)
      BY <1>1, <2>1, <2>4 DEF PollOn, GrantsOf
    <3>2. where = "redeeming" => TokensOf(h) = {}
      BY <1>4, <2>4, <3>1 DEF SingleOK
    <3>3. TokensOf(h)' = TokensOf(h)
      BY <1>2 DEF Same
    <3>4. QED
      BY <1>1, <2>1, <2>2, <2>3, <3>2, <3>3 DEF PollOK
  <2>5. QED
    BY <1>1, <1>2, <2>1, <2>2, <2>4, SingleKept
<1>5. QED
  <2>1. \/ UNCHANGED <<pc, job, held>>
        \/ \E where \in {"redeeming", "revoking"}, answer \in Answers :
             /\ Start(p, where, k, own)
             /\ where = "redeeming" => ~grants[i].consumed
             /\ held' = [held EXCEPT ![p] =
                  [grant |-> i, copy |-> IF SharedRecords THEN NoGrant ELSE grants[i],
                   at |-> now, answer |-> answer]]
    <3>. PICK answer \in Answers :
           answer = IF now >= grants[i].expiresAt THEN "expired_token" ELSE "invalid_grant"
      BY DEF Answers
    <3>1. QED
      BY DEF PollGranted, Redeemable
  <2>2. QED
    BY <1>3, <1>4, <2>1

\* A poll that steps leaves the other handles alone.
LEMMA SingleElsewhere ==
  ASSUME Inv, NEW p \in Pollers, Succeed(p) \/ PollFails(p),
         NEW h \in Handles, SingleOK(h), job[p].handle # h
  PROVE  SingleOK(h)'
<1>1. /\ UNCHANGED <<sessions, deadline>> /\ TypeOK /\ p \in Goroutines /\ p \notin Approvers
      /\ pc[p] \in Stages
  BY FlowAssumption DEF Succeed, ConsumeHandle, IssueAndRespond, RevokeGrant, PollFails, Inv,
                        Goroutines, Stages
<1>2. Only(p) /\ HeldOnly(p)
  BY ConsumeStep, IssueStep, RevokeStep, FailStep DEF Succeed
<1>. PICK k \in Handles : k = job[p].handle
  BY <1>1 DEF TypeOK, Job
<1>. PICK i : i = held[p].grant
  OBVIOUS
<1>3. i \in DOMAIN grants /\ grants[i].handle = k /\ held[p].at \in Nat
  BY <1>1, Viewed DEF TypeOK, Hold
<1>4. ~PollOn(p, h)'
  <2>1. job' = job \/ pc'[p] = "idle"
    BY <1>1 DEF Succeed, ConsumeHandle, IssueAndRespond, RevokeGrant, PollFails, Goto, Stop,
                TypeOK, Goroutines
  <2>2. QED
    BY <2>1 DEF PollOn, Stages
<1>5. GrantsOf(h)' = GrantsOf(h) /\ \A j \in GrantsOf(h) : grants'[j] = grants[j]
  <2>1. CASE UNCHANGED grants
    BY <2>1 DEF GrantsOf
  <2>2. CASE ConsumeHandle(p) \/ RevokeGrant(p)
    <3>1. (\A j \in DOMAIN grants \ {i} : grants'[j] = grants[j]) /\ GrantsOf(h)' = GrantsOf(h)
      BY <1>1, <2>2, SaveView DEF ConsumeHandle, RevokeGrant
    <3>2. QED
      BY <1>3, <3>1 DEF GrantsOf
  <2>3. QED
    BY <2>1, <2>2 DEF Succeed, IssueAndRespond, PollFails
<1>6. TokensOf(h)' = TokensOf(h)
  <2>1. CASE UNCHANGED tokens
    BY <2>1 DEF TokensOf
  <2>2. CASE Issue(p)
    <3>. PICK at \in Nat : at = held[p].at
      BY <1>3
    <3>1. tokens' = Append(tokens, [handle |-> k, via |-> "poll", at |-> at])
      BY <2>2 DEF Issue
    <3>2. QED
      BY <1>1, <3>1, TokensAfter
  <2>3. QED
    BY <2>1, <2>2 DEF Succeed, ConsumeHandle, IssueAndRespond, RevokeGrant, PollFails
<1>7. Same(h)
  BY <1>1, <1>5, <1>6 DEF Same, Mode
<1>8. QED
  BY <1>1, <1>2, <1>4, <1>7, SingleKept

\* A step of the only poll of a handle, which does not undo the consumption.
LEMMA SingleAfter ==
  ASSUME Inv, NEW p \in Pollers, NEW h \in Handles, PollOn(p, h), Alone(h), SingleOK(h),
         Mode(h) \in CIBAModes, UNCHANGED sessions, Only(p), GrantsOf(h)' = GrantsOf(h),
         NEW i, i \in GrantsOf(h), TokensOf(h)' # {} => grants'[i].consumed,
         \A m, n \in TokensOf(h)' : m = n,
         Mode(h) = "push" => TokensOf(h)' = TokensOf(h),
         PollOn(p, h)' => PollOK(p, h)'
  PROVE  SingleOK(h)'
<1>1. p \in Goroutines /\ p \notin Approvers /\ Mode(h)' = Mode(h)
  BY FlowAssumption DEF Goroutines, Mode
<1>2. ASSUME NEW q \in Pollers, PollOn(q, h)' PROVE q = p
  <2> SUFFICES ASSUME q # p PROVE FALSE
    OBVIOUS
  <2>1. PollOn(q, h)
    BY <1>2 DEF Only, PollOn, Goroutines
  <2>2. QED
    BY <2>1 DEF Alone
<1>3. ASSUME NEW b \in Approvers, On(b, h)' PROVE WorkOK(b, h)'
  <2>1. On(b, h) /\ pc'[b] = pc[b]
    BY <1>1, <1>3 DEF On, Only, Goroutines
  <2>2. WorkOK(b, h)
    BY <2>1 DEF SingleOK
  <2>3. QED
    BY <1>1, <2>1, <2>2 DEF WorkOK
<1>4. (\A m, n \in GrantsOf(h)' : m = n) /\ (TokensOf(h)' # {} => \E m \in GrantsOf(h)' : grants'[m].consumed)
  BY DEF SingleOK
<1>5. QED
  BY <1>2, <1>3, <1>4 DEF SingleOK

\* A poll that works on its grant alone consumes it before it issues, and what
\* it saves does not undo that.
LEMMA SinglePoll ==
  ASSUME Inv, NEW p \in Pollers, Succeed(p) \/ PollFails(p),
         NEW h \in Handles, SingleOK(h), Alone(h), job[p].handle = h, Mode(h) \in CIBAModes
  PROVE  SingleOK(h)'
<1>1. UNCHANGED <<sessions, deadline>> /\ TypeOK /\ pc[p] \in Stages
  BY DEF Succeed, ConsumeHandle, IssueAndRespond, RevokeGrant, PollFails, Inv, Stages
<1>2. Only(p)
  BY ConsumeStep, IssueStep, RevokeStep, FailStep DEF Succeed
<1>. PICK i : i = held[p].grant
  OBVIOUS
<1>. PICK v : v = View(p)
  OBVIOUS
<1>3. /\ PollOn(p, h) /\ PollOK(p, h) /\ i \in GrantsOf(h) /\ held[p].at \in Nat
      /\ v \in Grant /\ (grants[i].consumed => v.consumed)
  BY <1>1, Viewed DEF PollOn, PollOK, SingleOK, GrantsOf, TypeOK, Hold, View
<1>4. /\ \A m, n \in TokensOf(h) : m = n
      /\ TokensOf(h) # {} => grants[i].consumed
  BY <1>3 DEF SingleOK
<1>5. CASE ConsumeHandle(p)
  <2>. PICK g : g = [v EXCEPT !.consumed = TRUE]
    OBVIOUS
  <2>1. g \in Grant /\ g.consumed
    BY <1>3 DEF Grant
  <2>2. grants'[i] = g /\ GrantsOf(h)' = GrantsOf(h)
    BY <1>1, <1>5, SaveView DEF ConsumeHandle
  <2>3. held'[p].grant = i /\ (~SharedRecords => held'[p].copy = g)
    <3>1. held[p].answer \in Answers /\ Keep(p, g, held[p].answer)
      BY <1>1, <1>5 DEF TypeOK, Hold, ConsumeHandle
    <3>2. QED
      BY <1>1, <2>1, <3>1, KeptHold
  <2>4. pc'[p] = "issuing" /\ pc[p] = "redeeming" /\ TokensOf(h)' = TokensOf(h)
    BY <1>5, ConsumeStep DEF ConsumeHandle, TokensOf
  <2>5. PollOK(p, h)'
    BY <1>3, <2>1, <2>2, <2>3, <2>4 DEF PollOK
  <2>6. /\ TokensOf(h)' # {} => grants'[i].consumed
        /\ \A m, n \in TokensOf(h)' : m = n
    BY <1>4, <2>1, <2>2, <2>4
  <2>7. QED
    BY <1>1, <1>2, <1>3, <2>2, <2>4, <2>5, <2>6, SingleAfter
<1>6. CASE IssueAndRespond(p)
  <2>1. ~PollOn(p, h)' /\ GrantsOf(h)' = GrantsOf(h)
    BY <1>6, IssueStep DEF PollOn, Stages, IssueAndRespond, GrantsOf
  <2>2. grants'[i].consumed /\ TokensOf(h) = {} /\ Mode(h) # "push"
    BY <1>3, <1>6 DEF IssueAndRespond, PollOK, Inv, HeldOK, Stages
  <2>3. \A m, n \in TokensOf(h)' : m = n
    BY <1>1, <1>3, <1>6, <2>2, TokensAfter DEF IssueAndRespond, Issue
  <2>4. QED
    BY <1>1, <1>2, <1>3, <2>1, <2>2, <2>3, SingleAfter
<1>7. CASE RevokeGrant(p)
  <2>. PICK g : g = [v EXCEPT !.revoked = TRUE]
    OBVIOUS
  <2>1. g.consumed = v.consumed
    BY <1>3 DEF Grant
  <2>2. grants'[i] = g /\ GrantsOf(h)' = GrantsOf(h)
    BY <1>1, <1>7, SaveView DEF RevokeGrant
  <2>3. ~PollOn(p, h)' /\ TokensOf(h)' = TokensOf(h)
    BY <1>7, RevokeStep DEF PollOn, Stages, RevokeGrant, TokensOf
  <2>4. /\ TokensOf(h)' # {} => grants'[i].consumed
        /\ \A m, n \in TokensOf(h)' : m = n
    BY <1>3, <1>4, <2>1, <2>2, <2>3
  <2>5. QED
    BY <1>1, <1>2, <1>3, <2>2, <2>3, <2>4, SingleAfter
<1>8. CASE PollFails(p)
  <2>1. UNCHANGED grants /\ GrantsOf(h)' = GrantsOf(h)
    BY <1>8 DEF PollFails, GrantsOf
  <2>2. pc'[p] = IF pc[p] = "revoking" THEN "idle" ELSE "revoking"
    BY <1>8, FailStep
  <2>3. PollOn(p, h)' => PollOK(p, h)'
    <3> SUFFICES ASSUME pc[p] # "revoking" PROVE PollOK(p, h)'
      BY <2>2 DEF PollOn, Stages
    <3>. PICK g : g = [v EXCEPT !.consumed = TRUE]
      OBVIOUS
    <3>1. g \in Grant /\ g.consumed
      BY <1>3 DEF Grant
    <3>2. \/ Keep(p, g, "server_error")
          \/ Keep(p, v, "server_error")
      BY <1>8 DEF PollFails
    <3>3. PICK w \in {g, v} : Keep(p, w, "server_error")
      BY <3>2
    <3>4. "server_error" \in Answers /\ w \in Grant /\ (grants[i].consumed => w.consumed)
      BY <1>3, <3>1 DEF Answers
    <3>5. held'[p].grant = i /\ (~SharedRecords => held'[p].copy = w)
      BY <1>1, <3>3, <3>4, KeptHold
    <3>6. QED
      BY <2>1, <2>2, <3>4, <3>5 DEF PollOK
  <2>4. CASE UNCHANGED tokens
    <3>1. TokensOf(h)' = TokensOf(h)
      BY <2>4 DEF TokensOf
    <3>2. QED
      BY <1>1, <1>2, <1>3, <1>4, <2>1, <2>3, <3>1, SingleAfter
  <2>5. CASE Issue(p) /\ pc[p] = "issuing"
    <3>1. grants'[i].consumed /\ TokensOf(h) = {} /\ Mode(h) # "push"
      BY <1>3, <2>1, <2>5 DEF PollOK, Inv, HeldOK, Stages
    <3>2. \A m, n \in TokensOf(h)' : m = n
      BY <1>1, <1>3, <2>5, <3>1, TokensAfter DEF Issue
    <3>3. QED
      BY <1>1, <1>2, <1>3, <2>1, <2>3, <3>1, <3>2, SingleAfter
  <2>6. QED
    BY <1>8, <2>4, <2>5 DEF PollFails
<1>9. QED
  BY <1>5, <1>6, <1>7, <1>8 DEF Succeed

\* A goroutine that starts, ends or moves on, and may set a status.
LEMMA SingleMove ==
  ASSUME Inv, NEW p \in Goroutines, NEW k \in Handles, NEW h \in Handles, SingleOK(h),
         UNCHANGED <<grants, tokens, deadline, held>>,
         \/ UNCHANGED sessions
         \/ \E status \in {"pending", "success", "failure"} : SetStatus(k, status),
         Only(p), p \in Pollers => ~PollOn(p, h)',
         Mode(h) \in CIBAModes /\ p \in Approvers /\ On(p, h)' => WorkOK(p, h)'
  PROVE  SingleOK(h)'
<1>1. SessionsKept
  BY StatusSet DEF Inv
<1>2. Same(h) /\ HeldOnly(p)
  BY <1>1 DEF Same, GrantsOf, TokensOf, SessionsKept, HeldOnly
<1>3. QED
  BY <1>2, SingleKept

\* The approving goroutines between a decision and its effect.
LEMMA SingleApprover ==
  ASSUME Inv, NEW a \in Approvers, NEW h \in Handles, SingleOK(h),
         AuthenticateDevice(a) \/ LoadApproved(a) \/ Deny(a) \/ Resolve(a)
  PROVE  SingleOK(h)'
<1>1. a \in Goroutines /\ TypeOK /\ job[a].handle \in Handles /\ a \notin Pollers
  BY FlowAssumption DEF Goroutines, Inv, TypeOK, Job
<1>2. UNCHANGED <<grants, tokens, deadline, held>>
  BY DEF AuthenticateDevice, LoadApproved, Deny, Resolve
<1>3. \/ UNCHANGED sessions
      \/ \E status \in {"pending", "success", "failure"} : SetStatus(job[a].handle, status)
  BY DEF AuthenticateDevice, LoadApproved, Deny, Resolve
<1>4. CASE Stop(a)
  <2>1. Only(a) /\ ~On(a, h)'
    BY <1>1, <1>4, Stopped DEF On
  <2>2. QED
    BY <1>1, <1>2, <1>3, <2>1, SingleMove
<1>5. ASSUME NEW where \in {"granting", "denying", "announcing"}, Goto(a, where),
             where = "granting" => pc[a] \in {"authenticating", "approving"},
             where = "announcing" => pc[a] = "resolving", pc[a] # "idle"
      PROVE  SingleOK(h)'
  <2>1. job' = job /\ Only(a) /\ pc'[a] = where
    <3>1. where \in Places
      BY DEF Places
    <3>2. QED
      BY <1>1, <1>5, <3>1, Gone
  <2>2. GrantsOf(h)' = GrantsOf(h) /\ TokensOf(h)' = TokensOf(h)
    BY <1>2 DEF GrantsOf, TokensOf
  <2>3. Mode(h)' = Mode(h)
    BY <1>1, <1>2, <1>3, StatusSet DEF SessionsKept
  <2>4. ASSUME Mode(h) \in CIBAModes, On(a, h)' PROVE WorkOK(a, h)'
    <3>1. On(a, h)
      BY <1>5, <2>1, <2>4 DEF On
    <3>2. pc[a] # "authenticating"
      BY <1>1, <2>4, <3>1 DEF Inv, WorkerOK, On, CIBAModes
    <3>3. WorkOK(a, h)
      BY <2>4, <3>1 DEF SingleOK
    <3>4. QED
      BY <1>5, <2>1, <2>2, <2>3, <3>2, <3>3 DEF WorkOK
  <2>5. QED
    BY <1>1, <1>2, <1>3, <2>1, <2>4, SingleMove
<1>6. QED
  <2>1. \/ Stop(a)
        \/ \E where \in {"granting", "denying", "announcing"} :
             /\ Goto(a, where) /\ pc[a] # "idle"
             /\ where = "granting" => pc[a] \in {"authenticating", "approving"}
             /\ where = "announcing" => pc[a] = "resolving"
    BY DEF AuthenticateDevice, LoadApproved, Deny, Resolve
  <2>2. QED
    BY <1>4, <1>5, <2>1

\* A goroutine that starts to approve found no grant.
LEMMA SingleStart ==
  ASSUME Inv, NEW p \in Goroutines, NEW k \in Handles, NEW h \in Handles, SingleOK(h),
         \/ BeginVerify(p, k) \/ BeginApprove(p, k) \/ BeginDeny(p, k)
         \/ \E own \in BOOLEAN : PollNoGrant(p, k, own)
  PROVE  SingleOK(h)'
<1>1. UNCHANGED <<sessions, grants, tokens, deadline, held>>
  BY DEF BeginVerify, BeginApprove, BeginDeny, PollNoGrant
<1>2. PICK where \in {"authenticating", "approving", "denying", "nogrant"}, own \in BOOLEAN :
        Start(p, where, k, own) /\ (where = "approving" => GrantsOf(k) = {})
  BY DEF BeginVerify, BeginApprove, BeginDeny, PollNoGrant
<1>3. Only(p) /\ pc'[p] = where /\ job'[p].handle = k
  <2>1. where \in Places /\ TypeOK
    BY DEF Places, Inv
  <2>2. QED
    BY <1>2, <2>1, Started
<1>4. (On(p, h)' => WorkOK(p, h)') /\ ~PollOn(p, h)'
  BY <1>1, <1>2, <1>3 DEF On, PollOn, WorkOK, GrantsOf, Stages
<1>5. QED
  BY <1>1, <1>3, <1>4, SingleMove

\* Every step keeps a request that is not contended in order.
LEMMA SinglesNext ==
  ASSUME Inv, Inv', SinglesOK, [MCNext]_mcvars
  PROVE  SinglesOK'
<1>1. CASE UNCHANGED mcvars
  BY <1>1 DEF mcvars, vars, SinglesOK, Alone, SingleOK, WorkOK, On, PollOK, PollOn, Mode,
              GrantsOf, TokensOf
<1>2. CASE MCNext
  <2> SUFFICES ASSUME NEW h \in Handles, h \notin contended' PROVE Alone(h)' /\ SingleOK(h)'
    BY DEF SinglesOK
  <2>1. h \notin contended /\ ~Overlapping(h)' /\ Next
    BY <1>2 DEF MCNext
  <2>2. Alone(h)'
    BY <2>1, NotContended
  <2>3. Alone(h) /\ SingleOK(h)
    BY <2>1 DEF SinglesOK
  <2>4. CASE Tick
    BY <2>2, <2>3, <2>4 DEF Tick, SingleOK, WorkOK, On, PollOK, PollOn, Mode, GrantsOf, TokensOf
  <2>5. CASE \E k \in Handles, mode \in Modes : Open(k, mode)
    BY <2>2, <2>3, <2>5, SingleOpen
  <2>6. CASE \E p \in Goroutines, k \in Handles :
               \/ BeginVerify(p, k) \/ BeginApprove(p, k) \/ BeginDeny(p, k)
               \/ \E own \in BOOLEAN : PollNoGrant(p, k, own)
    BY <2>2, <2>3, <2>6, SingleStart
  <2>7. ASSUME NEW a \in Approvers, Proceed(a) PROVE SingleOK(h)'
    BY <2>2, <2>3, <2>7, SingleApprover, SingleGrant, SingleAnnounce DEF Proceed
  <2>8. ASSUME NEW p \in Pollers, NEW k \in Handles, NEW own \in BOOLEAN,
               NEW i \in DOMAIN grants, NEW ok \in BOOLEAN, PollGranted(p, k, i, own, ok)
        PROVE  SingleOK(h)'
    BY <2>2, <2>3, <2>8, SingleFound
  <2>9. ASSUME NEW p \in Pollers, ProceedPoll(p) PROVE SingleOK(h)'
    <3>1. CASE PollSession(p)
      <4>1. /\ Stop(p) /\ UNCHANGED <<sessions, grants, tokens, deadline, held>>
            /\ p \in Goroutines /\ p \notin Approvers
        BY <3>1, FlowAssumption DEF PollSession, Goroutines
      <4>2. Only(p) /\ ~PollOn(p, h)'
        BY <4>1, Stopped DEF PollOn, Inv, Stages
      <4>3. QED
        BY <2>3, <4>1, <4>2, SingleMove
    <3>2. CASE Succeed(p) \/ PollFails(p)
      <4>1. Mode(h)' = Mode(h)
        BY <3>2 DEF Succeed, ConsumeHandle, IssueAndRespond, RevokeGrant, PollFails, Mode
      <4>2. CASE Mode(h) \notin CIBAModes
        BY <4>1, <4>2 DEF SingleOK
      <4>3. CASE Mode(h) \in CIBAModes
        BY <2>3, <3>2, <4>3, SinglePoll, SingleElsewhere
      <4>4. QED
        BY <4>2, <4>3
    <3>3. QED
      BY <2>9, <3>1, <3>2 DEF ProceedPoll
  <2>10. QED
    BY <2>1, <2>2, <2>4, <2>5, <2>6, <2>7, <2>8, <2>9 DEF Next, Poll, Goroutines
<1>3. QED
  BY <1>1, <1>2

\* A CIBA request that no two goroutines resolve, and no two polls redeem, at a
\* time yields at most one access token, whatever is retried, denied, lost or
\* fails half way: GrantCIBARequest looks for a grant first, a pushed
\* auth_req_id is born consumed, and a poll saves the consumption before it
\* issues. (Polls that overlap can each get a token.)
THEOREM OneTokenUncontended == MCSpec => []OneTokenPerRequest
<1>1. MCInit => Inv /\ SinglesOK
  <2> SUFFICES ASSUME MCInit PROVE SinglesOK
    BY InitInv DEF MCInit
  <2>1. (\A a \in Approvers : pc[a] = "idle") /\ \A p \in Pollers : pc[p] = "idle"
    BY DEF MCInit, Init
  <2>2. DOMAIN grants = {} /\ DOMAIN tokens = {}
    BY DEF MCInit, Init
  <2>3. QED
    BY <2>1, <2>2 DEF SinglesOK, Alone, SingleOK, On, PollOn, Stages, GrantsOf, TokensOf
<1>2. Inv /\ SinglesOK /\ [MCNext]_mcvars => (Inv /\ SinglesOK)'
  <2>1. [MCNext]_mcvars => [Next]_vars
    BY DEF MCNext, mcvars
  <2>2. QED
    BY <2>1, NextInv, SinglesNext
<1>3. SinglesOK => OneTokenPerRequest
  <2> SUFFICES ASSUME SinglesOK, NEW h \in Handles \ contended, sessions[h].mode \in CIBAModes
               PROVE  Cardinality(TokensOf(h)) <= 1
    BY DEF OneTokenPerRequest
  <2>1. \A i, j \in TokensOf(h) : i = j
    BY DEF SinglesOK, SingleOK, Mode
  <2>2. QED
    BY <2>1, CountOne
<1>4. QED
  BY <1>1, <1>2, <1>3, PTL DEF MCSpec
=============================================================================
