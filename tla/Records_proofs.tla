--------------------------- MODULE Records_proofs ---------------------------
(***************************************************************************)
(* Proofs about Records: any number of requests, any metadata, either kind *)
(* of manager of any capacity.                                             *)
(***************************************************************************)
EXTENDS Records, FiniteSetTheorems, TLAPS

\* Request r is about a client's registration.
Manages(r) == InProgress(r) /\ req[r].op \in {"create", "update", "fetch", "remove"}

\* The goroutines are records, which the provers have to be told.
Shape ==
  /\ req = [r \in Requests |-> req[r]]
  /\ \A r \in Requests :
       req[r] = [op |-> req[r].op, stage |-> req[r].stage, on |-> req[r].on, copy |-> req[r].copy]

\* Two requests in progress on one record are on the record of overlaps.
Paired ==
  \A q, r \in Requests :
    (q # r /\ InProgress(q) /\ InProgress(r) /\ req[q].on = req[r].on /\ req[r].on # None)
      => req[r].on \in overlapped

\* A request that has not arrived has not created a client.
Fresh ==
  \A r \in Requests :
    req[r].stage = "idle" =>
      /\ r \notin removed /\ r \notin storedClients
      /\ \A q \in Requests : Manages(q) => req[q].on # r

\* A request about a removed client was in progress before the removal.
Late ==
  \A r \in Requests :
    (Manages(r) /\ req[r].on \in removed) => req[r].on \in overlapped

Targets ==
  /\ storedClients \subseteq Requests
  /\ \A r \in Requests :
       /\ Manages(r) => req[r].on \in Requests
       /\ req[r].stage \in {"loaded", "save"} => Manages(r)

RemovalInv == Shape /\ Paired /\ Fresh /\ Late /\ Targets /\ RemovedForGood

-----------------------------------------------------------------------------
(* Steps of one goroutine. *)

\* Goroutine r takes a step, the others do not.
Moves(r) ==
  /\ Shape'
  /\ \A q \in Requests \ {r} : req'[q] = req[q]
  /\ overlapped \subseteq overlapped'

\* It arrives; whoever works on the same record has overlapped with it.
Begins(r) ==
  /\ Moves(r)
  /\ req[r].stage = "idle"
  /\ req'[r].stage \notin {"idle", "done"}
  /\ \A q \in Requests \ {r} :
       (InProgress(q) /\ req[q].on = req'[r].on /\ req[q].on # None) => req[q].on \in overlapped'

\* It goes on with its record, or ends.
Continues(r) ==
  /\ Moves(r)
  /\ InProgress(r)
  /\ overlapped' = overlapped
  /\ req'[r].on = req[r].on
  /\ \/ req'[r].op = req[r].op /\ req'[r].stage \notin {"idle", "done"}
     \/ req'[r].stage = "done"

\* Going on, as GoTo says it.
LEMMA GoToContinues ==
  ASSUME Shape, NEW r \in Requests, NEW stage, stage \notin {"idle", "done"},
         InProgress(r), GoTo(r, stage)
  PROVE  /\ Continues(r)
         /\ req'[r].stage = stage /\ req'[r].op = req[r].op /\ req'[r].copy = req[r].copy
         /\ config' = config /\ now' = now
BY DEF GoTo, Continues, Moves, Shape, InProgress

\* Ending, as End says it.
LEMMA EndContinues ==
  ASSUME Shape, NEW r \in Requests, InProgress(r), End(r)
  PROVE  Continues(r) /\ req'[r].stage = "done" /\ config' = config /\ now' = now
BY DEF End, Arrival, Continues, Moves, Shape, InProgress

\* No step of one goroutine overlaps with another unrecorded.
LEMMA PairedKept ==
  ASSUME RemovalInv, NEW r \in Requests, Begins(r) \/ Continues(r)
  PROVE  Paired'
BY DEF RemovalInv, Paired, Begins, Continues, Moves, InProgress

\* A step that neither stores, removes nor begins to manage a client keeps the
\* invariant.
LEMMA Bystander ==
  ASSUME RemovalInv, NEW r \in Requests,
         Continues(r) \/ (Begins(r) /\ ~Manages(r)'),
         req'[r].stage \in {"loaded", "save"} => Manages(r)',
         UNCHANGED <<storedClients, removed>>
  PROVE  RemovalInv'
<1>1. Paired'
  BY PairedKept
<1>2. Shape' /\ overlapped \subseteq overlapped'
  BY DEF Continues, Begins, Moves
<1>3. \A q \in Requests : Manages(q)' => Manages(q) /\ req'[q].on = req[q].on
  BY DEF Continues, Begins, Moves, Manages, InProgress
<1>4. \A q \in Requests : req'[q].stage = "idle" => req[q].stage = "idle"
  BY DEF Continues, Begins, Moves, InProgress
<1>5. \A q \in Requests : req'[q].stage \in {"loaded", "save"} => Manages(q)'
  BY DEF Continues, Begins, Moves, Manages, InProgress, RemovalInv, Targets
<1>6. QED
  BY <1>1, <1>2, <1>3, <1>4, <1>5 DEF RemovalInv, Fresh, Late, Targets, RemovedForGood

\* A save adds no other record than its own.
LEMMA SavedOnly ==
  ASSUME NEW keys, NEW k, NEW created, NEW saved \in SavedEvicting(keys, k, created)
  PROVE  saved \subseteq keys \cup {k}
BY DEF SavedEvicting, SaveEvicting

-----------------------------------------------------------------------------
(* The invariant of removals, action by action. *)

\* A new client: its ID is fresh, so nobody removed it or works on it.
LEMMA CreateKeeps ==
  ASSUME RemovalInv, NEW r \in Requests, NEW meta, create(r, meta)
  PROVE  RemovalInv'
<1>0. Shape /\ Begin(r, "create", r, None, "respond")
  BY DEF create, RemovalInv
<1>1. Begins(r) /\ req'[r].on = r
  BY <1>0 DEF Begin, Begins, Moves, Shape, InProgress
<1>2. Paired'
  BY <1>1, PairedKept
<1>3. storedClients' \subseteq storedClients \cup {r} /\ removed' = removed
  BY SavedOnly DEF create, SaveClient
<1>4. Shape' /\ overlapped \subseteq overlapped' /\ req[r].stage = "idle" /\ req'[r].stage # "idle"
  BY <1>1 DEF Begins, Moves
<1>5. /\ \A q \in Requests \ {r} : req'[q] = req[q] /\ (Manages(q)' <=> Manages(q))
      /\ Manages(r)'
  BY <1>0, <1>1 DEF Begins, Begin, Moves, Manages, InProgress, Shape
<1>6. Fresh'
  BY <1>1, <1>3, <1>4, <1>5 DEF RemovalInv, Fresh
<1>7. Late' /\ RemovedForGood'
  BY <1>1, <1>3, <1>4, <1>5 DEF RemovalInv, Fresh, Late, RemovedForGood
<1>8. Targets'
  BY <1>1, <1>3, <1>5 DEF RemovalInv, Targets
<1>9. QED
  BY <1>2, <1>4, <1>6, <1>7, <1>8 DEF RemovalInv

\* A request that was let in found its client stored: if the client had been
\* removed all the same, that is on the record of overlaps.
LEMMA ProtectedKeeps ==
  ASSUME RemovalInv, NEW r \in Requests, NEW id \in Requests,
         NEW op \in {"update", "fetch", "remove"}, protected(r, id, op)
  PROVE  RemovalInv'
<1>0. Shape /\ Begin(r, op, id, clients[id], "loaded")
  BY DEF protected, RemovalInv
<1>1. Begins(r) /\ req'[r].on = id
  BY <1>0 DEF Begin, Begins, Moves, Shape, InProgress
<1>2. Paired'
  BY <1>1, PairedKept
<1>3. storedClients' = storedClients /\ removed' = removed /\ id \in storedClients
  BY DEF protected, registrationVars, Found
<1>4. Shape' /\ overlapped \subseteq overlapped' /\ req'[r].stage # "idle"
  BY <1>1 DEF Begins, Moves
<1>5. /\ \A q \in Requests \ {r} : req'[q] = req[q] /\ (Manages(q)' <=> Manages(q))
      /\ Manages(r)'
  BY <1>0, <1>1 DEF Begins, Begin, Moves, Manages, InProgress, Shape
<1>6. id # r /\ req[id].stage # "idle"
  BY <1>1, <1>3 DEF RemovalInv, Fresh, Begins
<1>7. Fresh' /\ Late' /\ RemovedForGood' /\ Targets'
  BY <1>1, <1>3, <1>4, <1>5, <1>6 DEF RemovalInv, Fresh, Late, RemovedForGood, Targets
<1>8. QED
  BY <1>2, <1>4, <1>7 DEF RemovalInv

\* A removal: whoever else works on the client overlaps with it.
LEMMA RemoveKeeps ==
  ASSUME RemovalInv, NEW r \in Requests, remove(r)
  PROVE  RemovalInv'
<1>0. InProgress(r) /\ Manages(r)
  BY DEF remove, At, InProgress, Manages
<1>1. Continues(r)
  BY <1>0, EndContinues DEF remove, RemovalInv
<1>2. Paired'
  BY <1>1, PairedKept
<1>3. storedClients' = storedClients \ {req[r].on} /\ removed' = removed \cup {req[r].on}
  BY DEF remove
<1>4. Shape' /\ overlapped' = overlapped
  BY <1>1 DEF Continues, Moves
<1>5. /\ \A q \in Requests \ {r} : req'[q] = req[q] /\ (Manages(q)' <=> Manages(q))
      /\ ~Manages(r)' /\ req'[r].stage = "done"
  <2>1. req'[r].stage = "done"
    BY <1>0, EndContinues DEF remove, RemovalInv
  <2>2. QED
    BY <1>1, <2>1 DEF Continues, Moves, Manages, InProgress
<1>6. req[r].on \in Requests /\ req[req[r].on].stage # "idle"
  BY <1>0 DEF RemovalInv, Fresh, Targets
<1>7. \A q \in Requests \ {r} :
        (Manages(q) /\ req[q].on = req[r].on) => req[r].on \in overlapped
  BY <1>0, <1>6, RequestsAssumption DEF RemovalInv, Paired, Manages
<1>8. Fresh' /\ RemovedForGood' /\ Targets'
  BY <1>3, <1>4, <1>5, <1>6 DEF RemovalInv, Fresh, RemovedForGood, Targets
<1>9. Late'
  BY <1>3, <1>4, <1>5, <1>7 DEF RemovalInv, Late
<1>10. QED
  BY <1>2, <1>4, <1>8, <1>9 DEF RemovalInv

\* A save brings back no removed client but one it overlapped with.
LEMMA SaveChangedKeeps ==
  ASSUME RemovalInv, NEW r \in Requests, saveChanged(r)
  PROVE  RemovalInv'
<1>0. Manages(r) /\ InProgress(r)
  BY DEF saveChanged, At, RemovalInv, Targets, Manages
<1>1. Continues(r)
  BY <1>0, GoToContinues DEF saveChanged, RemovalInv
<1>a. Manages(r)' /\ req'[r].stage = "respond"
  BY <1>0, GoToContinues DEF saveChanged, RemovalInv, Manages, InProgress
<1>2. Paired'
  BY <1>1, PairedKept
<1>3. storedClients' \subseteq storedClients \cup {req[r].on} /\ removed' = removed
  BY SavedOnly DEF saveChanged, SaveClient
<1>4. Shape' /\ overlapped' = overlapped
  BY <1>1 DEF Continues, Moves
<1>5. \A q \in Requests :
        /\ Manages(q)' => Manages(q) /\ req'[q].on = req[q].on
        /\ req'[q].stage = "idle" => req[q].stage = "idle"
        /\ req'[q].stage \in {"loaded", "save"} => Manages(q)'
  BY <1>1, <1>a DEF Continues, Moves, Manages, InProgress, RemovalInv, Targets
<1>6. Fresh' /\ Late' /\ RemovedForGood' /\ Targets'
  BY <1>0, <1>3, <1>4, <1>5 DEF RemovalInv, Fresh, Late, RemovedForGood, Targets
<1>7. QED
  BY <1>2, <1>4, <1>6 DEF RemovalInv

\* A goroutine that assigns goes on.
LEMMA AssignContinues ==
  ASSUME Shape, NEW r \in Requests, NEW c, NEW stage, stage \notin {"idle", "done"},
         InProgress(r),
         req' = [req EXCEPT ![r] = [op |-> @.op, stage |-> stage, on |-> @.on, copy |-> c]],
         overlapped' = overlapped
  PROVE  Continues(r) /\ req'[r].stage = stage
BY DEF Continues, Moves, Shape, InProgress

\* The remaining steps of registration continue without storing or removing.
LEMMA OtherRegistration ==
  ASSUME RemovalInv, NEW r \in Requests,
         \/ \E meta \in Metas : update(r, meta)
         \/ fetch(r) \/ failRegistration(r) \/ respond(r) \/ loseAnswer(r)
  PROVE  RemovalInv'
<1>0. Shape
  BY DEF RemovalInv
<1>1. InProgress(r)
  BY DEF update, fetch, failRegistration, respond, loseAnswer, At, InProgress
<1>2. CASE \/ \E meta \in Metas : update(r, meta)
           \/ fetch(r)
  <2>1. Manages(r)
    BY <1>2 DEF update, fetch, At, Manages, InProgress
  <2>2. PICK c, stage :
          /\ stage \in {"save", "respond"}
          /\ req' = [req EXCEPT ![r] = [op |-> @.op, stage |-> stage, on |-> @.on, copy |-> c]]
          /\ UNCHANGED <<overlapped, storedClients, removed>>
    BY <1>2 DEF update, fetch, Assign
  <2>3. Continues(r) /\ req'[r].stage = stage
    BY <1>0, <1>1, <2>2, AssignContinues
  <2>4. Manages(r)'
    BY <2>1, <2>2, <2>3 DEF Manages, InProgress, Continues
  <2>5. QED
    BY <2>2, <2>3, <2>4, Bystander
<1>3. CASE failRegistration(r) \/ respond(r) \/ loseAnswer(r)
  <2>1. End(r) /\ UNCHANGED <<storedClients, removed>>
    BY <1>3 DEF failRegistration, respond, loseAnswer, registrationVars
  <2>2. Continues(r) /\ req'[r].stage = "done"
    BY <1>0, <1>1, <2>1, EndContinues
  <2>3. QED
    BY <2>1, <2>2, Bystander
<1>4. QED
  BY <1>2, <1>3

\* Every step of registration.
LEMMA RegistrationKeeps ==
  ASSUME RemovalInv, RegistrationNext
  PROVE  RemovalInv'
<1>1. PICK r \in Requests :
        \/ \E meta \in Metas : create(r, meta) \/ update(r, meta)
        \/ \E id \in Requests, op \in {"update", "fetch", "remove"} : protected(r, id, op)
        \/ fetch(r) \/ saveChanged(r) \/ remove(r)
        \/ failRegistration(r) \/ respond(r) \/ loseAnswer(r)
  BY DEF RegistrationNext
<1>2. CASE \E meta \in Metas : create(r, meta)
  BY <1>2, CreateKeeps
<1>3. CASE \E id \in Requests, op \in {"update", "fetch", "remove"} : protected(r, id, op)
  BY <1>3, ProtectedKeeps
<1>4. CASE saveChanged(r)
  BY <1>4, SaveChangedKeeps
<1>5. CASE remove(r)
  BY <1>5, RemoveKeeps
<1>6. CASE \/ \E meta \in Metas : update(r, meta)
           \/ fetch(r) \/ failRegistration(r) \/ respond(r) \/ loseAnswer(r)
  BY <1>6, OtherRegistration
<1>7. QED
  BY <1>1, <1>2, <1>3, <1>4, <1>5, <1>6

-----------------------------------------------------------------------------
(* The other endpoints, which share the goroutines and the clock. *)

\* The clock touches no goroutine.
LEMMA TickKeeps ==
  ASSUME RemovalInv, Tick, UNCHANGED registrationVars
  PROVE  RemovalInv'
BY DEF Tick, registrationVars, RemovalInv, Shape, Paired, Fresh, Late, Targets,
       RemovedForGood, Manages, InProgress

\* A logout manages no client.
LEMMA LogoutKeeps ==
  ASSUME RemovalInv, LogoutNext(URIs), UNCHANGED registrationVars
  PROVE  RemovalInv'
<1>0. Shape /\ UNCHANGED <<storedClients, removed>>
  BY DEF RemovalInv, registrationVars
<1>1. PICK r \in Requests :
        \/ \E id \in Requests, uri \in URIs \cup {None} : initLogout(r, id, uri)
        \/ \E s \in Requests : continueLogout(r, s)
        \/ \E status \in {"success", "pending", "failure"} : logout(r, status)
        \/ failLogout(r) \/ redirect(r)
  BY DEF LogoutNext
<1>2. CASE \/ \E id \in Requests, uri \in URIs \cup {None} : initLogout(r, id, uri)
           \/ \E s \in Requests : continueLogout(r, s)
  <2>1. PICK s, ls : Begin(r, "logout", s, ls, "policy")
    BY <1>2 DEF initLogout, continueLogout
  <2>2. Begins(r) /\ ~Manages(r)' /\ req'[r].stage = "policy"
    BY <1>0, <2>1 DEF Begin, Begins, Moves, Shape, InProgress, Manages
  <2>3. QED
    BY <1>0, <2>2, Bystander
<1>3. CASE (\E status \in {"success", "pending", "failure"} : logout(r, status))
           \/ failLogout(r) \/ redirect(r)
  <2>1. InProgress(r) /\ (GoTo(r, "redirect") \/ End(r))
    BY <1>3 DEF logout, failLogout, redirect, At, InProgress
  <2>2. Continues(r) /\ req'[r].stage \in {"redirect", "done"}
    BY <1>0, <2>1, GoToContinues, EndContinues
  <2>3. QED
    BY <1>0, <2>2, Bystander
<1>4. QED
  BY <1>1, <1>2, <1>3

\* Neither does the credential endpoint.
LEMMA IssuanceKeeps ==
  ASSUME RemovalInv, IssuanceNext, UNCHANGED registrationVars
  PROVE  RemovalInv'
<1>0. Shape /\ UNCHANGED <<storedClients, removed>>
  BY DEF RemovalInv, registrationVars
<1>1. PICK r \in Requests :
        \/ \E g \in Grants : deferIssue(r, g) \/ issue(r, g)
        \/ \E d \in Requests, g \in Grants : deferredCredential(r, d, g) \/ notify(r, d, g)
        \/ stillPending(r) \/ consume(r)
        \/ issueCredentials(r) \/ saveNotification(r)
        \/ failIssuance(r) \/ answer(r) \/ failAnswer(r)
  BY DEF IssuanceNext
<1>2. CASE \/ \E g \in Grants : deferIssue(r, g) \/ issue(r, g)
           \/ \E d \in Requests, g \in Grants : deferredCredential(r, d, g)
  <2>1. PICK op, d, copy, stage :
          /\ op \in {"issue", "poll"} /\ stage \in {"answer", "issuing", "polled"}
          /\ Begin(r, op, d, copy, stage)
    BY <1>2 DEF deferIssue, issue, deferredCredential
  <2>2. Begins(r) /\ ~Manages(r)' /\ req'[r].stage = stage
    BY <1>0, <2>1 DEF Begin, Begins, Moves, Shape, InProgress, Manages
  <2>3. QED
    BY <1>0, <2>1, <2>2, Bystander
<1>3. CASE \E d \in Requests, g \in Grants : notify(r, d, g)
  <2>1. At(r, "idle") /\ End(r)
    BY <1>3 DEF notify
  <2>2. /\ Shape' /\ overlapped' = overlapped
        /\ req'[r].stage = "done"
        /\ \A q \in Requests \ {r} : req'[q] = req[q]
    BY <1>0, <2>1 DEF End, Arrival, Shape
  <2>3. \A q \in Requests : InProgress(q)' => InProgress(q) /\ req'[q] = req[q]
    BY <2>2 DEF InProgress
  <2>4. Paired'
    BY <2>2, <2>3 DEF RemovalInv, Paired
  <2>5. Fresh' /\ Late' /\ Targets' /\ RemovedForGood'
    BY <1>0, <2>2, <2>3 DEF RemovalInv, Fresh, Late, Targets, RemovedForGood, Manages, InProgress
  <2>6. QED
    BY <2>2, <2>4, <2>5 DEF RemovalInv
<1>4. CASE \/ stillPending(r) \/ consume(r)
           \/ issueCredentials(r) \/ saveNotification(r)
           \/ failIssuance(r) \/ answer(r) \/ failAnswer(r)
  <2>1. /\ InProgress(r)
        /\ GoTo(r, "answer") \/ GoTo(r, "issuing") \/ GoTo(r, "notify") \/ End(r)
    BY <1>4 DEF stillPending, consume, issueCredentials, saveNotification, failIssuance,
                answer, failAnswer, At, InProgress
  <2>2. Continues(r) /\ req'[r].stage \in {"answer", "issuing", "notify", "done"}
    BY <1>0, <2>1, GoToContinues, EndContinues
  <2>3. QED
    BY <1>0, <2>2, Bystander
<1>5. QED
  BY <1>1, <1>2, <1>3, <1>4

-----------------------------------------------------------------------------
(* The theorem. *)

\* The invariant of removals holds from the start and through every step of the
\* three endpoints.
THEOREM RemovalInvariant == Spec => []RemovalInv
<1>1. Init => RemovalInv
  BY DEF Init, RequestsInit, RegistrationInit, Arrival, RemovalInv, Shape, Paired, Fresh,
         Late, Targets, RemovedForGood, Manages, InProgress
<1>2. RemovalInv /\ [Next]_vars => RemovalInv'
  <2>1. SUFFICES ASSUME RemovalInv, [Next]_vars PROVE RemovalInv'
    OBVIOUS
  <2>2. CASE Next
    BY <2>1, <2>2, TickKeeps, RegistrationKeeps, LogoutKeeps, IssuanceKeeps DEF Next
  <2>3. CASE UNCHANGED vars
    BY <2>1, <2>3 DEF vars, requestVars, registrationVars, RemovalInv, Shape, Paired, Fresh,
         Late, Targets, RemovedForGood, Manages, InProgress
  <2>4. QED
    BY <2>1, <2>2, <2>3
<1>3. QED
  BY <1>1, <1>2, PTL DEF Spec

\* A client that DELETE removed does not come back through another request's
\* save, unless two requests for it were in progress at the same time: with
\* any manager, any number of requests and any interleaving of the endpoints.
THEOREM RemovalsLast == Spec => []RemovedForGood
<1>1. RemovalInv => RemovedForGood
  BY DEF RemovalInv
<1>2. QED
  BY <1>1, RemovalInvariant, PTL

-----------------------------------------------------------------------------
(* Deferrals. *)

Deferral == [grant : Grants \cup {None}, consumed : BOOLEAN, created : Nat]

\* Nobody knows of a request that has not arrived.
Known ==
  /\ \A r \in Requests :
       req[r].stage = "idle" =>
         req[r].on = None /\ r \notin issued /\ r \notin answered /\ r \notin storedSessions
  /\ \A r \in Requests : req[r].on \in Requests => req[req[r].on].stage # "idle"

DeferralsTyped ==
  /\ now \in Nat /\ issued \subseteq Requests
  /\ deferrals \in [Requests -> Deferral]
  /\ \A r \in Requests :
       req[r].stage = "polled" => req[r].on \in Requests /\ req[r].copy \in Deferral

\* No credential was issued for d.
Unissued(d) == \A r \in issued : req[r].on # d

\* A deferral that polls do not overlap on is consumed when its credential is
\* issued, and whoever is about to issue is the first to do so.
DeferralOK(d) ==
  /\ \A q, r \in issued : req[q].on = d /\ req[r].on = d => q = r
  /\ ~deferrals[d].consumed => Unissued(d)
  /\ \A r \in Requests : req[r].on = d =>
       /\ req[r].stage = "polled" => Unissued(d)
       /\ req[r].stage = "issuing" => Unissued(d) /\ deferrals[d].consumed

DeferralsInv ==
  /\ Known /\ DeferralsTyped
  /\ \A d \in Requests \ overlapped : DeferralOK(d)


\* A goroutine moves without polling a deferral or issuing for one.
LEMMA DeferralsKept ==
  ASSUME DeferralsInv, NEW r \in Requests, Moves(r),
         req'[r].stage \notin {"idle", "polled"},
         req'[r].stage = "issuing" => req'[r].on \notin Requests,
         req[r].stage = "idle" \/ req'[r].on = req[r].on,
         req'[r].on \in Requests => req'[r].on = r \/ req[req'[r].on].stage # "idle",
         storedSessions' \subseteq storedSessions \cup {req'[r].on},
         answered' \subseteq answered \cup {r},
         now' = now, issued' = issued, deferrals' = deferrals
  PROVE  DeferralsInv'
<1>1. \A q \in Requests \ {r} : req'[q] = req[q]
  BY DEF Moves
<1>2. Known'
  BY <1>1 DEF DeferralsInv, Known
<1>3. DeferralsTyped'
  BY <1>1 DEF DeferralsInv, DeferralsTyped
<1>4. \A q \in issued : req'[q].on = req[q].on
  BY <1>1 DEF DeferralsInv, Known, DeferralsTyped
<1>5. ASSUME NEW d \in Requests \ overlapped' PROVE DeferralOK(d)'
  <2>1. d \in Requests \ overlapped /\ DeferralOK(d)
    BY DEF DeferralsInv, Moves
  <2>2. \A q \in Requests :
          req'[q].on = d /\ req'[q].stage \in {"polled", "issuing"} => req'[q] = req[q]
    BY <1>1
  <2>3. Unissued(d)' <=> Unissued(d)
    BY <1>4 DEF Unissued
  <2>4. QED
    BY <1>4, <2>1, <2>2, <2>3 DEF DeferralOK
<1>6. QED
  BY <1>2, <1>3, <1>5 DEF DeferralsInv

\* A goroutine goes on without polling or issuing.
LEMMA DeferralsContinue ==
  ASSUME DeferralsInv, NEW r \in Requests, Continues(r),
         req'[r].stage \notin {"polled", "issuing"},
         storedSessions' \subseteq storedSessions \cup {req[r].on},
         answered' \subseteq answered \cup {r},
         now' = now, issued' = issued, deferrals' = deferrals
  PROVE  DeferralsInv'
<1>1. Moves(r) /\ req'[r].on = req[r].on /\ req'[r].stage # "idle"
  BY DEF Continues
<1>2. req[r].on \in Requests => req[req[r].on].stage # "idle"
  BY DEF DeferralsInv, Known
<1>3. QED
  BY <1>1, <1>2, DeferralsKept

\* A registration request polls nothing.
LEMMA RegistrationDeferrals ==
  ASSUME RemovalInv, DeferralsInv, RegistrationNext, UNCHANGED <<logoutVars, issuanceVars>>
  PROVE  DeferralsInv'
<1>0. /\ Shape /\ storedSessions' = storedSessions
      /\ answered' = answered /\ issued' = issued /\ deferrals' = deferrals
  BY DEF RemovalInv, logoutVars, issuanceVars
<1>1. PICK r \in Requests :
        \/ \E meta \in Metas : create(r, meta) \/ update(r, meta)
        \/ \E id \in Requests, op \in {"update", "fetch", "remove"} : protected(r, id, op)
        \/ fetch(r) \/ saveChanged(r) \/ remove(r)
        \/ failRegistration(r) \/ respond(r) \/ loseAnswer(r)
  BY DEF RegistrationNext
<1>2. CASE \E meta \in Metas : create(r, meta)
  <2>1. Begin(r, "create", r, None, "respond")
    BY <1>2 DEF create
  <2>2. /\ Begins(r) /\ req[r].stage = "idle" /\ now' = now
        /\ req'[r].stage = "respond" /\ req'[r].on = r
    BY <1>0, <2>1 DEF Begin, Begins, Moves, Shape, InProgress
  <2>3. QED
    BY <1>0, <2>2, DeferralsKept DEF Begins
<1>3. CASE \E id \in Requests, op \in {"update", "fetch", "remove"} : protected(r, id, op)
  <2>1. PICK id \in Requests, op \in {"update", "fetch", "remove"} : protected(r, id, op)
    BY <1>3
  <2>2. id \in storedClients /\ Begin(r, op, id, clients[id], "loaded")
    BY <2>1 DEF protected, Found
  <2>3. /\ Begins(r) /\ req[r].stage = "idle" /\ now' = now
        /\ req'[r].stage = "loaded" /\ req'[r].on = id
    BY <1>0, <2>2 DEF Begin, Begins, Moves, Shape, InProgress
  <2>4. req[id].stage # "idle"
    BY <2>2 DEF RemovalInv, Fresh
  <2>5. QED
    BY <1>0, <2>3, <2>4, DeferralsKept DEF Begins
<1>4. CASE (\E meta \in Metas : update(r, meta)) \/ fetch(r)
  <2>1. PICK c, stage :
          /\ stage \in {"save", "respond"}
          /\ req' = [req EXCEPT ![r] = [op |-> @.op, stage |-> stage, on |-> @.on, copy |-> c]]
          /\ overlapped' = overlapped /\ now' = now
    BY <1>4 DEF update, fetch, Assign
  <2>2. InProgress(r)
    BY <1>4 DEF update, fetch, At, InProgress
  <2>3. Continues(r) /\ req'[r].stage = stage
    BY <1>0, <2>1, <2>2, AssignContinues
  <2>4. QED
    BY <1>0, <2>1, <2>3, DeferralsContinue
<1>5. CASE saveChanged(r) \/ remove(r) \/ failRegistration(r) \/ respond(r) \/ loseAnswer(r)
  <2>1. InProgress(r) /\ (GoTo(r, "respond") \/ End(r))
    BY <1>5 DEF saveChanged, remove, failRegistration, respond, loseAnswer, At, InProgress
  <2>2. Continues(r) /\ req'[r].stage \in {"respond", "done"} /\ now' = now
    BY <1>0, <2>1, GoToContinues, EndContinues
  <2>3. QED
    BY <1>0, <2>2, DeferralsContinue
<1>6. QED
  BY <1>1, <1>2, <1>3, <1>4, <1>5

\* Neither does a logout.
LEMMA LogoutDeferrals ==
  ASSUME RemovalInv, DeferralsInv, LogoutNext(URIs), UNCHANGED issuanceVars
  PROVE  DeferralsInv'
<1>0. Shape /\ answered' = answered /\ issued' = issued /\ deferrals' = deferrals
  BY DEF RemovalInv, issuanceVars
<1>1. PICK r \in Requests :
        \/ \E id \in Requests, uri \in URIs \cup {None} : initLogout(r, id, uri)
        \/ \E s \in Requests : continueLogout(r, s)
        \/ \E status \in {"success", "pending", "failure"} : logout(r, status)
        \/ failLogout(r) \/ redirect(r)
  BY DEF LogoutNext
<1>2. CASE \E id \in Requests, uri \in URIs \cup {None} : initLogout(r, id, uri)
  <2>1. PICK ls : Begin(r, "logout", r, ls, "policy") /\ SaveLogoutSession(r, ls)
    BY <1>2 DEF initLogout
  <2>2. /\ Begins(r) /\ req[r].stage = "idle" /\ now' = now
        /\ req'[r].stage = "policy" /\ req'[r].on = r
    BY <1>0, <2>1 DEF Begin, Begins, Moves, Shape, InProgress
  <2>3. storedSessions' \subseteq storedSessions \cup {r}
    BY <2>1, SavedOnly DEF SaveLogoutSession
  <2>4. QED
    BY <1>0, <2>2, <2>3, DeferralsKept DEF Begins
<1>3. CASE \E s \in Requests : continueLogout(r, s)
  <2>1. PICK s \in Requests : continueLogout(r, s)
    BY <1>3
  <2>2. s \in storedSessions /\ Begin(r, "logout", s, sessions[s], "policy")
        /\ storedSessions' = storedSessions
    BY <2>1 DEF continueLogout, logoutVars
  <2>3. /\ Begins(r) /\ req[r].stage = "idle" /\ now' = now
        /\ req'[r].stage = "policy" /\ req'[r].on = s
    BY <1>0, <2>2 DEF Begin, Begins, Moves, Shape, InProgress
  <2>4. req[s].stage # "idle"
    BY <2>2 DEF DeferralsInv, Known
  <2>5. QED
    BY <1>0, <2>2, <2>3, <2>4, DeferralsKept DEF Begins
<1>4. CASE (\E status \in {"success", "pending", "failure"} : logout(r, status))
           \/ failLogout(r) \/ redirect(r)
  <2>1. InProgress(r) /\ (GoTo(r, "redirect") \/ End(r))
    BY <1>4 DEF logout, failLogout, redirect, At, InProgress
  <2>2. Continues(r) /\ req'[r].stage \in {"redirect", "done"} /\ now' = now
    BY <1>0, <2>1, GoToContinues, EndContinues
  <2>3. storedSessions' \subseteq storedSessions \cup {req[r].on}
    BY <1>4, SavedOnly DEF logout, failLogout, redirect, SaveLogoutSession, logoutVars
  <2>4. QED
    BY <1>0, <2>2, <2>3, DeferralsContinue
<1>5. QED
  BY <1>1, <1>2, <1>3, <1>4

\* The credential is deferred: nobody knows the deferral yet.
LEMMA DeferIssueDeferrals ==
  ASSUME RemovalInv, DeferralsInv, NEW r \in Requests, NEW g \in Grants, deferIssue(r, g),
         storedSessions' = storedSessions
  PROVE  DeferralsInv'
<1>1. PICK x : x = [grant |-> g, consumed |-> FALSE, created |-> now]
  OBVIOUS
<1>2. /\ Shape /\ Begin(r, "issue", r, x, "answer") /\ deferrals' = [deferrals EXCEPT ![r] = x]
      /\ issued' = issued /\ answered' = answered
  BY <1>1 DEF deferIssue, SaveDeferral, RemovalInv
<1>3. /\ Moves(r) /\ req[r].stage = "idle" /\ now' = now
      /\ req'[r].stage = "answer" /\ req'[r].on = r
  BY <1>2 DEF Begin, Moves, Shape
<1>4. x \in Deferral
  BY <1>1 DEF Deferral, DeferralsInv, DeferralsTyped
<1>5. \A q \in Requests \ {r} : req'[q] = req[q]
  BY <1>3 DEF Moves
<1>6. r \notin issued /\ \A q \in Requests : req[q].on # r
  BY <1>3, RequestsAssumption DEF DeferralsInv, Known
<1>7. Known' /\ DeferralsTyped'
  BY <1>2, <1>3, <1>4, <1>5 DEF DeferralsInv, Known, DeferralsTyped
<1>8. ASSUME NEW d \in Requests \ overlapped' PROVE DeferralOK(d)'
  <2>1. DeferralOK(d)
    BY <1>3 DEF DeferralsInv, Moves
  <2>2. \A q \in issued : q \in Requests /\ req'[q] = req[q]
    BY <1>5, <1>6 DEF DeferralsInv, DeferralsTyped
  <2>3. Unissued(d)' <=> Unissued(d)
    BY <1>2, <2>2 DEF Unissued
  <2>4. d # r => deferrals'[d] = deferrals[d]
    BY <1>2 DEF DeferralsInv, DeferralsTyped
  <2>5. d = r => Unissued(d)
    BY <1>6, <2>2 DEF Unissued
  <2>6. QED
    BY <1>2, <1>3, <1>5, <1>6, <2>1, <2>2, <2>3, <2>4, <2>5 DEF DeferralOK, Unissued
<1>9. QED
  BY <1>7, <1>8 DEF DeferralsInv

\* A poll begins only while nothing was issued for the deferral.
LEMMA DeferredCredentialDeferrals ==
  ASSUME RemovalInv, DeferralsInv, NEW r \in Requests, NEW d \in Requests, NEW g \in Grants,
         deferredCredential(r, d, g), storedSessions' = storedSessions
  PROVE  DeferralsInv'
<1>1. PICK x : x = deferrals[d]
  OBVIOUS
<1>2. /\ Shape /\ Begin(r, "poll", d, x, "polled") /\ d \in answered /\ ~deferrals[d].consumed
      /\ issued' = issued /\ answered' = answered /\ deferrals' = deferrals
  BY <1>1 DEF deferredCredential, Redeemable, RemovalInv, issuanceVars
<1>3. /\ Moves(r) /\ req[r].stage = "idle" /\ now' = now
      /\ req'[r].stage = "polled" /\ req'[r].on = d /\ req'[r].copy = x
  BY <1>2 DEF Begin, Moves, Shape
<1>4. x \in Deferral
  BY <1>1 DEF DeferralsInv, DeferralsTyped
<1>5. \A q \in Requests \ {r} : req'[q] = req[q]
  BY <1>3 DEF Moves
<1>6. r \notin issued /\ req[d].stage # "idle"
  BY <1>2, <1>3 DEF DeferralsInv, Known
<1>7. Known' /\ DeferralsTyped'
  BY <1>2, <1>3, <1>4, <1>5, <1>6 DEF DeferralsInv, Known, DeferralsTyped
<1>8. ASSUME NEW e \in Requests \ overlapped' PROVE DeferralOK(e)'
  <2>1. DeferralOK(e)
    BY <1>3 DEF DeferralsInv, Moves
  <2>2. \A q \in issued : q \in Requests /\ req'[q] = req[q]
    BY <1>5, <1>6 DEF DeferralsInv, DeferralsTyped
  <2>3. Unissued(e)' <=> Unissued(e)
    BY <1>2, <2>2 DEF Unissued
  <2>4. QED
    BY <1>2, <1>3, <1>5, <2>1, <2>2, <2>3 DEF DeferralOK
<1>9. QED
  BY <1>7, <1>8 DEF DeferralsInv

\* A poll saves its deferral, unchanged or consumed: nobody else works on it,
\* and nothing was issued for it.
LEMMA PolledDeferrals ==
  ASSUME RemovalInv, DeferralsInv, NEW r \in Requests, stillPending(r) \/ consume(r),
         storedSessions' = storedSessions
  PROVE  DeferralsInv'
<1>1. /\ Shape /\ req[r].stage = "polled" /\ InProgress(r) /\ req[r].on \in Requests
      /\ issued' = issued /\ answered' = answered
  BY DEF stillPending, consume, At, RemovalInv, DeferralsInv, DeferralsTyped, InProgress
<1>2. PICK v \in Deferral : v = View(r, deferrals)
  BY <1>1 DEF View, DeferralsInv, DeferralsTyped
<1>3. PICK x \in Deferral, stage \in {"answer", "issuing"} :
        /\ deferrals' = [deferrals EXCEPT ![req[r].on] = x] /\ GoTo(r, stage)
        /\ stage = "issuing" => x.consumed
  <2>1. CASE stillPending(r)
    BY <1>2, <2>1 DEF stillPending, SaveDeferral
  <2>2. CASE consume(r)
    <3>1. PICK x : x = [v EXCEPT !.consumed = TRUE]
      OBVIOUS
    <3>2. x \in Deferral /\ x.consumed
      BY <3>1 DEF Deferral
    <3>3. deferrals' = [deferrals EXCEPT ![req[r].on] = x] /\ GoTo(r, "issuing")
      BY <1>2, <2>2, <3>1 DEF consume, SaveDeferral
    <3>4. QED
      BY <3>2, <3>3
  <2>3. QED
    BY <2>1, <2>2
<1>4. /\ Continues(r) /\ now' = now /\ req'[r].on = req[r].on /\ req'[r].stage = stage
  BY <1>1, <1>3, GoToContinues DEF Continues
<1>5. /\ \A q \in Requests \ {r} : req'[q] = req[q]
      /\ \A q \in Requests : req'[q].on = req[q].on
      /\ overlapped' = overlapped
  BY <1>4 DEF Moves, Continues
<1>6. Known' /\ DeferralsTyped'
  BY <1>1, <1>3, <1>4, <1>5 DEF DeferralsInv, Known, DeferralsTyped
<1>7. ASSUME NEW d \in Requests \ overlapped' PROVE DeferralOK(d)'
  <2>1. DeferralOK(d)
    BY <1>5 DEF DeferralsInv
  <2>2. \A q \in issued : q \in Requests /\ req'[q].on = req[q].on
    BY <1>5 DEF DeferralsInv, DeferralsTyped
  <2>3. Unissued(d)' <=> Unissued(d)
    BY <1>1, <2>2 DEF Unissued
  <2>4. CASE d # req[r].on
    <3>1. deferrals'[d] = deferrals[d]
      BY <1>3, <2>4 DEF DeferralsInv, DeferralsTyped
    <3>2. QED
      BY <1>1, <1>4, <1>5, <2>1, <2>2, <2>3, <2>4, <3>1 DEF DeferralOK
  <2>5. CASE d = req[r].on
    <3>1. deferrals'[d] = x
      BY <1>3, <2>5 DEF DeferralsInv, DeferralsTyped
    <3>2. Unissued(d)
      BY <1>1, <2>1, <2>5 DEF DeferralOK
    <3>3. \A q \in Requests \ {r} : req[q].on = d => req[q].stage \notin {"polled", "issuing"}
      BY <1>1, <1>5, <2>5, RequestsAssumption DEF RemovalInv, Paired, InProgress
    <3>4. \A q \in Requests \ {r} : req'[q].on = d => req'[q].stage \notin {"polled", "issuing"}
      BY <1>5, <3>3
    <3>5. \A q \in issued : req[q].on # d
      BY <3>2 DEF Unissued
    <3>6. QED
      BY <1>1, <1>3, <1>4, <2>1, <2>2, <2>3, <3>1, <3>2, <3>4, <3>5 DEF DeferralOK
  <2>6. QED
    BY <2>4, <2>5
<1>8. QED
  BY <1>6, <1>7 DEF DeferralsInv

\* The credential is issued: the deferral is consumed and nobody else is at it.
LEMMA IssueCredentialsDeferrals ==
  ASSUME RemovalInv, DeferralsInv, NEW r \in Requests, issueCredentials(r),
         storedSessions' = storedSessions
  PROVE  DeferralsInv'
<1>1. /\ Shape /\ req[r].stage = "issuing" /\ InProgress(r)
      /\ issued' = issued \cup {r} /\ answered' = answered /\ deferrals' = deferrals
      /\ GoTo(r, "notify") \/ GoTo(r, "answer")
  BY DEF issueCredentials, At, RemovalInv, InProgress
<1>2. /\ Continues(r) /\ now' = now /\ req'[r].on = req[r].on
      /\ req'[r].stage \in {"notify", "answer"}
  BY <1>1, GoToContinues DEF Continues
<1>3. /\ \A q \in Requests \ {r} : req'[q] = req[q]
      /\ \A q \in Requests : req'[q].on = req[q].on
      /\ overlapped' = overlapped
  BY <1>2 DEF Moves, Continues
<1>4. Known' /\ DeferralsTyped'
  BY <1>1, <1>2, <1>3 DEF DeferralsInv, Known, DeferralsTyped
<1>5. ASSUME NEW d \in Requests \ overlapped' PROVE DeferralOK(d)'
  <2>1. DeferralOK(d) /\ issued \subseteq Requests
    BY <1>3 DEF DeferralsInv, DeferralsTyped
  <2>2. CASE d # req[r].on
    <3>1. Unissued(d)' <=> Unissued(d)
      BY <1>1, <1>3, <2>1, <2>2 DEF Unissued
    <3>2. QED
      BY <1>1, <1>2, <1>3, <2>1, <2>2, <3>1 DEF DeferralOK
  <2>3. CASE d = req[r].on
    <3>1. Unissued(d) /\ deferrals[d].consumed
      BY <1>1, <2>1, <2>3 DEF DeferralOK
    <3>2. \A q \in Requests \ {r} : req[q].on = d => req[q].stage \notin {"polled", "issuing"}
      BY <1>1, <1>3, <2>3, RequestsAssumption DEF RemovalInv, Paired, InProgress
    <3>3. \A q \in Requests : req'[q].on = d => req'[q].stage \notin {"polled", "issuing"}
      BY <1>2, <1>3, <3>2
    <3>4. \A p, q \in issued' : req'[p].on = d /\ req'[q].on = d => p = q
      BY <1>1, <1>3, <2>1, <3>1 DEF Unissued
    <3>5. QED
      BY <1>1, <3>1, <3>3, <3>4 DEF DeferralOK
  <2>4. QED
    BY <2>2, <2>3
<1>6. QED
  BY <1>4, <1>5 DEF DeferralsInv

\* Every step of the credential endpoints.
LEMMA IssuanceDeferrals ==
  ASSUME RemovalInv, DeferralsInv, IssuanceNext, UNCHANGED logoutVars
  PROVE  DeferralsInv'
<1>0. Shape /\ storedSessions' = storedSessions
  BY DEF RemovalInv, logoutVars
<1>1. PICK r \in Requests :
        \/ \E g \in Grants : deferIssue(r, g) \/ issue(r, g)
        \/ \E d \in Requests, g \in Grants : deferredCredential(r, d, g) \/ notify(r, d, g)
        \/ stillPending(r) \/ consume(r)
        \/ issueCredentials(r) \/ saveNotification(r)
        \/ failIssuance(r) \/ answer(r) \/ failAnswer(r)
  BY DEF IssuanceNext
<1>2. CASE \E g \in Grants : issue(r, g)
  <2>1. PICK x : Begin(r, "issue", None, x, "issuing") /\ UNCHANGED issuanceVars
    BY <1>2 DEF issue
  <2>2. /\ Moves(r) /\ req[r].stage = "idle" /\ now' = now
        /\ req'[r].stage = "issuing" /\ req'[r].on = None
    BY <1>0, <2>1 DEF Begin, Moves, Shape
  <2>3. answered' = answered /\ issued' = issued /\ deferrals' = deferrals
    BY <2>1 DEF issuanceVars
  <2>4. QED
    BY <1>0, <2>2, <2>3, DeferralsKept, RequestsAssumption
<1>3. CASE \E d \in Requests, g \in Grants : notify(r, d, g)
  <2>1. /\ At(r, "idle") /\ End(r)
        /\ answered' = answered /\ issued' = issued /\ deferrals' = deferrals
    BY <1>3 DEF notify
  <2>2. /\ Moves(r) /\ req[r].stage = "idle" /\ now' = now
        /\ req'[r].stage = "done" /\ req'[r].on = req[r].on
    BY <1>0, <2>1 DEF At, End, Arrival, Moves, Shape
  <2>3. req[r].on \notin Requests
    BY <2>2, RequestsAssumption DEF DeferralsInv, Known
  <2>4. QED
    BY <1>0, <2>1, <2>2, <2>3, DeferralsKept
<1>4. CASE saveNotification(r) \/ failIssuance(r) \/ answer(r) \/ failAnswer(r)
  <2>1. InProgress(r) /\ (GoTo(r, "answer") \/ End(r))
    BY <1>4 DEF saveNotification, failIssuance, answer, failAnswer, At, InProgress
  <2>2. Continues(r) /\ req'[r].stage \in {"answer", "done"} /\ now' = now
    BY <1>0, <2>1, GoToContinues, EndContinues
  <2>3. answered' \subseteq answered \cup {r} /\ issued' = issued /\ deferrals' = deferrals
    BY <1>4 DEF saveNotification, failIssuance, answer, failAnswer, issuanceVars
  <2>4. QED
    BY <1>0, <2>2, <2>3, DeferralsContinue
<1>5. QED
  BY <1>0, <1>1, <1>2, <1>3, <1>4, DeferIssueDeferrals, DeferredCredentialDeferrals,
     PolledDeferrals, IssueCredentialsDeferrals

\* Every step keeps the invariant of deferrals.
LEMMA DeferralsStep == RemovalInv /\ DeferralsInv /\ [Next]_vars => DeferralsInv'
<1> SUFFICES ASSUME RemovalInv, DeferralsInv, [Next]_vars PROVE DeferralsInv'
  OBVIOUS
<1>1. ASSUME now' \in Nat, UNCHANGED <<req, overlapped, logoutVars, issuanceVars>>
      PROVE  DeferralsInv'
  BY <1>1 DEF DeferralsInv, Known, DeferralsTyped, DeferralOK, Unissued, logoutVars, issuanceVars
<1>2. now \in Nat
  BY DEF DeferralsInv, DeferralsTyped
<1>3. CASE Tick /\ UNCHANGED <<registrationVars, logoutVars, issuanceVars>>
  BY <1>1, <1>2, <1>3 DEF Tick
<1>4. CASE UNCHANGED vars
  BY <1>1, <1>2, <1>4 DEF vars, requestVars
<1>5. CASE RegistrationNext /\ UNCHANGED <<logoutVars, issuanceVars>>
  BY <1>5, RegistrationDeferrals
<1>6. CASE LogoutNext(URIs) /\ UNCHANGED <<registrationVars, issuanceVars>>
  BY <1>6, LogoutDeferrals
<1>7. CASE IssuanceNext /\ UNCHANGED <<registrationVars, logoutVars>>
  BY <1>7, IssuanceDeferrals
<1>8. QED
  BY <1>3, <1>4, <1>5, <1>6, <1>7 DEF Next

\* Nothing is deferred at first.
LEMMA InitDeferrals == Init => DeferralsInv
<1> SUFFICES ASSUME Init PROVE DeferralsInv
  OBVIOUS
<1>1. NoDeferral \in Deferral
  BY DEF NoDeferral, Deferral
<1>2. deferrals \in [Requests -> Deferral] /\ now \in Nat
  BY <1>1 DEF Init, IssuanceInit, RequestsInit
<1>3. \A r \in Requests : req[r].stage = "idle" /\ req[r].on = None
  BY DEF Init, RequestsInit, Arrival
<1>4. QED
  BY <1>2, <1>3, RequestsAssumption
  DEF Init, IssuanceInit, LogoutInit, DeferralsInv, Known, DeferralsTyped, DeferralOK, Unissued

\* A set without two different elements has at most one.
LEMMA CountOne ==
  ASSUME NEW S, \A a, b \in S : a = b
  PROVE  Cardinality(S) <= 1
<1>1. CASE S = {}
  BY <1>1, FS_EmptySet
<1>2. CASE S # {}
  <2>. PICK a \in S : TRUE
    BY <1>2
  <2>1. S = {a}
    OBVIOUS
  <2>2. QED
    BY <2>1, FS_Singleton
<1>3. QED
  BY <1>1, <1>2

\* deferredCredential marks a deferral consumed before it issues, so however
\* often the wallet polls, and whatever fails or is lost, one credential is
\* issued for a transaction ID that no two polls were working on.
THEOREM DeferralsIssueOnce == Spec => []OneIssuancePerDeferral
<1>1. ASSUME DeferralsInv PROVE OneIssuancePerDeferral
  <2> SUFFICES ASSUME NEW d \in Requests \ overlapped
               PROVE  Cardinality({r \in issued : req[r].on = d}) <= 1
    BY DEF OneIssuancePerDeferral
  <2> DEFINE S == {r \in issued : req[r].on = d}
  <2>1. \A q, r \in S : q = r
    BY <1>1 DEF DeferralsInv, DeferralOK
  <2>2. QED
    BY <2>1, CountOne
<1>2. QED
  BY <1>1, InitDeferrals, DeferralsStep, RemovalInvariant, PTL DEF Spec

-----------------------------------------------------------------------------
(* The registration a client holds. *)

IsClient(c) ==
  c = [token |-> c.token, secret |-> c.secret, meta |-> c.meta, created |-> c.created]
Credentials(c) == [token |-> c.token, secret |-> c.secret]

\* What the answer to r shows of the client.
Shown(r) == IF req[r].op = "create" THEN clients[req[r].on] ELSE req[r].copy

\* The request's stage fits what it does, and its copy is a client.
RequestTyped(r) ==
  /\ \/ req[r].stage = "loaded" /\ req[r].op # "create"
     \/ req[r].stage = "save" /\ req[r].op \in {"update", "fetch"}
     \/ req[r].stage = "respond" /\ req[r].op # "remove"
  /\ req[r].op # "create" => IsClient(req[r].copy)

\* Records and requests are well formed.
ClientsTyped ==
  /\ clients = [id \in Requests |-> clients[id]] /\ wanted = [id \in Requests |-> wanted[id]]
  /\ held = [id \in Requests |-> held[id]] /\ delivered = [id \in Requests |-> delivered[id]]
  /\ \A id \in Requests : IsClient(clients[id]) /\ held[id] = Credentials(held[id])
  /\ \A r \in Requests : Manages(r) => RequestTyped(r)

\* The handler has changed the record a client sees.
Changed(r) == req[r].stage = "respond" \/ (req[r].stage = "save" /\ config.inMemory)

\* A request that is alone with its client: before it changes the record its
\* copy is what is stored, and afterwards what is stored is what the answer
\* shows, as far as it is new.
NewOrHeld(r, c) ==
  /\ c.token \in {r, held[req[r].on].token}
  /\ c.secret = r \/ ~c.meta.secret \/ c.secret = held[req[r].on].secret
AloneOK(r, id) ==
  /\ req[r].stage = "loaded" => req[r].copy = clients[id]
  /\ Changed(r) => Shown(r) = clients[id]
  /\ req[r].op = "fetch" => req[r].copy.meta = clients[id].meta
  /\ req[r].stage # "loaded" /\ id \notin lost => NewOrHeld(r, Shown(r))
ClientOK(id) ==
  /\ clients[id].meta = wanted[id]
  /\ \A r \in Requests : Manages(r) /\ req[r].on = id => AloneOK(r, id)
  /\ (id \notin lost /\ \A r \in Requests : Manages(r) /\ req[r].on = id => ~Changed(r))
       => held[id] = Credentials(clients[id])

\* A record in storage, or one that somebody works on and may save again.
InUse(id) == id \in storedClients \/ \E q \in Requests : Manages(q) /\ req[q].on = id

\* Overlaps or not: the registration token of a record was delivered or is
\* about to be.
Delivering(q, id) ==
  /\ Manages(q) /\ req[q].on = id /\ Changed(q)
  /\ clients[id].token = q /\ Shown(q).token = q
TokenOK(id) == clients[id].token \in delivered[id] \/ \E q \in Requests : Delivering(q, id)
ClientCopyOK(r) ==
  /\ req[r].stage = "loaded" => req[r].copy.token \in delivered[req[r].on]
  /\ req[r].stage = "save" => req[r].copy.token \in delivered[req[r].on] \cup {r}
TokensOK ==
  /\ \A id \in Requests \ lost : InUse(id) => TokenOK(id)
  /\ ~config.inMemory => \A r \in Requests : Manages(r) => ClientCopyOK(r)

ClientsInv ==
  /\ ClientsTyped /\ TokensOK
  /\ \A id \in Requests \ overlapped : ClientOK(id)

\* A client that the step leaves alone, and whose registration nobody who
\* changed it gives up.
LEMMA Elsewhere ==
  ASSUME ClientsInv, NEW r \in Requests, Moves(r), config' = config,
         NEW id \in Requests \ overlapped',
         clients'[id] = clients[id], wanted'[id] = wanted[id], held'[id] = held[id],
         id \in lost' <=> id \in lost,
         Manages(r)' => req'[r].on # id,
         Manages(r) /\ req[r].on = id => ~Changed(r)
  PROVE  ClientOK(id)'
<1>1. \A q \in Requests \ {r} : req'[q] = req[q]
  BY DEF Moves
<1>2. ClientOK(id)
  BY DEF ClientsInv, Moves
<1>3. ASSUME NEW q \in Requests, Manages(q)', req'[q].on = id
      PROVE  /\ q # r /\ req'[q] = req[q] /\ Manages(q) /\ AloneOK(q, id)
             /\ (Changed(q)' <=> Changed(q)) /\ Shown(q)' = Shown(q)
  <2>1. q # r /\ req'[q] = req[q]
    BY <1>1, <1>3
  <2>2. Manages(q)
    BY <1>3, <2>1 DEF Manages, InProgress
  <2>3. QED
    BY <1>2, <1>3, <2>1, <2>2 DEF ClientOK, Changed, Shown
<1>4. ASSUME NEW q \in Requests, Manages(q)', req'[q].on = id
      PROVE  AloneOK(q, id)'
  BY <1>3, <1>4 DEF AloneOK, NewOrHeld
<1>5. ASSUME id \notin lost', \A q \in Requests : Manages(q)' /\ req'[q].on = id => ~Changed(q)'
      PROVE  held'[id] = Credentials(clients'[id])
  <2>1. ASSUME NEW q \in Requests, Manages(q), req[q].on = id PROVE ~Changed(q)
    <3>1. CASE q = r
      BY <2>1, <3>1
    <3>2. CASE q # r
      <4>1. req'[q] = req[q] /\ Manages(q)' /\ req'[q].on = id
        BY <1>1, <2>1, <3>2 DEF Manages, InProgress
      <4>2. QED
        BY <1>3, <1>5, <4>1
    <3>3. QED
      BY <3>1, <3>2
  <2>2. held[id] = Credentials(clients[id])
    BY <1>2, <1>5, <2>1 DEF ClientOK
  <2>3. QED
    BY <2>2
<1>6. QED
  BY <1>2, <1>4, <1>5 DEF ClientOK

\* Goroutines that do not move stay well formed.
LEMMA RequestsTyped ==
  ASSUME ClientsInv, NEW r \in Requests, Moves(r), Manages(r)' => RequestTyped(r)'
  PROVE  \A q \in Requests : Manages(q)' => RequestTyped(q)'
<1>1. \A q \in Requests \ {r} : req'[q] = req[q]
  BY DEF Moves
<1>2. \A q \in Requests \ {r} : Manages(q)' => RequestTyped(q)'
  BY <1>1 DEF ClientsInv, ClientsTyped, RequestTyped, Manages, InProgress
<1>3. QED
  BY <1>2

\* Records and goroutines stay well formed when no record changes.
LEMMA TypedKept ==
  ASSUME ClientsInv, NEW r \in Requests, Moves(r), Manages(r)' => RequestTyped(r)',
         clients' = clients, wanted' = wanted, held' = held, delivered' = delivered
  PROVE  ClientsTyped'
<1>1. \A q \in Requests : Manages(q)' => RequestTyped(q)'
  BY RequestsTyped
<1>2. QED
  BY <1>1 DEF ClientsInv, ClientsTyped, RequestTyped

\* The token of a record stays accounted for when it does not change and the
\* goroutine that moves does not give up the answer that shows it.
LEMMA TokenElsewhere ==
  ASSUME ClientsInv, NEW r \in Requests, Moves(r), config' = config,
         NEW id \in Requests \ lost', lost \subseteq lost', InUse(id)',
         id \in storedClients' => InUse(id),
         Manages(r)' /\ req'[r].on = id => InUse(id),
         clients'[id].token = clients[id].token, delivered[id] \subseteq delivered'[id],
         Delivering(r, id) => TokenOK(id)'
  PROVE  TokenOK(id)'
<1>1. \A q \in Requests \ {r} : req'[q] = req[q] /\ (Manages(q)' <=> Manages(q))
  BY DEF Moves, Manages, InProgress
<1>2. InUse(id)
  BY <1>1 DEF InUse
<1>3. CASE clients[id].token \in delivered[id]
  BY <1>3 DEF TokenOK
<1>4. CASE \E q \in Requests : Delivering(q, id)
  <2>1. PICK q \in Requests : Delivering(q, id)
    BY <1>4
  <2>2. CASE q = r
    BY <2>1, <2>2
  <2>3. CASE q # r
    <3>1. req'[q] = req[q] /\ Manages(q)'
      BY <1>1, <2>1, <2>3 DEF Delivering
    <3>2. Delivering(q, id)'
      BY <2>1, <3>1 DEF Delivering, Changed, Shown
    <3>3. QED
      BY <3>2 DEF TokenOK
  <2>4. QED
    BY <2>2, <2>3
<1>5. TokenOK(id)
  BY <1>2 DEF ClientsInv, TokensOK
<1>6. QED
  BY <1>3, <1>4, <1>5 DEF TokenOK

\* The copies of a manager that is not in memory stay accounted for.
LEMMA ClientCopiesKept ==
  ASSUME RemovalInv, ClientsInv, NEW r \in Requests, Moves(r), config' = config,
         ~config.inMemory, \A k \in Requests : delivered[k] \subseteq delivered'[k],
         Manages(r)' => ClientCopyOK(r)'
  PROVE  \A q \in Requests : Manages(q)' => ClientCopyOK(q)'
<1> SUFFICES ASSUME NEW q \in Requests, Manages(q)' PROVE ClientCopyOK(q)'
  OBVIOUS
<1>1. CASE q = r
  BY <1>1
<1>2. CASE q # r
  <2>1. req'[q] = req[q] /\ Manages(q)
    BY <1>2 DEF Moves, Manages, InProgress
  <2>2. ClientCopyOK(q) /\ req[q].on \in Requests
    BY <2>1 DEF ClientsInv, TokensOK, RemovalInv, Targets
  <2>3. QED
    BY <2>1, <2>2 DEF ClientCopyOK
<1>3. QED
  BY <1>1, <1>2

\* All tokens stay accounted for when no record changes and no answer is given
\* up.
LEMMA TokensKept ==
  ASSUME RemovalInv, ClientsInv, NEW r \in Requests, Moves(r), config' = config,
         storedClients' \subseteq storedClients, lost' = lost, delivered' = delivered,
         clients' = clients, Manages(r) => ~Changed(r),
         Manages(r)' => InUse(req'[r].on),
         (~config.inMemory /\ Manages(r)') => ClientCopyOK(r)'
  PROVE  TokensOK'
<1>1. ASSUME NEW id \in Requests \ lost', InUse(id)' PROVE TokenOK(id)'
  <2>1. id \in storedClients' => InUse(id)
    BY DEF InUse
  <2>2. ~Delivering(r, id)
    BY DEF Delivering
  <2>3. QED
    BY <1>1, <2>1, <2>2, TokenElsewhere
<1>2. ASSUME ~config.inMemory PROVE \A q \in Requests : Manages(q)' => ClientCopyOK(q)'
  BY <1>2, ClientCopiesKept
<1>3. QED
  BY <1>1, <1>2 DEF TokensOK

\* Nobody but r works on a client that no two requests overlap on.
LEMMA Alone ==
  ASSUME RemovalInv, NEW r \in Requests, Manages(r), req[r].on \notin overlapped
  PROVE  /\ req[r].on \in Requests
         /\ \A q \in Requests \ {r} : Manages(q) => req[q].on # req[r].on
BY RequestsAssumption DEF RemovalInv, Paired, Targets, Manages

\* A request of another endpoint.
LEMMA ClientsKept ==
  ASSUME RemovalInv, ClientsInv, NEW r \in Requests, Moves(r), ~Manages(r), ~Manages(r)',
         config' = config, clients' = clients, storedClients' = storedClients,
         wanted' = wanted, held' = held, delivered' = delivered, lost' = lost
  PROVE  ClientsInv'
<1>1. ClientsTyped'
  BY TypedKept
<1>2. TokensOK'
  BY TokensKept
<1>3. \A id \in Requests \ overlapped' : ClientOK(id)'
  BY Elsewhere
<1>4. QED
  BY <1>1, <1>2, <1>3 DEF ClientsInv

\* A request that ends without having changed its client.
LEMMA GivenUp ==
  ASSUME RemovalInv, ClientsInv, NEW r \in Requests, End(r), Manages(r), ~Changed(r),
         storedClients' \subseteq storedClients, clients' = clients,
         wanted' = wanted, held' = held, delivered' = delivered, lost' = lost
  PROVE  ClientsInv'
<1>1. Continues(r) /\ req'[r].stage = "done" /\ config' = config
  BY EndContinues DEF RemovalInv, Manages
<1>2. Moves(r) /\ ~Manages(r)'
  BY <1>1 DEF Continues, Manages, InProgress
<1>3. ClientsTyped'
  BY <1>2, TypedKept
<1>4. TokensOK'
  BY <1>1, <1>2, TokensKept
<1>5. \A id \in Requests \ overlapped' : ClientOK(id)'
  BY <1>1, <1>2, Elsewhere
<1>6. QED
  BY <1>3, <1>4, <1>5 DEF ClientsInv

\* A new client holds nothing yet; its answer will show everything.
LEMMA CreateClients ==
  ASSUME RemovalInv, ClientsInv, NEW r \in Requests, NEW meta, create(r, meta)
  PROVE  ClientsInv'
<1>1. PICK c : c = [token |-> r, secret |-> IF meta.secret THEN r ELSE None,
                    meta |-> meta, created |-> now]
  OBVIOUS
<1>2. /\ IsClient(c) /\ c.token = r /\ c.meta = meta /\ (c.secret = r \/ ~c.meta.secret)
  BY <1>1 DEF IsClient
<1>3. /\ Shape /\ Begin(r, "create", r, None, "respond")
      /\ clients' = [clients EXCEPT ![r] = c] /\ wanted' = [wanted EXCEPT ![r] = meta]
      /\ held' = held /\ delivered' = delivered /\ lost' = lost
  BY <1>1 DEF create, SaveClient, RemovalInv
<1>4. storedClients' \subseteq storedClients \cup {r}
  BY SavedOnly DEF create, SaveClient
<1>5. /\ Moves(r) /\ req[r].stage = "idle" /\ config' = config
      /\ req'[r].stage = "respond" /\ req'[r].on = r /\ req'[r].op = "create"
  BY <1>3 DEF Begin, Moves, Shape
<1>6. ~Manages(r) /\ Manages(r)' /\ RequestTyped(r)' /\ \A q \in Requests : Manages(q) => req[q].on # r
  BY <1>5 DEF Manages, InProgress, RequestTyped, RemovalInv, Fresh
<1>7. \A q \in Requests \ {r} : req'[q] = req[q] /\ (Manages(q)' <=> Manages(q))
  BY <1>5 DEF Moves, Manages, InProgress
<1>8. /\ clients'[r] = c /\ wanted'[r] = meta
      /\ \A id \in Requests \ {r} : clients'[id] = clients[id] /\ wanted'[id] = wanted[id]
      /\ clients' = [id \in Requests |-> clients'[id]] /\ wanted' = [id \in Requests |-> wanted'[id]]
  BY <1>3 DEF ClientsInv, ClientsTyped
<1>9. ClientsTyped'
  <2>1. \A q \in Requests : Manages(q)' => RequestTyped(q)'
    BY <1>5, <1>6, RequestsTyped
  <2>2. QED
    BY <1>2, <1>3, <1>8, <2>1 DEF ClientsInv, ClientsTyped
<1>10. ASSUME NEW id \in Requests \ overlapped' PROVE ClientOK(id)'
  <2>1. CASE id # r
    BY <1>3, <1>5, <1>6, <1>8, <2>1, Elsewhere
  <2>2. CASE id = r
    <3>1. Changed(r)' /\ Shown(r)' = c
      BY <1>5, <1>8 DEF Changed, Shown
    <3>2. NewOrHeld(r, c)'
      BY <1>2 DEF NewOrHeld
    <3>3. AloneOK(r, r)'
      BY <1>5, <1>8, <3>1, <3>2 DEF AloneOK
    <3>4. \A q \in Requests : Manages(q)' /\ req'[q].on = r => q = r
      BY <1>6, <1>7
    <3>5. QED
      BY <1>2, <1>5, <1>6, <1>8, <2>2, <3>1, <3>3, <3>4 DEF ClientOK
  <2>3. QED
    BY <2>1, <2>2
<1>11. ASSUME NEW id \in Requests \ lost', InUse(id)' PROVE TokenOK(id)'
  <2>1. CASE id = r
    <3>1. Delivering(r, r)'
      BY <1>2, <1>5, <1>6, <1>8 DEF Delivering, Changed, Shown
    <3>2. QED
      BY <2>1, <3>1 DEF TokenOK
  <2>2. CASE id # r
    <3>1. id \in storedClients' => InUse(id)
      BY <1>4, <2>2 DEF InUse
    <3>2. ~Delivering(r, id)
      BY <1>6 DEF Delivering
    <3>3. QED
      BY <1>3, <1>5, <1>8, <1>11, <2>2, <3>1, <3>2, TokenElsewhere
  <2>3. QED
    BY <2>1, <2>2
<1>12. TokensOK'
  <2>1. ClientCopyOK(r)'
    BY <1>5 DEF ClientCopyOK
  <2>2. ASSUME ~config.inMemory PROVE \A q \in Requests : Manages(q)' => ClientCopyOK(q)'
    BY <1>3, <1>5, <2>1, <2>2, ClientCopiesKept
  <2>3. QED
    BY <1>5, <1>11, <2>2 DEF TokensOK
<1>13. QED
  BY <1>9, <1>10, <1>12 DEF ClientsInv

\* A request that is let in has the client as it is stored.
LEMMA ProtectedClients ==
  ASSUME RemovalInv, ClientsInv, NEW r \in Requests, NEW id \in Requests,
         NEW op \in {"update", "fetch", "remove"}, protected(r, id, op)
  PROVE  ClientsInv'
<1>1. PICK c : c = clients[id]
  OBVIOUS
<1>2. /\ Shape /\ Begin(r, op, id, c, "loaded") /\ c.token \in delivered[id]
      /\ clients' = clients /\ storedClients' = storedClients /\ wanted' = wanted
      /\ held' = held /\ delivered' = delivered /\ lost' = lost
  BY <1>1 DEF protected, RemovalInv, registrationVars
<1>3. /\ Begins(r) /\ req[r].stage = "idle" /\ config' = config /\ req'[r].op = op
      /\ req'[r].stage = "loaded" /\ req'[r].on = id /\ req'[r].copy = c
  BY <1>2 DEF Begin, Begins, Moves, Shape, InProgress
<1>4. Moves(r) /\ ~Manages(r) /\ Manages(r)' /\ IsClient(c)
  BY <1>1, <1>3 DEF Begins, Manages, InProgress, ClientsInv, ClientsTyped
<1>5. ClientsTyped'
  BY <1>2, <1>3, <1>4, TypedKept DEF RequestTyped
<1>6. TokensOK'
  <2>1. InUse(req'[r].on)
    BY <1>3 DEF protected, Found, InUse
  <2>2. ClientCopyOK(r)'
    BY <1>2, <1>3 DEF ClientCopyOK
  <2>3. QED
    BY <1>2, <1>3, <1>4, <2>1, <2>2, TokensKept
<1>7. ASSUME NEW k \in Requests \ overlapped' PROVE ClientOK(k)'
  <2>1. CASE k # id
    BY <1>2, <1>3, <1>4, <2>1, Elsewhere
  <2>2. CASE k = id
    <3>1. \A q \in Requests \ {r} : req'[q] = req[q] /\ (Manages(q)' <=> Manages(q))
      BY <1>4 DEF Moves, Manages, InProgress
    <3>2. \A q \in Requests \ {r} : Manages(q) => req[q].on # id
      BY <1>3, <2>2, RequestsAssumption DEF Begins, Manages
    <3>3. ClientOK(id)
      BY <1>3, <2>2 DEF Begins, Moves, ClientsInv
    <3>4. held[id] = Credentials(clients[id]) \/ id \in lost
      BY <1>4, <3>2, <3>3 DEF ClientOK
    <3>5. ~Changed(r)'
      BY <1>3 DEF Changed
    <3>6. AloneOK(r, id)'
      BY <1>1, <1>2, <1>3, <3>5 DEF AloneOK
    <3>7. \A q \in Requests : Manages(q)' /\ req'[q].on = id => q = r
      BY <3>1, <3>2
    <3>8. QED
      BY <1>2, <2>2, <3>3, <3>4, <3>6, <3>7 DEF ClientOK
  <2>3. QED
    BY <2>1, <2>2
<1>8. QED
  BY <1>5, <1>6, <1>7 DEF ClientsInv

\* What update and fetch assign: what is new is the request's own, the rest is
\* what was stored.
LEMMA AssignClients ==
  ASSUME RemovalInv, ClientsInv, NEW r \in Requests,
         req[r].stage = "loaded", req[r].op \in {"update", "fetch"},
         NEW v, v = View(r, clients), NEW c, IsClient(c),
         NEW stage \in {"save", "respond"}, Assign(r, c, stage),
         stage = "respond" => c = v,
         req[r].op = "fetch" => c.meta = v.meta,
         c.token \in {r, v.token},
         c.secret = r \/ ~c.meta.secret \/ c.secret = v.secret
  PROVE  ClientsInv'
<1>1. Manages(r) /\ InProgress(r) /\ Shape
  BY DEF Manages, InProgress, RemovalInv
<1>2. PICK id \in Requests : id = req[r].on
  BY <1>1 DEF RemovalInv, Targets
<1>3. /\ req' = [req EXCEPT ![r] = [op |-> @.op, stage |-> stage, on |-> @.on, copy |-> c]]
      /\ clients' = IF config.inMemory THEN [clients EXCEPT ![id] = c] ELSE clients
      /\ wanted' = IF config.inMemory THEN [wanted EXCEPT ![id] = c.meta] ELSE wanted
      /\ config' = config /\ overlapped' = overlapped /\ storedClients' = storedClients
      /\ held' = held /\ delivered' = delivered /\ lost' = lost
  BY <1>2 DEF Assign
<1>4. /\ Moves(r) /\ req'[r].stage = stage /\ req'[r].copy = c
      /\ req'[r].on = id /\ req'[r].op = req[r].op
  BY <1>1, <1>2, <1>3 DEF Moves, Shape
<1>5. Manages(r)' /\ RequestTyped(r)'
  BY <1>4 DEF Manages, InProgress, RequestTyped
<1>6. /\ \A k \in Requests \ {id} : clients'[k] = clients[k] /\ wanted'[k] = wanted[k]
      /\ config.inMemory => clients'[id] = c /\ wanted'[id] = c.meta
      /\ ~config.inMemory => clients' = clients /\ wanted' = wanted
      /\ clients' = [k \in Requests |-> clients'[k]] /\ wanted' = [k \in Requests |-> wanted'[k]]
  BY <1>3 DEF ClientsInv, ClientsTyped
<1>7. ClientsTyped'
  <2>1. \A q \in Requests : Manages(q)' => RequestTyped(q)'
    BY <1>4, <1>5, RequestsTyped
  <2>2. \A k \in Requests : IsClient(clients'[k])
    BY <1>6 DEF ClientsInv, ClientsTyped
  <2>3. QED
    BY <1>3, <1>6, <2>1, <2>2 DEF ClientsInv, ClientsTyped
<1>8. TokensOK'
  <2>1. InUse(id) /\ ~Delivering(r, id)
    <3>1. ~Changed(r)
      BY DEF Changed
    <3>2. QED
      BY <1>1, <1>2, <3>1 DEF InUse, Delivering
  <2>2. ASSUME NEW k \in Requests \ lost', InUse(k)' PROVE TokenOK(k)'
    <3>1. CASE clients'[k].token = clients[k].token
      <4>1. k \in storedClients' => InUse(k)
        BY <1>3 DEF InUse
      <4>2. ~Delivering(r, k)
        BY <1>2, <2>1 DEF Delivering
      <4>3. QED
        BY <1>3, <1>4, <2>1, <2>2, <3>1, <4>1, <4>2, TokenElsewhere
    <3>2. CASE clients'[k].token # clients[k].token
      <4>1. k = id /\ config.inMemory
        BY <1>6, <3>2
      <4>2. clients'[id] = c /\ v = clients[id]
        BY <1>2, <1>6, <4>1 DEF View
      <4>3. c.token = r
        BY <3>2, <4>1, <4>2
      <4>4. Delivering(r, id)'
        BY <1>3, <1>4, <1>5, <4>1, <4>2, <4>3 DEF Delivering, Changed, Shown
      <4>5. QED
        BY <4>1, <4>4 DEF TokenOK
    <3>3. QED
      BY <3>1, <3>2
  <2>3. ASSUME ~config.inMemory PROVE \A q \in Requests : Manages(q)' => ClientCopyOK(q)'
    <3>1. v.token \in delivered[id]
      BY <1>1, <1>2, <2>3 DEF View, ClientsInv, TokensOK, ClientCopyOK
    <3>2. ClientCopyOK(r)'
      BY <1>3, <1>4, <3>1 DEF ClientCopyOK
    <3>3. QED
      BY <1>3, <1>4, <2>3, <3>2, ClientCopiesKept
  <2>4. QED
    BY <1>3, <2>2, <2>3 DEF TokensOK
<1>9. ASSUME NEW k \in Requests \ overlapped' PROVE ClientOK(k)'
  <2>1. CASE k # id
    BY <1>2, <1>3, <1>4, <1>6, <2>1, Elsewhere
  <2>2. CASE k = id
    <3>1. \A q \in Requests \ {r} : Manages(q) => req[q].on # id
      BY <1>1, <1>2, <1>3, <2>2, Alone
    <3>2. \A q \in Requests : Manages(q)' /\ req'[q].on = id => q = r
      BY <1>4, <3>1 DEF Moves, Manages, InProgress
    <3>3. ClientOK(id) /\ AloneOK(r, id) /\ ~Changed(r)
      BY <1>1, <1>2, <1>3, <2>2 DEF ClientsInv, ClientOK, Changed
    <3>4. v = clients[id]
      BY <1>2, <3>3 DEF View, AloneOK
    <3>5. held[id] = Credentials(v) \/ id \in lost
      BY <3>1, <3>3, <3>4 DEF ClientOK
    <3>6. id \notin lost => held[id].token = v.token /\ held[id].secret = v.secret
      BY <3>5 DEF Credentials
    <3>7. Shown(r)' = c
      BY <1>4 DEF Shown
    <3>8. clients'[id].meta = wanted'[id]
      BY <1>6, <3>3 DEF ClientOK
    <3>9. Changed(r)' => clients'[id] = c
      BY <1>3, <1>4, <1>6, <3>4 DEF Changed
    <3>10. req[r].op = "fetch" => c.meta = clients'[id].meta
      BY <1>6, <3>4
    <3>11. id \notin lost' => NewOrHeld(r, c)'
      BY <1>3, <1>4, <3>6 DEF NewOrHeld
    <3>12. AloneOK(r, id)'
      BY <1>4, <3>7, <3>9, <3>10, <3>11 DEF AloneOK
    <3>13. ~Changed(r)' /\ id \notin lost' => held'[id] = Credentials(clients'[id])
      <4>1. ~Changed(r)' => ~config.inMemory
        BY <1>3, <1>4 DEF Changed
      <4>2. QED
        BY <1>3, <1>6, <3>4, <3>5, <4>1
    <3>14. QED
      BY <1>4, <1>5, <2>2, <3>2, <3>8, <3>12, <3>13 DEF ClientOK
  <2>3. QED
    BY <2>1, <2>2
<1>10. QED
  BY <1>7, <1>8, <1>9 DEF ClientsInv

\* update.
LEMMA UpdateClients ==
  ASSUME RemovalInv, ClientsInv, NEW r \in Requests, NEW meta, update(r, meta)
  PROVE  ClientsInv'
<1>1. req[r].stage = "loaded" /\ req[r].op = "update"
  BY DEF update, At
<1>2. PICK v : v = View(r, clients)
  OBVIOUS
<1>3. IsClient(v)
  <2>1. Manages(r) /\ req[r].on \in Requests
    BY <1>1 DEF Manages, InProgress, RemovalInv, Targets
  <2>2. QED
    BY <1>1, <1>2, <2>1 DEF View, ClientsInv, ClientsTyped, RequestTyped
<1>4. PICK secret : secret = CASE ~meta.secret -> None
                               [] meta.secret /\ (v.secret = None \/ config.rotateSecret) -> r
                               [] OTHER -> v.secret
  OBVIOUS
<1>5. PICK token : token = RotatedToken(r, v)
  OBVIOUS
<1>6. PICK c : c = [v EXCEPT !.meta = meta, !.token = token, !.secret = secret]
  OBVIOUS
<1>7. IsClient(c) /\ c.meta = meta /\ c.token = token /\ c.secret = secret
  BY <1>3, <1>6 DEF IsClient
<1>8. secret = r \/ ~meta.secret \/ secret = v.secret
  BY <1>4
<1>9. token \in {r, v.token}
  BY <1>5 DEF RotatedToken
<1>10. Assign(r, c, "save")
  BY <1>2, <1>3, <1>4, <1>5, <1>6 DEF update, IsClient
<1>11. QED
  BY <1>1, <1>2, <1>7, <1>8, <1>9, <1>10, AssignClients

\* fetch.
LEMMA FetchClients ==
  ASSUME RemovalInv, ClientsInv, NEW r \in Requests, fetch(r)
  PROVE  ClientsInv'
<1>1. req[r].stage = "loaded" /\ req[r].op = "fetch"
  BY DEF fetch, At
<1>2. PICK v : v = View(r, clients)
  OBVIOUS
<1>3. IsClient(v)
  <2>1. Manages(r) /\ req[r].on \in Requests
    BY <1>1 DEF Manages, InProgress, RemovalInv, Targets
  <2>2. QED
    BY <1>1, <1>2, <2>1 DEF View, ClientsInv, ClientsTyped, RequestTyped
<1>4. PICK secret : secret = IF v.meta.secret /\ config.rotateSecret THEN r ELSE v.secret
  OBVIOUS
<1>5. PICK token : token = RotatedToken(r, v)
  OBVIOUS
<1>6. PICK c : c = [v EXCEPT !.token = token, !.secret = secret]
  OBVIOUS
<1>7. IsClient(c) /\ c.meta = v.meta /\ c.token = token /\ c.secret = secret /\ c.created = v.created
  BY <1>3, <1>6 DEF IsClient
<1>8. PICK stage : stage = IF (v.meta.secret /\ config.rotateSecret) \/ config.rotateToken
                           THEN "save" ELSE "respond"
  OBVIOUS
<1>9. stage \in {"save", "respond"} /\ (stage = "respond" => token = v.token /\ secret = v.secret)
  BY <1>4, <1>5, <1>8 DEF RotatedToken
<1>10. stage = "respond" => c = v
  BY <1>3, <1>7, <1>9 DEF IsClient
<1>11. token \in {r, v.token} /\ (secret = r \/ secret = v.secret)
  BY <1>4, <1>5 DEF RotatedToken
<1>12. Assign(r, c, stage)
  BY <1>2, <1>3, <1>4, <1>5, <1>6, <1>8 DEF fetch, IsClient
<1>13. QED
  BY <1>1, <1>2, <1>7, <1>9, <1>10, <1>11, <1>12, AssignClients

\* The save: the answer shows what is stored.
LEMMA SaveChangedClients ==
  ASSUME RemovalInv, ClientsInv, NEW r \in Requests, saveChanged(r)
  PROVE  ClientsInv'
<1>1. req[r].stage = "save" /\ Manages(r) /\ InProgress(r) /\ Shape
  BY DEF saveChanged, At, RemovalInv, Targets, Manages
<1>2. PICK id \in Requests : id = req[r].on
  BY <1>1 DEF RemovalInv, Targets
<1>3. req[r].op \in {"update", "fetch"} /\ IsClient(req[r].copy)
  BY <1>1 DEF ClientsInv, ClientsTyped, RequestTyped
<1>4. PICK v : v = View(r, clients)
  OBVIOUS
<1>5. /\ IsClient(v) /\ (config.inMemory => v = clients[id]) /\ (~config.inMemory => v = req[r].copy)
  BY <1>2, <1>3, <1>4 DEF View, ClientsInv, ClientsTyped
<1>6. /\ clients' = [clients EXCEPT ![id] = v] /\ GoTo(r, "respond")
      /\ wanted' = IF req[r].op = "update" THEN [wanted EXCEPT ![id] = req[r].copy.meta] ELSE wanted
      /\ held' = held /\ delivered' = delivered /\ lost' = lost
  BY <1>2, <1>4 DEF saveChanged, SaveClient
<1>7. storedClients' \subseteq storedClients \cup {id}
  BY <1>2, SavedOnly DEF saveChanged, SaveClient
<1>8. /\ Moves(r) /\ overlapped' = overlapped /\ config' = config /\ req'[r].stage = "respond"
      /\ req'[r].on = id /\ req'[r].op = req[r].op /\ req'[r].copy = req[r].copy
  BY <1>1, <1>2, <1>6, GoToContinues DEF Continues
<1>9. Manages(r)' /\ RequestTyped(r)' /\ Shown(r)' = req[r].copy /\ Shown(r) = req[r].copy
  BY <1>3, <1>8 DEF Manages, InProgress, RequestTyped, Shown
<1>10. /\ clients'[id] = v
       /\ wanted'[id] = IF req[r].op = "update" THEN req[r].copy.meta ELSE wanted[id]
       /\ \A k \in Requests \ {id} : clients'[k] = clients[k] /\ wanted'[k] = wanted[k]
       /\ clients' = [k \in Requests |-> clients'[k]] /\ wanted' = [k \in Requests |-> wanted'[k]]
  BY <1>6 DEF ClientsInv, ClientsTyped
<1>11. ClientsTyped'
  <2>1. \A q \in Requests : Manages(q)' => RequestTyped(q)'
    BY <1>8, <1>9, RequestsTyped
  <2>2. \A k \in Requests : IsClient(clients'[k])
    BY <1>5, <1>10 DEF ClientsInv, ClientsTyped
  <2>3. QED
    BY <1>6, <1>10, <2>1, <2>2 DEF ClientsInv, ClientsTyped
<1>12. ASSUME NEW k \in Requests \ overlapped' PROVE ClientOK(k)'
  <2>1. CASE k # id
    BY <1>2, <1>6, <1>8, <1>10, <2>1, Elsewhere
  <2>2. CASE k = id
    <3>1. \A q \in Requests \ {r} : Manages(q) => req[q].on # id
      BY <1>1, <1>2, <1>8, <2>2, Alone
    <3>2. \A q \in Requests : Manages(q)' /\ req'[q].on = id => q = r
      BY <1>8, <3>1 DEF Moves, Manages, InProgress
    <3>3. ClientOK(id) /\ AloneOK(r, id)
      BY <1>1, <1>2, <1>8, <2>2 DEF ClientsInv, ClientOK
    <3>4. v = req[r].copy
      BY <1>1, <1>5, <1>9, <3>3 DEF AloneOK, Changed
    <3>5. clients'[id].meta = wanted'[id]
      BY <1>3, <1>10, <3>3, <3>4 DEF ClientOK, AloneOK
    <3>6. id \notin lost' => NewOrHeld(r, req[r].copy)'
      <4>1. id \notin lost => NewOrHeld(r, req[r].copy)
        BY <1>1, <1>9, <3>3 DEF AloneOK
      <4>2. PICK x : x = req[r].copy
        OBVIOUS
      <4>3. req'[r].copy = x /\ (id \notin lost => NewOrHeld(r, x))
        BY <1>8, <4>1, <4>2
      <4>4. id \notin lost' => NewOrHeld(r, x)'
        BY <1>2, <1>6, <1>8, <4>3 DEF NewOrHeld
      <4>5. QED
        BY <4>3, <4>4 DEF NewOrHeld
    <3>7. AloneOK(r, id)'
      BY <1>8, <1>9, <1>10, <3>4, <3>6 DEF AloneOK, NewOrHeld
    <3>8. Changed(r)'
      BY <1>8 DEF Changed
    <3>9. QED
      BY <1>8, <1>9, <2>2, <3>2, <3>5, <3>7, <3>8 DEF ClientOK
  <2>3. QED
    BY <2>1, <2>2
<1>13. ASSUME NEW k \in Requests \ lost', InUse(k)' PROVE TokenOK(k)'
  <2>1. InUse(id)
    BY <1>1, <1>2 DEF InUse
  <2>2. k \in storedClients' => InUse(k)
    BY <1>7, <2>1 DEF InUse
  <2>3. CASE k # id \/ config.inMemory
    <3>1. clients'[k] = clients[k]
      BY <1>5, <1>10, <2>3
    <3>2. Delivering(r, k) => TokenOK(k)'
      <4>1. Delivering(r, k) => Delivering(r, k)'
        BY <1>2, <1>8, <1>9, <3>1 DEF Delivering, Changed
      <4>2. QED
        BY <4>1 DEF TokenOK
    <3>3. QED
      BY <1>6, <1>8, <1>13, <2>1, <2>2, <3>1, <3>2, TokenElsewhere
  <2>4. CASE k = id /\ ~config.inMemory
    <3>1. v = req[r].copy /\ v.token \in delivered[id] \cup {r}
      BY <1>1, <1>2, <1>5, <2>4 DEF ClientsInv, TokensOK, ClientCopyOK
    <3>2. v.token = r => Delivering(r, id)'
      BY <1>8, <1>9, <1>10, <3>1 DEF Delivering, Changed
    <3>3. QED
      BY <1>6, <1>10, <2>4, <3>1, <3>2 DEF TokenOK
  <2>5. QED
    BY <2>3, <2>4
<1>14. TokensOK'
  <2>1. ClientCopyOK(r)'
    BY <1>8 DEF ClientCopyOK
  <2>2. ASSUME ~config.inMemory PROVE \A q \in Requests : Manages(q)' => ClientCopyOK(q)'
    BY <1>6, <1>8, <2>1, <2>2, ClientCopiesKept
  <2>3. QED
    BY <1>8, <1>13, <2>2 DEF TokensOK
<1>15. QED
  BY <1>11, <1>12, <1>14 DEF ClientsInv

\* The answer: the client holds what is stored.
LEMMA RespondClients ==
  ASSUME RemovalInv, ClientsInv, NEW r \in Requests, respond(r)
  PROVE  ClientsInv'
<1>1. req[r].stage = "respond" /\ Manages(r) /\ InProgress(r) /\ Shape /\ End(r)
  BY DEF respond, At, RemovalInv, Manages, InProgress
<1>2. PICK id \in Requests : id = req[r].on
  BY <1>1 DEF RemovalInv, Targets
<1>3. PICK c : c = Shown(r)
  OBVIOUS
<1>4. PICK token : token = IF c.token = r THEN r ELSE held[id].token
  OBVIOUS
<1>5. PICK secret : secret = IF c.secret = r \/ ~c.meta.secret THEN c.secret ELSE held[id].secret
  OBVIOUS
<1>6. /\ held' = [held EXCEPT ![id] = [token |-> token, secret |-> secret]]
      /\ delivered' = [delivered EXCEPT ![id] = @ \cup ({c.token} \cap {r})]
      /\ clients' = clients /\ storedClients' = storedClients /\ lost' = lost /\ wanted' = wanted
  BY <1>2, <1>3, <1>4, <1>5 DEF respond, Shown, ClientsInv, ClientsTyped
<1>7. /\ Moves(r) /\ req'[r].stage = "done" /\ config' = config /\ overlapped' = overlapped
      /\ ~Manages(r)'
  BY <1>1, EndContinues DEF Continues, Manages, InProgress
<1>8. /\ held'[id] = [token |-> token, secret |-> secret]
      /\ \A k \in Requests \ {id} : held'[k] = held[k]
      /\ held' = [k \in Requests |-> held'[k]] /\ delivered' = [k \in Requests |-> delivered'[k]]
      /\ \A k \in Requests : delivered[k] \subseteq delivered'[k]
      /\ c.token = r => r \in delivered'[id]
  BY <1>6 DEF ClientsInv, ClientsTyped
<1>9. ClientsTyped'
  <2>1. \A q \in Requests : Manages(q)' => RequestTyped(q)'
    BY <1>7, RequestsTyped
  <2>2. \A k \in Requests : held'[k] = Credentials(held'[k])
    BY <1>8 DEF ClientsInv, ClientsTyped, Credentials
  <2>3. QED
    BY <1>6, <1>8, <2>1, <2>2 DEF ClientsInv, ClientsTyped
<1>10. ASSUME NEW k \in Requests \ overlapped' PROVE ClientOK(k)'
  <2>1. CASE k # id
    BY <1>2, <1>6, <1>7, <1>8, <2>1, Elsewhere
  <2>2. CASE k = id
    <3>1. \A q \in Requests \ {r} : Manages(q) => req[q].on # id
      BY <1>1, <1>2, <1>7, <2>2, Alone
    <3>2. \A q \in Requests : Manages(q)' => req'[q].on # id
      BY <1>7, <3>1 DEF Moves, Manages, InProgress
    <3>3. ClientOK(id) /\ AloneOK(r, id) /\ Changed(r)
      BY <1>1, <1>2, <1>7, <2>2 DEF ClientsInv, ClientOK, Changed
    <3>4. c = clients[id]
      BY <1>3, <3>3 DEF AloneOK
    <3>5. ASSUME id \notin lost PROVE held'[id] = Credentials(clients[id])
      <4>1. NewOrHeld(r, c)
        BY <1>1, <1>3, <3>3, <3>5 DEF AloneOK
      <4>2. token = c.token /\ secret = c.secret
        BY <1>2, <1>4, <1>5, <4>1 DEF NewOrHeld
      <4>3. QED
        BY <1>8, <3>4, <4>2 DEF Credentials
    <3>6. QED
      BY <1>6, <2>2, <3>2, <3>3, <3>5 DEF ClientOK
  <2>3. QED
    BY <2>1, <2>2
<1>11. ASSUME NEW k \in Requests \ lost', InUse(k)' PROVE TokenOK(k)'
  <2>1. k \in storedClients' => InUse(k)
    BY <1>6 DEF InUse
  <2>2. Delivering(r, k) => TokenOK(k)'
    <3>1. Delivering(r, k) => k = id /\ clients'[k].token = r /\ c.token = r
      BY <1>2, <1>3, <1>6 DEF Delivering
    <3>2. QED
      BY <1>8, <3>1 DEF TokenOK
  <2>3. QED
    BY <1>6, <1>7, <1>8, <1>11, <2>1, <2>2, TokenElsewhere
<1>12. TokensOK'
  <2>1. ASSUME ~config.inMemory PROVE \A q \in Requests : Manages(q)' => ClientCopyOK(q)'
    BY <1>7, <1>8, <2>1, ClientCopiesKept
  <2>2. QED
    BY <1>7, <1>11, <2>1 DEF TokensOK
<1>13. QED
  BY <1>9, <1>10, <1>12 DEF ClientsInv

\* A lost answer is on record.
LEMMA LoseAnswerClients ==
  ASSUME RemovalInv, ClientsInv, NEW r \in Requests, loseAnswer(r)
  PROVE  ClientsInv'
<1>1. req[r].stage = "respond" /\ Manages(r) /\ InProgress(r) /\ Shape /\ End(r)
  BY DEF loseAnswer, At, RemovalInv, Manages, InProgress
<1>2. PICK id \in Requests : id = req[r].on
  BY <1>1 DEF RemovalInv, Targets
<1>3. /\ lost' = lost \cup {id} /\ clients' = clients /\ storedClients' = storedClients
      /\ held' = held /\ delivered' = delivered /\ wanted' = wanted
  BY <1>2 DEF loseAnswer
<1>4. /\ Moves(r) /\ req'[r].stage = "done" /\ config' = config /\ overlapped' = overlapped
      /\ ~Manages(r)'
  BY <1>1, EndContinues DEF Continues, Manages, InProgress
<1>5. ClientsTyped'
  BY <1>3, <1>4, TypedKept
<1>6. ASSUME NEW k \in Requests \ overlapped' PROVE ClientOK(k)'
  <2>1. CASE k # id
    BY <1>2, <1>3, <1>4, <2>1, Elsewhere
  <2>2. CASE k = id
    <3>1. \A q \in Requests \ {r} : Manages(q) => req[q].on # id
      BY <1>1, <1>2, <1>4, <2>2, Alone
    <3>2. \A q \in Requests : Manages(q)' => req'[q].on # id
      BY <1>4, <3>1 DEF Moves, Manages, InProgress
    <3>3. ClientOK(id)
      BY <1>4, <2>2 DEF ClientsInv
    <3>4. QED
      BY <1>3, <2>2, <3>2, <3>3 DEF ClientOK
  <2>3. QED
    BY <2>1, <2>2
<1>7. ASSUME NEW k \in Requests \ lost', InUse(k)' PROVE TokenOK(k)'
  <2>1. k \in storedClients' => InUse(k)
    BY <1>3 DEF InUse
  <2>2. ~Delivering(r, k)
    BY <1>2, <1>3 DEF Delivering
  <2>3. QED
    BY <1>3, <1>4, <1>7, <2>1, <2>2, TokenElsewhere
<1>8. TokensOK'
  <2>1. ASSUME ~config.inMemory PROVE \A q \in Requests : Manages(q)' => ClientCopyOK(q)'
    BY <1>3, <1>4, <2>1, ClientCopiesKept
  <2>2. QED
    BY <1>4, <1>7, <2>1 DEF TokensOK
<1>9. QED
  BY <1>5, <1>6, <1>8 DEF ClientsInv

\* Every step of registration.
LEMMA RegistrationClients ==
  ASSUME RemovalInv, ClientsInv, RegistrationNext
  PROVE  ClientsInv'
<1>1. PICK r \in Requests :
        \/ \E meta \in Metas : create(r, meta) \/ update(r, meta)
        \/ \E id \in Requests, op \in {"update", "fetch", "remove"} : protected(r, id, op)
        \/ fetch(r) \/ saveChanged(r) \/ remove(r)
        \/ failRegistration(r) \/ respond(r) \/ loseAnswer(r)
  BY DEF RegistrationNext
<1>2. CASE remove(r)
  <2>1. End(r) /\ Manages(r) /\ ~Changed(r) /\ storedClients' \subseteq storedClients
    BY <1>2 DEF remove, At, Manages, InProgress, Changed
  <2>2. QED
    BY <1>2, <2>1, GivenUp DEF remove
<1>3. CASE failRegistration(r)
  <2>1. End(r) /\ Manages(r) /\ ~Changed(r)
    BY <1>3 DEF failRegistration, At, Manages, InProgress, Changed, RemovalInv, Targets
  <2>2. /\ storedClients' \subseteq storedClients /\ clients' = clients /\ wanted' = wanted
        /\ held' = held /\ delivered' = delivered /\ lost' = lost
    BY <1>3 DEF failRegistration, registrationVars
  <2>3. QED
    BY <2>1, <2>2, GivenUp
<1>4. QED
  BY <1>1, <1>2, <1>3, CreateClients, ProtectedClients, UpdateClients, FetchClients,
     SaveChangedClients, RespondClients, LoseAnswerClients

\* A logout changes no registration.
LEMMA LogoutClients ==
  ASSUME RemovalInv, ClientsInv, LogoutNext(URIs), UNCHANGED registrationVars
  PROVE  ClientsInv'
<1>0. /\ Shape /\ clients' = clients /\ storedClients' = storedClients /\ wanted' = wanted
      /\ held' = held /\ delivered' = delivered /\ lost' = lost
  BY DEF RemovalInv, registrationVars
<1>1. PICK r \in Requests :
        \/ \E id \in Requests, uri \in URIs \cup {None} : initLogout(r, id, uri)
        \/ \E s \in Requests : continueLogout(r, s)
        \/ \E status \in {"success", "pending", "failure"} : logout(r, status)
        \/ failLogout(r) \/ redirect(r)
  BY DEF LogoutNext
<1>2. CASE \/ \E id \in Requests, uri \in URIs \cup {None} : initLogout(r, id, uri)
           \/ \E s \in Requests : continueLogout(r, s)
  <2>1. PICK s, ls : Begin(r, "logout", s, ls, "policy")
    BY <1>2 DEF initLogout, continueLogout
  <2>2. Moves(r) /\ ~Manages(r) /\ ~Manages(r)' /\ config' = config
    BY <1>0, <2>1 DEF Begin, Moves, Shape, InProgress, Manages
  <2>3. QED
    BY <1>0, <2>2, ClientsKept
<1>3. CASE (\E status \in {"success", "pending", "failure"} : logout(r, status))
           \/ failLogout(r) \/ redirect(r)
  <2>1. InProgress(r) /\ req[r].stage \in {"policy", "redirect"} /\ (GoTo(r, "redirect") \/ End(r))
    BY <1>3 DEF logout, failLogout, redirect, At, InProgress
  <2>2. Continues(r) /\ req'[r].stage \in {"redirect", "done"} /\ config' = config
    BY <1>0, <2>1, GoToContinues, EndContinues
  <2>3. ~Manages(r)
    BY <2>1 DEF ClientsInv, ClientsTyped, RequestTyped
  <2>4. Moves(r) /\ ~Manages(r)'
    BY <2>2, <2>3 DEF Continues, Manages, InProgress
  <2>5. QED
    BY <1>0, <2>2, <2>3, <2>4, ClientsKept
<1>4. QED
  BY <1>1, <1>2, <1>3

\* Neither does the issuance of a credential.
LEMMA IssuanceClients ==
  ASSUME RemovalInv, ClientsInv, IssuanceNext, UNCHANGED registrationVars
  PROVE  ClientsInv'
<1>0. /\ Shape /\ clients' = clients /\ storedClients' = storedClients /\ wanted' = wanted
      /\ held' = held /\ delivered' = delivered /\ lost' = lost
  BY DEF RemovalInv, registrationVars
<1>1. PICK r \in Requests :
        \/ \E g \in Grants : deferIssue(r, g) \/ issue(r, g)
        \/ \E d \in Requests, g \in Grants : deferredCredential(r, d, g) \/ notify(r, d, g)
        \/ stillPending(r) \/ consume(r)
        \/ issueCredentials(r) \/ saveNotification(r)
        \/ failIssuance(r) \/ answer(r) \/ failAnswer(r)
  BY DEF IssuanceNext
<1>2. CASE \/ \E g \in Grants : deferIssue(r, g) \/ issue(r, g)
           \/ \E d \in Requests, g \in Grants : deferredCredential(r, d, g)
  <2>1. PICK op, d, copy, stage :
          /\ op \in {"issue", "poll"} /\ stage \in {"answer", "issuing", "polled"}
          /\ Begin(r, op, d, copy, stage)
    BY <1>2 DEF deferIssue, issue, deferredCredential
  <2>2. Moves(r) /\ ~Manages(r) /\ ~Manages(r)' /\ config' = config
    BY <1>0, <2>1 DEF Begin, Moves, Shape, InProgress, Manages
  <2>3. QED
    BY <1>0, <2>2, ClientsKept
<1>3. CASE \E d \in Requests, g \in Grants : notify(r, d, g)
  <2>1. At(r, "idle") /\ End(r)
    BY <1>3 DEF notify
  <2>2. Moves(r) /\ ~Manages(r) /\ ~Manages(r)' /\ config' = config
    BY <1>0, <2>1 DEF At, End, Arrival, Moves, Shape, InProgress, Manages
  <2>3. QED
    BY <1>0, <2>2, ClientsKept
<1>4. CASE \/ stillPending(r) \/ consume(r)
           \/ issueCredentials(r) \/ saveNotification(r)
           \/ failIssuance(r) \/ answer(r) \/ failAnswer(r)
  <2>1. /\ InProgress(r) /\ req[r].stage \in {"polled", "issuing", "notify", "answer"}
        /\ GoTo(r, "answer") \/ GoTo(r, "issuing") \/ GoTo(r, "notify") \/ End(r)
    BY <1>4 DEF stillPending, consume, issueCredentials, saveNotification, failIssuance,
                answer, failAnswer, At, InProgress
  <2>2. Continues(r) /\ config' = config
    BY <1>0, <2>1, GoToContinues, EndContinues
  <2>3. ~Manages(r)
    BY <2>1 DEF ClientsInv, ClientsTyped, RequestTyped
  <2>4. Moves(r) /\ ~Manages(r)'
    BY <2>1, <2>2, <2>3 DEF Continues, Manages, InProgress
  <2>5. QED
    BY <1>0, <2>2, <2>3, <2>4, ClientsKept
<1>5. QED
  BY <1>1, <1>2, <1>3, <1>4

\* Every step keeps the invariant of registrations.
LEMMA ClientsStep == RemovalInv /\ ClientsInv /\ [Next]_vars => ClientsInv'
<1> SUFFICES ASSUME RemovalInv, ClientsInv, [Next]_vars PROVE ClientsInv'
  OBVIOUS
<1>1. ASSUME UNCHANGED <<config, req, overlapped, registrationVars>> PROVE ClientsInv'
  <2>1. /\ config' = config /\ req' = req /\ overlapped' = overlapped /\ clients' = clients
        /\ storedClients' = storedClients /\ held' = held /\ delivered' = delivered
        /\ lost' = lost /\ wanted' = wanted
    BY <1>1 DEF registrationVars
  <2>2. \A r \in Requests :
          /\ (Manages(r)' <=> Manages(r)) /\ (Changed(r)' <=> Changed(r)) /\ Shown(r)' = Shown(r)
          /\ (RequestTyped(r)' <=> RequestTyped(r))
    BY <2>1 DEF Manages, InProgress, Changed, Shown, RequestTyped
  <2>3. ClientsTyped'
    BY <2>1, <2>2 DEF ClientsInv, ClientsTyped
  <2>4. \A r \in Requests, id \in Requests : AloneOK(r, id)' <=> AloneOK(r, id)
    BY <2>1, <2>2 DEF AloneOK, NewOrHeld
  <2>5. \A id \in Requests \ overlapped : ClientOK(id)'
    BY <2>1, <2>2, <2>4 DEF ClientsInv, ClientOK
  <2>6. /\ \A id \in Requests : (TokenOK(id)' <=> TokenOK(id)) /\ (InUse(id)' <=> InUse(id))
        /\ \A r \in Requests : ClientCopyOK(r)' <=> ClientCopyOK(r)
    BY <2>1, <2>2 DEF Delivering, TokenOK, InUse, ClientCopyOK
  <2>7. TokensOK'
    BY <2>1, <2>2, <2>6 DEF ClientsInv, TokensOK
  <2>8. QED
    BY <2>1, <2>3, <2>5, <2>7 DEF ClientsInv
<1>2. CASE Tick /\ UNCHANGED <<registrationVars, logoutVars, issuanceVars>>
  BY <1>1, <1>2 DEF Tick
<1>3. CASE UNCHANGED vars
  BY <1>1, <1>3 DEF vars, requestVars
<1>4. CASE RegistrationNext /\ UNCHANGED <<logoutVars, issuanceVars>>
  BY <1>4, RegistrationClients
<1>5. CASE LogoutNext(URIs) /\ UNCHANGED <<registrationVars, issuanceVars>>
  BY <1>5, LogoutClients
<1>6. CASE IssuanceNext /\ UNCHANGED <<registrationVars, logoutVars>>
  BY <1>6, IssuanceClients
<1>7. QED
  BY <1>2, <1>3, <1>4, <1>5, <1>6 DEF Next

\* Nobody is registered at first.
LEMMA InitClients == Init => ClientsInv
<1> SUFFICES ASSUME Init PROVE ClientsInv
  OBVIOUS
<1>1. \A r \in Requests : ~Manages(r)
  BY DEF Init, RequestsInit, Arrival, Manages, InProgress
<1>2. IsClient(NoClient) /\ NoClient.token = None /\ NoClient.secret = None /\ NoClient.meta = None
  BY DEF IsClient, NoClient
<1>3. /\ clients = [r \in Requests |-> NoClient] /\ storedClients = {}
      /\ held = [r \in Requests |-> [token |-> None, secret |-> None]]
      /\ delivered = [r \in Requests |-> {}] /\ wanted = [r \in Requests |-> None]
  BY DEF Init, RegistrationInit
<1>4. ClientsTyped
  BY <1>1, <1>2, <1>3 DEF ClientsTyped, Credentials
<1>5. TokensOK
  BY <1>1, <1>3 DEF TokensOK, InUse
<1>6. \A id \in Requests : ClientOK(id)
  BY <1>1, <1>2, <1>3 DEF ClientOK, Credentials
<1>7. QED
  BY <1>4, <1>5, <1>6 DEF ClientsInv

\* The invariants hold throughout.
LEMMA ClientsInvariant == Spec => [](RemovalInv /\ ClientsInv)
  BY InitClients, ClientsStep, RemovalInvariant, PTL DEF Spec

\* create, update and fetch answer with the registration token they stored: a
\* client that got its answers keeps access to its registration through any
\* rotation, overlaps, evictions and late saves included, and holds exactly
\* what is stored if its requests did not overlap.
THEOREM AccessKept == Spec => []ClientKeepsAccess
<1>1. ASSUME RemovalInv, ClientsInv PROVE ClientKeepsAccess
  <2> SUFFICES ASSUME NEW id \in storedClients \ lost, Settled(id)
               PROVE  /\ clients[id].token \in delivered[id]
                      /\ id \notin overlapped =>
                           held[id] = [token |-> clients[id].token, secret |-> clients[id].secret]
    BY DEF ClientKeepsAccess
  <2>1. id \in Requests /\ \A r \in Requests : Manages(r) => req[r].on # id
    BY <1>1 DEF RemovalInv, Targets, Settled, Manages
  <2>2. clients[id].token \in delivered[id]
    BY <1>1, <2>1 DEF ClientsInv, TokensOK, TokenOK, InUse, Delivering
  <2>3. id \notin overlapped => held[id] = Credentials(clients[id])
    BY <1>1, <2>1 DEF ClientsInv, ClientOK
  <2>4. QED
    BY <2>2, <2>3 DEF Credentials
<1>2. QED
  BY <1>1, ClientsInvariant, PTL

\* currentPostLogoutRedirectURI looks the client up again, so the browser goes
\* to a URI the client wants now and never to one of a removed client, unless
\* requests about the registration overlapped.
THEOREM RedirectsCurrent == Spec => RedirectsWanted
<1>1. RemovalInv /\ ClientsInv /\ [Next]_vars =>
        [\A x \in redirects' \ redirects :
           x.client \notin overlapped =>
             /\ x.uri \in wanted[x.client].uris
             /\ x.client \notin removed]_redirects
  <2> SUFFICES ASSUME RemovalInv, ClientsInv, [Next]_vars, NEW x \in redirects' \ redirects,
                      x.client \notin overlapped
               PROVE  x.uri \in wanted[x.client].uris /\ x.client \notin removed
    OBVIOUS
  <2>1. PICK r \in Requests : redirect(r)
    BY DEF Next, LogoutNext, initLogout, continueLogout, logout, failLogout, logoutVars, vars
  <2>2. PICK ls : ls = View(r, sessions)
    OBVIOUS
  <2>3. PICK u \in currentPostLogoutRedirectURI(ls) : x = [by |-> r, client |-> ls.client, uri |-> u]
    BY <2>1, <2>2 DEF redirect
  <2>4. x.client = ls.client /\ x.uri = u
    BY <2>3
  <2>5. ls.client \in storedClients /\ u \in clients[ls.client].meta.uris
    BY <2>3 DEF currentPostLogoutRedirectURI, Found
  <2>6. ls.client \in Requests \ overlapped
    BY <2>4, <2>5 DEF RemovalInv, Targets
  <2>7. clients[ls.client].meta = wanted[ls.client]
    BY <2>6 DEF ClientsInv, ClientOK
  <2>8. ls.client \notin removed
    BY <2>5, <2>6 DEF RemovalInv, RemovedForGood
  <2>9. QED
    BY <2>4, <2>5, <2>7, <2>8
<1>2. QED
  BY <1>1, ClientsInvariant, PTL DEF Spec, RedirectsWanted

-----------------------------------------------------------------------------
(* Capacity. *)

IsSession(s) ==
  s = [client |-> s.client, uri |-> s.uri, status |-> s.status, expires |-> s.expires,
       created |-> s.created]

\* The state of one map: no record is younger than the clock, and a record that
\* is not gone is stored unless room others are as young.
MapOK(born, stored, room, gone, time, inMemory) ==
  /\ born \in [Requests -> 0 .. time] /\ stored \in SUBSET Requests
  /\ \A k \in Requests \ gone :
       (/\ born[k] # 0
        /\ ~inMemory \/ Cardinality({l \in Requests \ {k} : born[l] >= born[k]}) < room)
       => k \in stored

\* What a handler saves again was created when the record it loaded was.
CopyOK(r) ==
  /\ req[r].stage \in {"loaded", "save"} => req[r].copy.created = clients[req[r].on].created
  /\ req[r].stage = "policy" =>
       /\ req[r].on \in Requests /\ IsSession(req[r].copy)
       /\ req[r].copy.created = sessions[req[r].on].created
  /\ req[r].stage = "polled" => req[r].copy.created = deferrals[req[r].on].created

\* The session and notification records are well formed.
SessionsTyped ==
  /\ now \in Nat
  /\ sessions = [k \in Requests |-> sessions[k]] /\ \A k \in Requests : IsSession(sessions[k])
  /\ notifications = [k \in Requests |-> notifications[k]]

RecentInv ==
  /\ SessionsTyped /\ \A r \in Requests : CopyOK(r)
  /\ MapOK(Created(clients), storedClients, MaxSize - 1, removed, now, config.inMemory)
  /\ MapOK(Created(sessions), storedSessions, MaxSize - 1, {}, now, config.inMemory)
  /\ MapOK(Created(deferrals), storedDeferrals, MaxSize - 1, {}, now, config.inMemory)
  /\ MapOK(Created(notifications), storedNotifications, MaxSize, {}, now, config.inMemory)

\* An entry that makes room has MaxSize - 1 others as young as it in the map,
\* and the saved record besides, if that is new and the youngest.
LEMMA EvictedIsOld ==
  ASSUME IsFiniteSet(Requests), NEW born \in [Requests -> Nat], NEW stored \in SUBSET Requests,
         NEW k \in Requests, NEW old \in Oldest(stored, born), NEW younger,
         Cardinality(stored) >= MaxSize,
         younger = {l \in Requests \ {old} : born[l] >= born[old]}
  PROVE  /\ Cardinality(younger) >= MaxSize - 1
         /\ (k \notin stored /\ born[k] >= born[old]) => Cardinality(younger) >= MaxSize
<1>1. IsFiniteSet(stored) /\ IsFiniteSet(younger) /\ Cardinality(younger) \in Nat
      /\ Cardinality(stored) \in Nat
  <2>1. younger \subseteq Requests
    OBVIOUS
  <2>2. IsFiniteSet(stored) /\ IsFiniteSet(younger)
    BY <2>1, FS_Subset
  <2> QED
    BY <2>2, FS_CardinalityType
<1>2. old \in stored /\ \A l \in stored : born[old] <= born[l]
  BY DEF Oldest
<1>3. PICK rest : rest = stored \ {old}
  OBVIOUS
<1>4. IsFiniteSet(rest) /\ Cardinality(rest) = Cardinality(stored) - 1
  BY <1>1, <1>2, <1>3, FS_RemoveElement
<1>5. rest \subseteq younger
  BY <1>2, <1>3
<1>6. Cardinality(rest) <= Cardinality(younger)
  BY <1>1, <1>5, FS_Subset
<1>7. ASSUME k \notin stored, born[k] >= born[old]
      PROVE  Cardinality(younger) >= MaxSize
  <2>1. rest \cup {k} \subseteq younger /\ k \notin rest
    BY <1>2, <1>3, <1>5, <1>7
  <2>2. Cardinality(rest \cup {k}) = Cardinality(rest) + 1
    BY <1>4, <2>1, FS_AddElement
  <2>3. Cardinality(rest \cup {k}) <= Cardinality(younger)
    BY <1>1, <2>1, FS_Subset
  <2> QED
    BY <1>1, <1>4, <2>2, <2>3, StorageAssumption
<1> QED
  BY <1>1, <1>4, <1>6, <1>7, StorageAssumption

\* Saving a record keeps a map in order: one with a place to spare, or one that
\* saves only what is new.
LEMMA SavedMap ==
  ASSUME IsFiniteSet(Requests), NEW old \in [Requests -> Nat], NEW born, NEW stored, NEW saved,
         NEW k \in Requests, NEW room \in Nat, NEW gone, NEW time \in Nat, NEW inMemory,
         MapOK(old, stored, room, gone, time, inMemory),
         born \in [Requests -> 0 .. time], old[k] <= born[k],
         \A l \in Requests \ {k} : born[l] = old[l],
         \/ inMemory /\ saved \in SaveEvicting(stored, k, born)
         \/ inMemory /\ k \in stored /\ saved = stored
         \/ ~inMemory /\ saved = stored \cup {k},
         room = MaxSize - 1 \/ (room = MaxSize /\ (k \in stored => saved = stored) /\ born[k] = time)
  PROVE  MapOK(born, saved, room, gone, time, inMemory)
<1>1. stored \in SUBSET Requests /\ born \in [Requests -> Nat]
  BY DEF MapOK
<1>2. k \in saved /\ saved \in SUBSET Requests
  BY <1>1 DEF SaveEvicting
<1>3. ASSUME NEW l \in Requests \ gone, l # k, born[l] # 0, NEW younger,
             younger = {m \in Requests \ {l} : born[m] >= born[l]},
             ~inMemory \/ Cardinality(younger) < room
      PROVE  l \in saved
  <2>1. PICK before : before = {m \in Requests \ {l} : old[m] >= old[l]}
    OBVIOUS
  <2>2. before \subseteq younger /\ old[l] = born[l]
    BY <1>1, <1>3, <2>1
  <2>3. /\ IsFiniteSet(younger) /\ Cardinality(younger) \in Nat
        /\ Cardinality(before) \in Nat /\ Cardinality(before) <= Cardinality(younger)
    <3>1. IsFiniteSet(younger) /\ IsFiniteSet(before)
      BY <1>3, <2>1, FS_Subset
    <3> QED
      BY <2>2, <3>1, FS_Subset, FS_CardinalityType
  <2>4. ~inMemory \/ Cardinality(before) < room
    BY <1>3, <2>3
  <2>5. l \in stored
    BY <1>3, <2>1, <2>2, <2>4 DEF MapOK
  <2>6. ASSUME l \notin saved PROVE FALSE
    <3>1. inMemory /\ saved \in SaveEvicting(stored, k, born) /\ ~(k \in stored /\ saved = stored)
      BY <2>5, <2>6
    <3>2. Cardinality(stored) >= MaxSize /\ l \in Oldest(stored, born)
      BY <1>3, <2>5, <2>6, <3>1 DEF SaveEvicting
    <3>3. /\ Cardinality(younger) >= MaxSize - 1
          /\ (k \notin stored /\ born[k] >= born[l]) => Cardinality(younger) >= MaxSize
      BY <1>1, <1>3, <3>2, EvictedIsOld
    <3>4. CASE room = MaxSize - 1
      BY <1>3, <2>3, <3>1, <3>3, <3>4, StorageAssumption
    <3>5. CASE room = MaxSize /\ (k \in stored => saved = stored) /\ born[k] = time
      <4>1. k \notin stored /\ born[k] >= born[l]
        BY <1>1, <3>1, <3>5
      <4> QED
        BY <1>3, <2>3, <3>1, <3>3, <3>5, <4>1, StorageAssumption
    <3> QED
      BY <3>4, <3>5
  <2> QED
    BY <2>6
<1> QED
  BY <1>2, <1>3 DEF MapOK

\* A map ages, or loses what is gone.
LEMMA AgedMap ==
  ASSUME NEW born, NEW stored, NEW room, NEW gone, NEW time \in Nat, NEW inMemory,
         MapOK(born, stored, room, gone, time, inMemory),
         NEW more, gone \subseteq more, NEW left, left \subseteq stored, stored \subseteq left \cup more,
         NEW later \in Nat, time <= later
  PROVE  MapOK(born, left, room, more, later, inMemory)
BY DEF MapOK

\* A save of a client, a session or a deferral.
LEMMA EvictingSave ==
  ASSUME IsFiniteSet(Requests), NEW old, NEW born, NEW stored, NEW saved, NEW k \in Requests,
         NEW gone, now \in Nat, MapOK(old, stored, MaxSize - 1, gone, now, config.inMemory),
         \A l \in Requests \ {k} : born[l] = old[l],
         born = [l \in Requests |-> born[l]], born[k] \in 0 .. now, old[k] <= born[k],
         saved \in SavedEvicting(stored, k, born) \/ saved \in SavedKeeping(stored, k, born)
  PROVE  MapOK(born, saved, MaxSize - 1, gone, now, config.inMemory)
<1>1. old \in [Requests -> Nat] /\ \A l \in Requests : old[l] \in 0 .. now
  BY DEF MapOK
<1>2. born \in [Requests -> 0 .. now]
  BY <1>1
<1>3. \/ config.inMemory /\ saved \in SaveEvicting(stored, k, born)
      \/ config.inMemory /\ k \in stored /\ saved = stored
      \/ ~config.inMemory /\ saved = stored \cup {k}
  BY DEF SavedEvicting, SavedKeeping, SaveKeeping
<1>4. MaxSize - 1 \in Nat
  BY StorageAssumption
<1>5. PICK inMemory : inMemory = config.inMemory
  OBVIOUS
<1> QED
  BY <1>1, <1>2, <1>3, <1>4, <1>5, SavedMap

\* A save of a notification.
LEMMA KeepingSave ==
  ASSUME IsFiniteSet(Requests), NEW old, NEW born, NEW stored, NEW saved, NEW k \in Requests,
         NEW gone, now \in Nat, MapOK(old, stored, MaxSize, gone, now, config.inMemory),
         \A l \in Requests \ {k} : born[l] = old[l],
         born = [l \in Requests |-> born[l]], born[k] = now,
         saved \in SavedKeeping(stored, k, born)
  PROVE  MapOK(born, saved, MaxSize, gone, now, config.inMemory)
<1>1. /\ old \in [Requests -> Nat] /\ \A l \in Requests : old[l] \in 0 .. now
      /\ stored \in SUBSET Requests
  BY DEF MapOK
<1>2. born \in [Requests -> 0 .. now] /\ old[k] <= born[k]
  BY <1>1
<1>3. \/ config.inMemory /\ saved \in SaveEvicting(stored, k, born)
      \/ config.inMemory /\ k \in stored /\ saved = stored
      \/ ~config.inMemory /\ saved = stored \cup {k}
  BY DEF SavedKeeping, SaveKeeping
<1>4. k \in stored => saved = stored
  BY DEF SavedKeeping, SaveKeeping
<1>5. MaxSize \in Nat
  BY StorageAssumption
<1>6. PICK inMemory : inMemory = config.inMemory
  OBVIOUS
<1> QED
  BY <1>1, <1>2, <1>3, <1>4, <1>5, <1>6, SavedMap

\* No record of a request that has arrived is made younger.
BirthsStay ==
  \A k \in Requests :
    req[k].stage # "idle" =>
      /\ clients'[k].created = clients[k].created
      /\ sessions'[k].created = sessions[k].created
      /\ deferrals'[k].created = deferrals[k].created

\* The copies of the other goroutines stay those of their records.
LEMMA CopiesKept ==
  ASSUME RemovalInv, DeferralsInv, RecentInv, NEW r \in Requests, Moves(r), BirthsStay, CopyOK(r)'
  PROVE  \A q \in Requests : CopyOK(q)'
<1> SUFFICES ASSUME NEW q \in Requests, q # r PROVE CopyOK(q)'
  OBVIOUS
<1>1. req'[q] = req[q] /\ CopyOK(q)
  BY DEF Moves, RecentInv
<1>2. req[q].stage \in {"loaded", "save", "policy", "polled"} => req[q].on \in Requests
  BY <1>1 DEF CopyOK, RemovalInv, Targets, DeferralsInv, DeferralsTyped
<1>3. req[q].on \in Requests => req[req[q].on].stage # "idle"
  BY DEF DeferralsInv, Known
<1> QED
  BY <1>1, <1>2, <1>3 DEF CopyOK, BirthsStay

\* A goroutine moves and saves nothing.
LEMMA UnsavedRecent ==
  ASSUME RemovalInv, DeferralsInv, RecentInv, NEW r \in Requests, Moves(r), CopyOK(r)',
         now' = now, config' = config, clients' = clients, storedClients' = storedClients,
         removed' = removed, sessions' = sessions, storedSessions' = storedSessions,
         deferrals' = deferrals, storedDeferrals' = storedDeferrals,
         notifications' = notifications, storedNotifications' = storedNotifications
  PROVE  RecentInv'
<1>1. BirthsStay
  BY DEF BirthsStay
<1>2. \A q \in Requests : CopyOK(q)'
  BY <1>1, CopiesKept
<1>3. SessionsTyped'
  BY DEF RecentInv, SessionsTyped
<1> QED
  BY <1>2, <1>3 DEF RecentInv

\* A goroutine moves to where it has nothing to save.
LEMMA NothingToSave ==
  ASSUME NEW r \in Requests, req'[r].stage \notin {"loaded", "save", "policy", "polled"}
  PROVE  CopyOK(r)'
BY DEF CopyOK

\* A record born in a map whose other records stay.
LEMMA Births ==
  ASSUME NEW records, NEW after, NEW k \in Requests, NEW c, NEW time \in Nat,
         records = [l \in Requests |-> records[l]], after = [records EXCEPT ![k] = c],
         Created(records) \in [Requests -> 0 .. time],
         c.created = records[k].created \/ c.created = time
  PROVE  /\ \A l \in Requests \ {k} : Created(after)[l] = Created(records)[l]
         /\ Created(after) = [l \in Requests |-> Created(after)[l]]
         /\ Created(after)[k] \in 0 .. time
         /\ Created(records)[k] <= Created(after)[k]
         /\ Created(after)[k] = c.created
         /\ after[k] = c /\ \A l \in Requests \ {k} : after[l] = records[l]
<1>1. after[k] = c /\ \A l \in Requests \ {k} : after[l] = records[l]
  OBVIOUS
<1>2. \A l \in Requests : Created(records)[l] \in 0 .. time /\ Created(records)[l] = records[l].created
  BY DEF Created
<1>3. Created(after)[k] = c.created
  BY <1>1 DEF Created
<1> QED
  BY <1>1, <1>2, <1>3 DEF Created

\* A client is saved, or changed where it is stored.
LEMMA ClientSaved ==
  ASSUME IsFiniteSet(Requests), RemovalInv, DeferralsInv, RecentInv, ClientsTyped,
         NEW r \in Requests, Moves(r), CopyOK(r)', NEW k \in Requests, NEW c,
         clients' = [clients EXCEPT ![k] = c],
         c.created = clients[k].created \/ (req[k].stage = "idle" /\ c.created = now),
         \/ storedClients' \in SavedEvicting(storedClients, k, Created(clients'))
         \/ c.created = clients[k].created /\ storedClients' = storedClients,
         now' = now, config' = config, removed' = removed,
         sessions' = sessions, storedSessions' = storedSessions,
         deferrals' = deferrals, storedDeferrals' = storedDeferrals,
         notifications' = notifications, storedNotifications' = storedNotifications
  PROVE  RecentInv'
<1>1. PICK old, born, stored, saved, after :
        /\ old = Created(clients) /\ born = Created(after) /\ after = clients'
        /\ stored = storedClients /\ saved = storedClients'
  OBVIOUS
<1>2. /\ now \in Nat /\ MapOK(old, stored, MaxSize - 1, removed, now, config.inMemory)
      /\ old \in [Requests -> 0 .. now]
  BY <1>1 DEF RecentInv, SessionsTyped, MapOK
<1>3. /\ \A l \in Requests \ {k} : born[l] = old[l]
      /\ born = [l \in Requests |-> born[l]] /\ born[k] \in 0 .. now /\ old[k] <= born[k]
      /\ born[k] = c.created
      /\ after[k] = c /\ \A l \in Requests \ {k} : after[l] = clients[l]
  <2>1. clients = [l \in Requests |-> clients[l]] /\ after = [clients EXCEPT ![k] = c]
    BY <1>1 DEF ClientsTyped
  <2>2. PICK records, time : time = now /\ records = clients
    OBVIOUS
  <2>3. /\ records = [l \in Requests |-> records[l]] /\ after = [records EXCEPT ![k] = c]
        /\ Created(records) \in [Requests -> 0 .. time] /\ time \in Nat
        /\ c.created = records[k].created \/ c.created = time
    BY <1>1, <1>2, <2>1, <2>2
  <2>4. /\ \A l \in Requests \ {k} : Created(after)[l] = Created(records)[l]
        /\ Created(after) = [l \in Requests |-> Created(after)[l]]
        /\ Created(after)[k] \in 0 .. time
        /\ Created(records)[k] <= Created(after)[k]
        /\ Created(after)[k] = c.created
        /\ after[k] = c /\ \A l \in Requests \ {k} : after[l] = records[l]
    BY <2>3, Births
  <2> QED
    BY <1>1, <2>2, <2>4
<1>4. MapOK(born, saved, MaxSize - 1, removed, now, config.inMemory)
  <2>1. CASE saved \in SavedEvicting(stored, k, born)
    BY <1>2, <1>3, <2>1, EvictingSave
  <2>2. CASE c.created = clients[k].created /\ saved = stored
    <3>1. old[k] = clients[k].created
      BY <1>1 DEF Created
    <3>2. \A l \in Requests : born[l] = old[l]
      BY <1>3, <2>2, <3>1
    <3>3. born = old
      BY <1>2, <1>3, <3>2
    <3> QED
      BY <1>2, <2>2, <3>3
  <2> QED
    BY <1>1, <2>1, <2>2
<1>5. BirthsStay
  BY <1>1, <1>3 DEF BirthsStay
<1>6. \A q \in Requests : CopyOK(q)'
  BY <1>5, CopiesKept
<1>7. SessionsTyped'
  BY DEF RecentInv, SessionsTyped
<1>8. MapOK(Created(clients'), storedClients', MaxSize - 1, removed, now, config.inMemory)
  BY <1>1, <1>4
<1> QED
  BY <1>6, <1>7, <1>8 DEF RecentInv, Created

\* A logout session is saved.
LEMMA SessionSaved ==
  ASSUME IsFiniteSet(Requests), RemovalInv, DeferralsInv, RecentInv,
         NEW r \in Requests, Moves(r), CopyOK(r)', NEW k \in Requests, NEW c, IsSession(c),
         SaveLogoutSession(k, c),
         c.created = sessions[k].created \/ (req[k].stage = "idle" /\ c.created = now),
         now' = now, config' = config, removed' = removed,
         clients' = clients, storedClients' = storedClients,
         deferrals' = deferrals, storedDeferrals' = storedDeferrals,
         notifications' = notifications, storedNotifications' = storedNotifications
  PROVE  RecentInv'
<1>1. PICK old, born, stored, saved, after :
        /\ old = Created(sessions) /\ born = Created(after) /\ after = sessions'
        /\ stored = storedSessions /\ saved = storedSessions'
  OBVIOUS
<1>2. /\ now \in Nat /\ MapOK(old, stored, MaxSize - 1, {}, now, config.inMemory)
      /\ old \in [Requests -> 0 .. now]
  BY <1>1 DEF RecentInv, SessionsTyped, MapOK
<1>3. /\ \A l \in Requests \ {k} : born[l] = old[l]
      /\ born = [l \in Requests |-> born[l]] /\ born[k] \in 0 .. now /\ old[k] <= born[k]
      /\ after[k] = c /\ \A l \in Requests \ {k} : after[l] = sessions[l]
  <2>1. sessions = [l \in Requests |-> sessions[l]] /\ after = [sessions EXCEPT ![k] = c]
    BY <1>1 DEF RecentInv, SessionsTyped, SaveLogoutSession
  <2>2. PICK records, time : time = now /\ records = sessions
    OBVIOUS
  <2>3. /\ records = [l \in Requests |-> records[l]] /\ after = [records EXCEPT ![k] = c]
        /\ Created(records) \in [Requests -> 0 .. time] /\ time \in Nat
        /\ c.created = records[k].created \/ c.created = time
    BY <1>1, <1>2, <2>1, <2>2
  <2>4. /\ \A l \in Requests \ {k} : Created(after)[l] = Created(records)[l]
        /\ Created(after) = [l \in Requests |-> Created(after)[l]]
        /\ Created(after)[k] \in 0 .. time
        /\ Created(records)[k] <= Created(after)[k]
        /\ Created(after)[k] = c.created
        /\ after[k] = c /\ \A l \in Requests \ {k} : after[l] = records[l]
    BY <2>3, Births
  <2> QED
    BY <1>1, <2>2, <2>4
<1>4. MapOK(born, saved, MaxSize - 1, {}, now, config.inMemory)
  <2>1. saved \in SavedEvicting(stored, k, born)
    BY <1>1 DEF SaveLogoutSession
  <2> QED
    BY <1>2, <1>3, <2>1, EvictingSave
<1>5. BirthsStay
  BY <1>1, <1>3 DEF BirthsStay
<1>6. \A q \in Requests : CopyOK(q)'
  BY <1>5, CopiesKept
<1>7. SessionsTyped'
  <2>1. sessions' = [l \in Requests |-> sessions'[l]]
    BY DEF RecentInv, SessionsTyped, SaveLogoutSession
  <2>2. \A l \in Requests : IsSession(after[l])
    BY <1>3 DEF RecentInv, SessionsTyped
  <2> QED
    BY <1>1, <2>1, <2>2 DEF RecentInv, SessionsTyped
<1>8. MapOK(Created(sessions'), storedSessions', MaxSize - 1, {}, now, config.inMemory)
  BY <1>1, <1>4
<1> QED
  BY <1>6, <1>7, <1>8 DEF RecentInv, Created

\* A deferral is saved.
LEMMA DeferralSaved ==
  ASSUME IsFiniteSet(Requests), RemovalInv, DeferralsInv, RecentInv,
         NEW r \in Requests, Moves(r), CopyOK(r)', NEW k \in Requests, NEW c,
         SaveDeferral(k, c),
         c.created = deferrals[k].created \/ (req[k].stage = "idle" /\ c.created = now),
         now' = now, config' = config, removed' = removed,
         clients' = clients, storedClients' = storedClients,
         sessions' = sessions, storedSessions' = storedSessions,
         notifications' = notifications, storedNotifications' = storedNotifications
  PROVE  RecentInv'
<1>1. PICK old, born, stored, saved, after :
        /\ old = Created(deferrals) /\ born = Created(after) /\ after = deferrals'
        /\ stored = storedDeferrals /\ saved = storedDeferrals'
  OBVIOUS
<1>2. /\ now \in Nat /\ MapOK(old, stored, MaxSize - 1, {}, now, config.inMemory)
      /\ old \in [Requests -> 0 .. now]
  BY <1>1 DEF RecentInv, SessionsTyped, MapOK
<1>3. /\ \A l \in Requests \ {k} : born[l] = old[l]
      /\ born = [l \in Requests |-> born[l]] /\ born[k] \in 0 .. now /\ old[k] <= born[k]
      /\ after[k] = c /\ \A l \in Requests \ {k} : after[l] = deferrals[l]
  <2>1. deferrals = [l \in Requests |-> deferrals[l]] /\ after = [deferrals EXCEPT ![k] = c]
    BY <1>1 DEF DeferralsInv, DeferralsTyped, SaveDeferral
  <2>2. PICK records, time : time = now /\ records = deferrals
    OBVIOUS
  <2>3. /\ records = [l \in Requests |-> records[l]] /\ after = [records EXCEPT ![k] = c]
        /\ Created(records) \in [Requests -> 0 .. time] /\ time \in Nat
        /\ c.created = records[k].created \/ c.created = time
    BY <1>1, <1>2, <2>1, <2>2
  <2>4. /\ \A l \in Requests \ {k} : Created(after)[l] = Created(records)[l]
        /\ Created(after) = [l \in Requests |-> Created(after)[l]]
        /\ Created(after)[k] \in 0 .. time
        /\ Created(records)[k] <= Created(after)[k]
        /\ Created(after)[k] = c.created
        /\ after[k] = c /\ \A l \in Requests \ {k} : after[l] = records[l]
    BY <2>3, Births
  <2> QED
    BY <1>1, <2>2, <2>4
<1>4. MapOK(born, saved, MaxSize - 1, {}, now, config.inMemory)
  <2>1. saved \in SavedKeeping(stored, k, born)
    BY <1>1 DEF SaveDeferral, Created
  <2> QED
    BY <1>2, <1>3, <2>1, EvictingSave
<1>5. BirthsStay
  BY <1>1, <1>3 DEF BirthsStay
<1>6. \A q \in Requests : CopyOK(q)'
  BY <1>5, CopiesKept
<1>7. SessionsTyped'
  BY DEF RecentInv, SessionsTyped
<1>8. MapOK(Created(deferrals'), storedDeferrals', MaxSize - 1, {}, now, config.inMemory)
  BY <1>1, <1>4
<1> QED
  BY <1>6, <1>7, <1>8 DEF RecentInv, Created

\* Every step of registration. A record keeps the time it was created at
\* through updates, rotations and late saves.
LEMMA RegistrationRecent ==
  ASSUME IsFiniteSet(Requests), RemovalInv, DeferralsInv, ClientsInv, RecentInv,
         RegistrationNext, UNCHANGED logoutVars, UNCHANGED issuanceVars
  PROVE  RecentInv'
<1>0. /\ Shape /\ ClientsTyped /\ now \in Nat
      /\ sessions' = sessions /\ storedSessions' = storedSessions
      /\ deferrals' = deferrals /\ storedDeferrals' = storedDeferrals
      /\ notifications' = notifications /\ storedNotifications' = storedNotifications
  BY DEF RemovalInv, ClientsInv, RecentInv, SessionsTyped, logoutVars, issuanceVars
<1>1. PICK r \in Requests :
        \/ \E meta \in Metas : create(r, meta) \/ update(r, meta)
        \/ \E id \in Requests, op \in {"update", "fetch", "remove"} : protected(r, id, op)
        \/ fetch(r) \/ saveChanged(r) \/ remove(r)
        \/ failRegistration(r) \/ respond(r) \/ loseAnswer(r)
  BY DEF RegistrationNext
<1>2. CASE \E meta \in Metas : create(r, meta)
  <2>1. PICK meta \in Metas : create(r, meta)
    BY <1>2
  <2>2. PICK c : c = [token |-> r, secret |-> IF meta.secret THEN r ELSE None,
                      meta |-> meta, created |-> now]
    OBVIOUS
  <2>3. /\ Begin(r, "create", r, None, "respond") /\ clients' = [clients EXCEPT ![r] = c]
        /\ storedClients' \in SavedEvicting(storedClients, r, Created(clients'))
        /\ removed' = removed /\ c.created = now
    BY <2>1, <2>2 DEF create, SaveClient
  <2>4. /\ Moves(r) /\ req[r].stage = "idle" /\ now' = now /\ config' = config
        /\ req'[r].stage = "respond"
    BY <1>0, <2>3 DEF Begin, Moves, Shape
  <2>5. CopyOK(r)'
    BY <2>4, NothingToSave
  <2> QED
    BY <1>0, <2>3, <2>4, <2>5, ClientSaved
<1>3. CASE \E id \in Requests, op \in {"update", "fetch", "remove"} : protected(r, id, op)
  <2>1. PICK id \in Requests, op \in {"update", "fetch", "remove"} : protected(r, id, op)
    BY <1>3
  <2>2. PICK c : c = clients[id]
    OBVIOUS
  <2>3. /\ Begin(r, op, id, c, "loaded") /\ clients' = clients
        /\ storedClients' = storedClients /\ removed' = removed
    BY <2>1, <2>2 DEF protected, registrationVars
  <2>4. /\ Moves(r) /\ now' = now /\ config' = config
        /\ req'[r].stage = "loaded" /\ req'[r].on = id /\ req'[r].copy = c
    BY <1>0, <2>3 DEF Begin, Moves, Shape
  <2>5. CopyOK(r)'
    BY <2>2, <2>3, <2>4 DEF CopyOK
  <2> QED
    BY <1>0, <2>3, <2>4, <2>5, UnsavedRecent
<1>4. CASE (\E meta \in Metas : update(r, meta)) \/ fetch(r)
  <2>1. Manages(r) /\ req[r].on \in Requests /\ req[r].stage = "loaded" /\ InProgress(r)
    <3>1. CASE fetch(r)
      BY <3>1 DEF fetch, At, Manages, InProgress, RemovalInv, Targets
    <3>2. CASE \E meta \in Metas : update(r, meta)
      <4>1. \A meta : update(r, meta) => req[r].stage = "loaded"
        BY DEF update, At
      <4> QED
        BY <3>2, <4>1 DEF Manages, InProgress, RemovalInv, Targets
    <3> QED
      BY <1>4, <3>1, <3>2
  <2>2. PICK d, id : d = View(r, clients) /\ id = req[r].on
    OBVIOUS
  <2>3. IsClient(d) /\ d.created = clients[id].created /\ id \in Requests
    <3>1. RequestTyped(r) /\ CopyOK(r)
      BY <2>1 DEF ClientsInv, ClientsTyped, RecentInv
    <3>2. IsClient(clients[id]) /\ IsClient(req[r].copy) /\ req[r].copy.created = clients[id].created
      BY <2>1, <2>2, <3>1 DEF RequestTyped, CopyOK, ClientsInv, ClientsTyped
    <3> QED
      BY <2>1, <2>2, <3>2 DEF View
  <2>4. PICK c, stage :
          /\ stage \in {"save", "respond"} /\ Assign(r, c, stage) /\ c.created = d.created
    <3>1. CASE fetch(r)
      <4>1. PICK secret : secret = IF d.meta.secret /\ config.rotateSecret THEN r ELSE d.secret
        OBVIOUS
      <4>2. PICK token : token = RotatedToken(r, d)
        OBVIOUS
      <4>3. PICK c : c = [d EXCEPT !.token = token, !.secret = secret]
        OBVIOUS
      <4>4. PICK stage : stage = IF (d.meta.secret /\ config.rotateSecret) \/ config.rotateToken
                                 THEN "save" ELSE "respond"
        OBVIOUS
      <4>5. Assign(r, c, stage)
        BY <2>2, <2>3, <3>1, <4>1, <4>2, <4>3, <4>4 DEF fetch, IsClient
      <4>6. c.created = d.created /\ stage \in {"save", "respond"}
        BY <2>3, <4>3, <4>4 DEF IsClient
      <4> QED
        BY <4>5, <4>6
    <3>2. CASE \E meta \in Metas : update(r, meta)
      <4>1. PICK meta \in Metas : update(r, meta)
        BY <3>2
      <4>2. PICK secret :
              secret = CASE ~meta.secret -> None
                         [] meta.secret /\ (d.secret = None \/ config.rotateSecret) -> r
                         [] OTHER -> d.secret
        OBVIOUS
      <4>3. PICK token : token = RotatedToken(r, d)
        OBVIOUS
      <4>4. PICK c : c = [d EXCEPT !.meta = meta, !.token = token, !.secret = secret]
        OBVIOUS
      <4>5. Assign(r, c, "save")
        BY <2>2, <2>3, <4>1, <4>2, <4>3, <4>4 DEF update, IsClient
      <4>6. c.created = d.created
        BY <2>3, <4>4 DEF IsClient
      <4> QED
        BY <4>5, <4>6
    <3> QED
      BY <1>4, <3>1, <3>2
  <2>5. /\ req' = [req EXCEPT ![r] = [op |-> @.op, stage |-> stage, on |-> @.on, copy |-> c]]
        /\ clients' = (IF config.inMemory THEN [clients EXCEPT ![id] = c] ELSE clients)
        /\ now' = now /\ config' = config /\ overlapped' = overlapped
        /\ storedClients' = storedClients /\ removed' = removed
    BY <2>2, <2>4 DEF Assign
  <2>6. /\ Continues(r) /\ Moves(r) /\ req'[r].stage = stage /\ req'[r].on = id
        /\ req'[r].copy = c
    <3>1. Continues(r) /\ req'[r].stage = stage
      BY <1>0, <2>1, <2>4, <2>5, AssignContinues
    <3>2. req'[r].copy = c
      BY <1>0, <2>5 DEF Shape
    <3> QED
      BY <2>2, <3>1, <3>2 DEF Continues
  <2>7. clients'[id].created = c.created
    BY <1>0, <2>3, <2>4, <2>5 DEF ClientsTyped
  <2>8. CopyOK(r)'
    BY <2>4, <2>6, <2>7 DEF CopyOK
  <2>9. CASE config.inMemory
    BY <1>0, <2>3, <2>4, <2>5, <2>6, <2>8, <2>9, ClientSaved
  <2>10. CASE ~config.inMemory
    BY <1>0, <2>5, <2>6, <2>8, <2>10, UnsavedRecent
  <2> QED
    BY <2>9, <2>10
<1>5. CASE saveChanged(r)
  <2>1. Manages(r) /\ req[r].on \in Requests /\ req[r].stage = "save" /\ InProgress(r)
    BY <1>5 DEF saveChanged, At, Manages, InProgress, RemovalInv, Targets
  <2>2. PICK c, id : c = View(r, clients) /\ id = req[r].on
    OBVIOUS
  <2>3. CopyOK(r)
    BY DEF RecentInv
  <2>4. c.created = clients[id].created /\ id \in Requests
    BY <2>1, <2>2, <2>3 DEF CopyOK, View
  <2>5. /\ clients' = [clients EXCEPT ![id] = c] /\ removed' = removed /\ GoTo(r, "respond")
        /\ storedClients' \in SavedEvicting(storedClients, id, Created(clients'))
    BY <1>5, <2>2 DEF saveChanged, SaveClient
  <2>6. Continues(r) /\ req'[r].stage = "respond" /\ config' = config /\ now' = now
    BY <1>0, <2>1, <2>5, GoToContinues
  <2>7. CopyOK(r)' /\ Moves(r)
    BY <2>6, NothingToSave DEF Continues
  <2> QED
    BY <1>0, <2>4, <2>5, <2>6, <2>7, ClientSaved
<1>6. CASE remove(r) \/ failRegistration(r) \/ respond(r) \/ loseAnswer(r)
  <2>1. InProgress(r) /\ End(r) /\ clients' = clients
    BY <1>6 DEF remove, failRegistration, respond, loseAnswer, registrationVars, At, InProgress
  <2>2. /\ Continues(r) /\ req'[r].stage = "done" /\ config' = config /\ now' = now
    BY <1>0, <2>1, EndContinues
  <2>3. CopyOK(r)' /\ Moves(r)
    BY <2>2, NothingToSave DEF Continues
  <2>4. CASE remove(r)
    <3>1. PICK on : on = req[r].on
      OBVIOUS
    <3>2. storedClients' = storedClients \ {on} /\ removed' = removed \cup {on}
      BY <2>4, <3>1 DEF remove
    <3>3. BirthsStay
      BY <1>0, <2>1 DEF BirthsStay
    <3>4. \A q \in Requests : CopyOK(q)'
      BY <2>3, <3>3, CopiesKept
    <3>5. SessionsTyped'
      BY <1>0, <2>2 DEF RecentInv, SessionsTyped
    <3>6. PICK born, left, more, stored :
            /\ born = Created(clients) /\ stored = storedClients
            /\ left = storedClients' /\ more = removed'
      OBVIOUS
    <3>7. MapOK(born, left, MaxSize - 1, more, now, config.inMemory)
      <4>1. MapOK(born, stored, MaxSize - 1, removed, now, config.inMemory)
        BY <3>6 DEF RecentInv
      <4>2. removed \subseteq more /\ left \subseteq stored /\ stored \subseteq left \cup more
        BY <3>2, <3>6
      <4> QED
        BY <1>0, <4>1, <4>2, AgedMap
    <3>8. MapOK(Created(clients), storedClients', MaxSize - 1, removed', now, config.inMemory)
      BY <3>6, <3>7
    <3> QED
      BY <1>0, <2>1, <2>2, <3>4, <3>5, <3>8 DEF RecentInv
  <2>5. CASE failRegistration(r) \/ respond(r) \/ loseAnswer(r)
    <3>1. storedClients' = storedClients /\ removed' = removed
      BY <2>5 DEF failRegistration, respond, loseAnswer, registrationVars
    <3> QED
      BY <1>0, <2>1, <2>2, <2>3, <3>1, UnsavedRecent
  <2> QED
    BY <1>6, <2>4, <2>5
<1> QED
  BY <1>1, <1>2, <1>3, <1>4, <1>5, <1>6

\* Every step of a logout.
LEMMA LogoutRecent ==
  ASSUME IsFiniteSet(Requests), RemovalInv, DeferralsInv, RecentInv,
         LogoutNext(URIs), UNCHANGED registrationVars, UNCHANGED issuanceVars
  PROVE  RecentInv'
<1>0. /\ Shape /\ clients' = clients /\ storedClients' = storedClients /\ removed' = removed
      /\ deferrals' = deferrals /\ storedDeferrals' = storedDeferrals
      /\ notifications' = notifications /\ storedNotifications' = storedNotifications
  BY DEF RemovalInv, registrationVars, issuanceVars
<1>1. PICK r \in Requests :
        \/ \E id \in Requests, uri \in URIs \cup {None} : initLogout(r, id, uri)
        \/ \E s \in Requests : continueLogout(r, s)
        \/ \E status \in {"success", "pending", "failure"} : logout(r, status)
        \/ failLogout(r) \/ redirect(r)
  BY DEF LogoutNext
<1>2. CASE \E id \in Requests, uri \in URIs \cup {None} : initLogout(r, id, uri)
  <2>1. PICK ls :
          /\ Begin(r, "logout", r, ls, "policy") /\ SaveLogoutSession(r, ls)
          /\ IsSession(ls) /\ ls.created = now
    BY <1>2 DEF initLogout, IsSession
  <2>2. /\ Moves(r) /\ req[r].stage = "idle" /\ now' = now /\ config' = config
        /\ req'[r].stage = "policy" /\ req'[r].on = r /\ req'[r].copy = ls
    BY <1>0, <2>1 DEF Begin, Moves, Shape
  <2>3. sessions'[r] = ls
    BY <2>1 DEF SaveLogoutSession, RecentInv, SessionsTyped
  <2>4. CopyOK(r)'
    BY <2>1, <2>2, <2>3 DEF CopyOK, IsSession
  <2> QED
    BY <1>0, <2>1, <2>2, <2>4, SessionSaved
<1>3. CASE \E s \in Requests : continueLogout(r, s)
  <2>1. PICK s \in Requests : continueLogout(r, s)
    BY <1>3
  <2>2. PICK ls : ls = sessions[s]
    OBVIOUS
  <2>3. /\ Begin(r, "logout", s, ls, "policy") /\ sessions' = sessions
        /\ storedSessions' = storedSessions /\ IsSession(ls)
    BY <2>1, <2>2 DEF continueLogout, logoutVars, RecentInv, SessionsTyped
  <2>4. /\ Moves(r) /\ now' = now /\ config' = config
        /\ req'[r].stage = "policy" /\ req'[r].on = s /\ req'[r].copy = ls
    BY <1>0, <2>3 DEF Begin, Moves, Shape
  <2>5. CopyOK(r)'
    BY <2>2, <2>3, <2>4 DEF CopyOK, IsSession
  <2> QED
    BY <1>0, <2>3, <2>4, <2>5, UnsavedRecent
<1>4. CASE (\E status \in {"success", "pending", "failure"} : logout(r, status))
           \/ failLogout(r) \/ redirect(r)
  <2>1. InProgress(r) /\ (GoTo(r, "redirect") \/ End(r))
    BY <1>4 DEF logout, failLogout, redirect, At, InProgress
  <2>2. Continues(r) /\ req'[r].stage \in {"redirect", "done"} /\ now' = now /\ config' = config
    BY <1>0, <2>1, GoToContinues, EndContinues
  <2>3. CopyOK(r)' /\ Moves(r)
    BY <2>2, NothingToSave DEF Continues
  <2>4. CASE \E status \in {"success", "pending", "failure"} : logout(r, status)
    <3>1. PICK status : logout(r, status)
      BY <2>4
    <3>2. CopyOK(r) /\ req[r].stage = "policy"
      BY <3>1 DEF RecentInv, logout, At
    <3>3. PICK d, id : d = View(r, sessions) /\ id = req[r].on
      OBVIOUS
    <3>4. id \in Requests /\ IsSession(d) /\ d.created = sessions[id].created
      BY <3>2, <3>3 DEF CopyOK, View, RecentInv, SessionsTyped
    <3>5. PICK ls : ls = [d EXCEPT !.status = status]
      OBVIOUS
    <3>6. IsSession(ls) /\ ls.created = d.created
      BY <3>4, <3>5 DEF IsSession
    <3>7. SaveLogoutSession(id, ls)
      BY <3>1, <3>3, <3>5 DEF logout
    <3> QED
      BY <1>0, <2>2, <2>3, <3>4, <3>6, <3>7, SessionSaved
  <2>5. CASE failLogout(r) \/ redirect(r)
    <3>1. sessions' = sessions /\ storedSessions' = storedSessions
      BY <2>5 DEF failLogout, redirect, logoutVars
    <3> QED
      BY <1>0, <2>2, <2>3, <3>1, UnsavedRecent
  <2> QED
    BY <1>4, <2>4, <2>5
<1> QED
  BY <1>1, <1>2, <1>3, <1>4

\* Every step of an issuance. Only notifications are saved once.
LEMMA IssuanceRecent ==
  ASSUME IsFiniteSet(Requests), RemovalInv, DeferralsInv, RecentInv,
         IssuanceNext, UNCHANGED registrationVars, UNCHANGED logoutVars
  PROVE  RecentInv'
<1>0. /\ Shape /\ clients' = clients /\ storedClients' = storedClients /\ removed' = removed
      /\ sessions' = sessions /\ storedSessions' = storedSessions
  BY DEF RemovalInv, registrationVars, logoutVars
<1>1. PICK r \in Requests :
        \/ \E g \in Grants : deferIssue(r, g) \/ issue(r, g)
        \/ \E d \in Requests, g \in Grants : deferredCredential(r, d, g) \/ notify(r, d, g)
        \/ stillPending(r) \/ consume(r)
        \/ issueCredentials(r) \/ saveNotification(r)
        \/ failIssuance(r) \/ answer(r) \/ failAnswer(r)
  BY DEF IssuanceNext
<1>2. CASE \E g \in Grants : deferIssue(r, g)
  <2>1. PICK d :
          /\ Begin(r, "issue", r, d, "answer") /\ SaveDeferral(r, d) /\ d.created = now
          /\ notifications' = notifications /\ storedNotifications' = storedNotifications
    BY <1>2 DEF deferIssue
  <2>2. /\ Moves(r) /\ req[r].stage = "idle" /\ now' = now /\ config' = config
        /\ req'[r].stage = "answer"
    BY <1>0, <2>1 DEF Begin, Moves, Shape
  <2>3. CopyOK(r)'
    BY <2>2, NothingToSave
  <2> QED
    BY <1>0, <2>1, <2>2, <2>3, DeferralSaved
<1>3. CASE \E g \in Grants : issue(r, g)
  <2>1. PICK d : Begin(r, "issue", None, d, "issuing") /\ UNCHANGED issuanceVars
    BY <1>3 DEF issue
  <2>2. Moves(r) /\ now' = now /\ config' = config /\ req'[r].stage = "issuing"
    BY <1>0, <2>1 DEF Begin, Moves, Shape
  <2>3. CopyOK(r)'
    BY <2>2, NothingToSave
  <2>4. /\ deferrals' = deferrals /\ storedDeferrals' = storedDeferrals
        /\ notifications' = notifications /\ storedNotifications' = storedNotifications
    BY <2>1 DEF issuanceVars
  <2> QED
    BY <1>0, <2>2, <2>3, <2>4, UnsavedRecent
<1>4. CASE \E d \in Requests, g \in Grants : deferredCredential(r, d, g)
  <2>1. PICK d \in Requests, g \in Grants : deferredCredential(r, d, g)
    BY <1>4
  <2>2. PICK x : x = deferrals[d]
    OBVIOUS
  <2>3. /\ Begin(r, "poll", d, x, "polled")
        /\ deferrals' = deferrals /\ storedDeferrals' = storedDeferrals
        /\ notifications' = notifications /\ storedNotifications' = storedNotifications
    BY <2>1, <2>2 DEF deferredCredential, issuanceVars
  <2>4. /\ Moves(r) /\ now' = now /\ config' = config
        /\ req'[r].stage = "polled" /\ req'[r].on = d /\ req'[r].copy = x
    BY <1>0, <2>3 DEF Begin, Moves, Shape
  <2>5. CopyOK(r)'
    BY <2>2, <2>3, <2>4 DEF CopyOK
  <2> QED
    BY <1>0, <2>3, <2>4, <2>5, UnsavedRecent
<1>5. CASE \E d \in Requests, g \in Grants : notify(r, d, g)
  <2>1. /\ At(r, "idle") /\ End(r)
        /\ deferrals' = deferrals /\ storedDeferrals' = storedDeferrals
        /\ notifications' = notifications /\ storedNotifications' = storedNotifications
    BY <1>5 DEF notify
  <2>2. Moves(r) /\ now' = now /\ config' = config /\ req'[r].stage = "done"
    BY <1>0, <2>1 DEF End, Arrival, Moves, Shape
  <2>3. CopyOK(r)'
    BY <2>2, NothingToSave
  <2> QED
    BY <1>0, <2>1, <2>2, <2>3, UnsavedRecent
<1>6. CASE stillPending(r) \/ consume(r)
  <2>1. /\ req[r].stage = "polled" /\ InProgress(r) /\ (GoTo(r, "answer") \/ GoTo(r, "issuing"))
        /\ notifications' = notifications /\ storedNotifications' = storedNotifications
    BY <1>6 DEF stillPending, consume, At, InProgress
  <2>2. Continues(r) /\ req'[r].stage \in {"answer", "issuing"} /\ now' = now /\ config' = config
    BY <1>0, <2>1, GoToContinues
  <2>3. CopyOK(r)' /\ Moves(r)
    BY <2>2, NothingToSave DEF Continues
  <2>4. PICK v, id : v = View(r, deferrals) /\ id = req[r].on
    OBVIOUS
  <2>5. id \in Requests /\ v \in Deferral /\ v.created = deferrals[id].created
    <3>1. CopyOK(r)
      BY DEF RecentInv
    <3>2. id \in Requests /\ req[r].copy \in Deferral /\ deferrals[id] \in Deferral
      BY <2>1, <2>4 DEF DeferralsInv, DeferralsTyped
    <3> QED
      BY <2>1, <2>4, <3>1, <3>2 DEF View, CopyOK
  <2>6. PICK c : SaveDeferral(id, c) /\ c.created = v.created
    <3>1. [v EXCEPT !.consumed = TRUE].created = v.created
      BY <2>5 DEF Deferral
    <3> QED
      BY <1>6, <2>4, <3>1 DEF stillPending, consume
  <2> QED
    BY <1>0, <2>1, <2>2, <2>3, <2>5, <2>6, DeferralSaved
<1>7. CASE saveNotification(r)
  <2>1. InProgress(r) /\ GoTo(r, "answer")
    BY <1>7 DEF saveNotification, At, InProgress
  <2>2. Continues(r) /\ req'[r].stage = "answer" /\ now' = now /\ config' = config
    BY <1>0, <2>1, GoToContinues
  <2>3. CopyOK(r)' /\ Moves(r)
    BY <2>2, NothingToSave DEF Continues
  <2>4. PICK c, time, records, after, stored, saved :
          /\ c = [grant |-> req[r].copy.grant, created |-> now] /\ time = now
          /\ records = notifications /\ after = notifications'
          /\ stored = storedNotifications /\ saved = storedNotifications'
    OBVIOUS
  <2>5. /\ c.created = time /\ time \in Nat /\ records = [l \in Requests |-> records[l]]
        /\ MapOK(Created(records), stored, MaxSize, {}, now, config.inMemory)
        /\ Created(records) \in [Requests -> 0 .. time]
    BY <2>4 DEF RecentInv, SessionsTyped, MapOK
  <2>6. /\ after = [records EXCEPT ![r] = c]
        /\ saved \in SavedKeeping(stored, r, Created(after))
        /\ deferrals' = deferrals /\ storedDeferrals' = storedDeferrals
    BY <1>7, <2>4 DEF saveNotification, Created
  <2>7. /\ \A l \in Requests \ {r} : Created(after)[l] = Created(records)[l]
        /\ Created(after) = [l \in Requests |-> Created(after)[l]]
        /\ Created(after)[r] = c.created
    <3>1. time \in Nat /\ c.created = time
      BY <2>5
    <3>2. records = [l \in Requests |-> records[l]] /\ Created(records) \in [Requests -> 0 .. time]
      BY <2>5
    <3>3. after = [records EXCEPT ![r] = c]
      BY <2>6
    <3> QED
      BY ONLY <3>1, <3>2, <3>3, r \in Requests, Births
  <2>8. MapOK(Created(after), saved, MaxSize, {}, now, config.inMemory)
    <3>1. PICK born, old : born = Created(after) /\ old = Created(records)
      OBVIOUS
    <3>2. /\ \A l \in Requests \ {r} : born[l] = old[l]
          /\ born[r] = now /\ saved \in SavedKeeping(stored, r, born) /\ now \in Nat
          /\ MapOK(old, stored, MaxSize, {}, now, config.inMemory)
          /\ born = [m \in Requests |-> born[m]]
      BY <2>4, <2>5, <2>6, <2>7, <3>1
    <3>3. MapOK(born, saved, MaxSize, {}, now, config.inMemory)
      BY <3>2, KeepingSave
    <3> QED
      BY <3>1, <3>3
  <2>9. BirthsStay
    BY <1>0, <2>6 DEF BirthsStay
  <2>10. \A q \in Requests : CopyOK(q)'
    BY <2>3, <2>9, CopiesKept
  <2>11. SessionsTyped'
    <3>1. notifications' = [k \in Requests |-> notifications'[k]]
      BY <2>4, <2>5, <2>6
    <3> QED
      BY <1>0, <2>2, <3>1 DEF RecentInv, SessionsTyped
  <2>12. MapOK(Created(notifications'), storedNotifications', MaxSize, {}, now, config.inMemory)
    BY <2>4, <2>8
  <2> QED
    BY <1>0, <2>2, <2>6, <2>10, <2>11, <2>12 DEF RecentInv, Created
<1>8. CASE issueCredentials(r) \/ failIssuance(r) \/ answer(r) \/ failAnswer(r)
  <2>1. InProgress(r) /\ (GoTo(r, "notify") \/ GoTo(r, "answer") \/ End(r))
    BY <1>8 DEF issueCredentials, failIssuance, answer, failAnswer, At, InProgress
  <2>2. /\ Continues(r) /\ req'[r].stage \in {"notify", "answer", "done"}
        /\ now' = now /\ config' = config
    BY <1>0, <2>1, GoToContinues, EndContinues
  <2>3. CopyOK(r)' /\ Moves(r)
    BY <2>2, NothingToSave DEF Continues
  <2>4. /\ deferrals' = deferrals /\ storedDeferrals' = storedDeferrals
        /\ notifications' = notifications /\ storedNotifications' = storedNotifications
    BY <1>8 DEF issueCredentials, failIssuance, answer, failAnswer, issuanceVars
  <2> QED
    BY <1>0, <2>2, <2>3, <2>4, UnsavedRecent
<1> QED
  BY <1>1, <1>2, <1>3, <1>4, <1>5, <1>6, <1>7, <1>8

\* The clock goes on, or nothing happens.
LEMMA AgeRecent ==
  ASSUME RecentInv, NEW time \in Nat, time = now', now <= time, UNCHANGED <<config, req>>,
         UNCHANGED registrationVars, UNCHANGED logoutVars, UNCHANGED issuanceVars
  PROVE  RecentInv'
<1>1. /\ clients' = clients /\ storedClients' = storedClients /\ removed' = removed
      /\ sessions' = sessions /\ storedSessions' = storedSessions
      /\ deferrals' = deferrals /\ storedDeferrals' = storedDeferrals
      /\ notifications' = notifications /\ storedNotifications' = storedNotifications
      /\ config' = config /\ req' = req
  BY DEF registrationVars, logoutVars, issuanceVars
<1>2. now \in Nat
  BY DEF RecentInv, SessionsTyped
<1>3. ASSUME NEW born, NEW stored, NEW room, NEW gone,
             MapOK(born, stored, room, gone, now, config.inMemory)
      PROVE  MapOK(born, stored, room, gone, time, config.inMemory)
  BY <1>2, <1>3 DEF MapOK
<1>4. /\ MapOK(Created(clients), storedClients, MaxSize - 1, removed, time, config.inMemory)
      /\ MapOK(Created(sessions), storedSessions, MaxSize - 1, {}, time, config.inMemory)
      /\ MapOK(Created(deferrals), storedDeferrals, MaxSize - 1, {}, time, config.inMemory)
      /\ MapOK(Created(notifications), storedNotifications, MaxSize, {}, time, config.inMemory)
  BY <1>3 DEF RecentInv
<1>5. SessionsTyped' /\ \A r \in Requests : CopyOK(r)'
  BY <1>1 DEF RecentInv, SessionsTyped, CopyOK
<1> QED
  BY <1>1, <1>4, <1>5 DEF RecentInv

\* Every step keeps the invariant of capacity.
LEMMA RecentStep ==
  ASSUME IsFiniteSet(Requests)
  PROVE  RemovalInv /\ ClientsInv /\ DeferralsInv /\ RecentInv /\ [Next]_vars => RecentInv'
<1> SUFFICES ASSUME RemovalInv, ClientsInv, DeferralsInv, RecentInv, [Next]_vars PROVE RecentInv'
  OBVIOUS
<1>1. now \in Nat
  BY DEF RecentInv, SessionsTyped
<1>2. CASE Tick /\ UNCHANGED <<registrationVars, logoutVars, issuanceVars>>
  <2>1. PICK time : time = now + 1
    OBVIOUS
  <2>2. time \in Nat /\ now <= time /\ time = now' /\ UNCHANGED <<config, req>>
    BY <1>1, <1>2, <2>1 DEF Tick
  <2> QED
    BY <1>2, <2>2, AgeRecent
<1>3. CASE UNCHANGED vars
  BY <1>1, <1>3, AgeRecent DEF vars, requestVars
<1>4. CASE RegistrationNext /\ UNCHANGED <<logoutVars, issuanceVars>>
  BY <1>4, RegistrationRecent
<1>5. CASE LogoutNext(URIs) /\ UNCHANGED <<registrationVars, issuanceVars>>
  BY <1>5, LogoutRecent
<1>6. CASE IssuanceNext /\ UNCHANGED <<registrationVars, logoutVars>>
  BY <1>6, IssuanceRecent
<1> QED
  BY <1>2, <1>3, <1>4, <1>5, <1>6 DEF Next

\* Nothing is stored at first, and nothing was created.
LEMMA InitRecent == Init => RecentInv
<1> SUFFICES ASSUME Init PROVE RecentInv
  OBVIOUS
<1>1. /\ now = 1 /\ req = [r \in Requests |-> Arrival]
      /\ clients = [r \in Requests |-> NoClient] /\ storedClients = {}
      /\ sessions = [r \in Requests |-> NoSession] /\ storedSessions = {}
      /\ deferrals = [r \in Requests |-> NoDeferral] /\ storedDeferrals = {}
      /\ notifications = [r \in Requests |-> NoNotification] /\ storedNotifications = {}
  BY DEF Init, RequestsInit, RegistrationInit, LogoutInit, IssuanceInit
<1>2. PICK none : none = [k \in Requests |-> 0]
  OBVIOUS
<1>3. /\ Created(clients) = none /\ Created(sessions) = none
      /\ Created(deferrals) = none /\ Created(notifications) = none
  BY <1>1, <1>2 DEF Created, NoClient, NoSession, NoDeferral, NoNotification
<1>4. \A room, gone : MapOK(none, {}, room, gone, now, config.inMemory)
  BY <1>1, <1>2 DEF MapOK
<1>5. IsSession(NoSession)
  BY DEF IsSession, NoSession
<1>6. SessionsTyped
  BY <1>1, <1>5 DEF SessionsTyped
<1>7. \A r \in Requests : CopyOK(r)
  BY <1>1 DEF CopyOK, Arrival
<1> QED
  BY <1>1, <1>3, <1>4, <1>6, <1>7 DEF RecentInv

\* What a caller was told exists is found by its next request, until it is
\* removed or the in-memory manager needs its place for younger records. The
\* handlers save records again, and late: removeOldest then makes room for a
\* record the map already holds, which costs the map one place and never more.
THEOREM RecentlyCreatedKept ==
  ASSUME IsFiniteSet(Requests)
  PROVE  Spec => []RecentRecordsKept
<1>1. ASSUME RecentInv PROVE RecentRecordsKept
  <2>1. ASSUME NEW records, NEW k \in Requests, NEW stored, NEW room, NEW gone, k \notin gone,
               MapOK(Created(records), stored, room, gone, now, config.inMemory),
               Recent(records, k, room)
        PROVE  k \in stored
    <3>1. \A l \in Requests : Created(records)[l] = records[l].created
      BY DEF Created
    <3>2. {l \in Requests \ {k} : Created(records)[l] >= Created(records)[k]}
            = {l \in Requests \ {k} : records[l].created >= records[k].created}
      BY <3>1
    <3> QED
      BY <2>1, <3>1, <3>2 DEF MapOK, Recent
  <2> QED
    BY <1>1, <2>1 DEF RecentInv, RecentRecordsKept
<1>2. QED
  BY <1>1, InitRecent, RecentStep, InitDeferrals, DeferralsStep, ClientsInvariant, PTL DEF Spec
=============================================================================
