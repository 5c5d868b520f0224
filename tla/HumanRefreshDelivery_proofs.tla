-------------------- MODULE HumanRefreshDelivery_proofs --------------------
(***************************************************************************)
(* Proofs about HumanRefreshDelivery: any number of tokens, requests,      *)
(* faults and ticks, and any skew and lifetimes.                           *)
(***************************************************************************)
EXTENDS HumanRefreshDelivery, TLAPS

\* The delivery of t was prepared and will not be activated any more.
Ended(t) == delivery[t].status # "unknown" /\ ~PendingNow(t)

\* The active token is the successor the client keeps once the authority has
\* activated it, and until then the client's own.
Holding ==
  /\ successor = None => active = current
  /\ successor # None =>
       active = IF delivery[successor].status = "activated" THEN successor ELSE current

\* What the client tries with its successor is justified by the authority.
PhaseOK ==
  /\ successor = None <=> phase = "idle"
  /\ phase = "activate" => delivery[successor].status # "unknown"
  /\ phase = "recover" => delivery[successor].status = "activated"

\* An activation on its way to the authority is about a prepared delivery, and
\* activates only the successor the client still keeps.
SentOK(r) ==
  /\ pc[r] = "call" /\ req[r].op = "activate" =>
       /\ delivery[req[r].token].status # "unknown"
       /\ req[r].token # successor => Ended(req[r].token)
  /\ pc[r] # "idle" /\ req[r].op = "abort" /\ req[r].token = successor =>
       phase \in {"abort", "recover"}

\* A decision still agrees with the authority's store when it is reported.
DecidedOK(r) ==
  LET status == delivery[req[r].token].status
      outcome == decision[r].outcome IN
  pc[r] = "decided" =>
    /\ outcome \in {"activated", "activated_conflict"} => status = "activated"
    /\ outcome = "aborted" => status = "aborted"
    /\ outcome = "delivery_pending" => status # "unknown"
    /\ req[r].op = "activate" => outcome \in {"activated", "rejected"}
    /\ req[r].op = "abort" => outcome \in {"aborted", "activated_conflict", "rejected"}

\* A refused abort of the client's successor is final: no activation is on its
\* way that could still succeed, and the client sends none.
RefusedOK(r) ==
  pc[r] = "decided" /\ req[r].op = "abort" /\ req[r].token = successor
    /\ decision[r].outcome = "rejected" =>
       /\ delivery[successor].status # "activated"
       /\ \/ Ended(successor)
          \/ /\ phase = "abort"
             /\ \A s \in Requests :
                  ~(pc[s] = "call" /\ req[s].op = "activate" /\ req[s].token = successor)

\* A token the client sends for revocation was the active one of the family, an
\* acknowledgement means that the family is revoked, and a request sent after
\* it finds the family revoked.
WasActive(t) == t = First \/ delivery[t].status = "activated"
RevocationOK ==
  /\ WasActive(current)
  /\ acked => revoked
  /\ \A r \in Requests :
       /\ pc[r] # "idle" /\ req[r].op = "revoke" => WasActive(req[r].token)
       /\ pc[r] = "decided" /\ req[r].op = "revoke" => revoked
       /\ pc[r] # "idle" /\ req[r].late => revoked
       /\ pc[r] = "decided" /\ req[r].late => decision[r].outcome # "activated"

Typed == TypeOK /\ drift \in -Skew..Skew

Inv ==
  /\ Typed
  /\ Holding
  /\ PhaseOK
  /\ \A r \in Requests : SentOK(r) /\ DecidedOK(r) /\ RefusedOK(r)
  /\ RevocationOK

-----------------------------------------------------------------------------
(* What a call of the authority does, whichever it is. *)

\* The step of the authority for r, about the successor t: a delivery that has
\* ended stays as it is, only an activation changes the active token, and the
\* decision says what the store says.
Transition(r, t) ==
  /\ delivery' \in [Tokens -> Delivery] /\ active' \in Tokens /\ revoked' \in BOOLEAN
  /\ decision' \in [Requests -> Decision]
  /\ \A s \in Requests \ {r} : decision'[s] = decision[s]
  /\ \A u \in Tokens \ {t} : delivery'[u] = delivery[u]
  /\ Ended(t) => delivery'[t] = delivery[t]
  /\ delivery[t].status # "unknown" => delivery'[t].status # "unknown"
  /\ \/ /\ delivery[t].status = "activated" <=> delivery'[t].status = "activated"
        /\ active' = active
     \/ /\ req[r].op = "activate" /\ PendingNow(t)
        /\ delivery'[t].status = "activated" /\ active' = t
  /\ revoked => revoked' /\ decision'[r].outcome # "activated"
  /\ req[r].op = "revoke" /\ WasActive(t) => revoked'
  /\ LET outcome == decision'[r].outcome
         status == delivery'[t].status IN
     /\ outcome \in {"activated", "activated_conflict"} => status = "activated"
     /\ outcome = "aborted" => status = "aborted"
     /\ outcome = "delivery_pending" => status # "unknown"
     /\ req[r].op = "activate" => outcome \in {"activated", "rejected"}
     /\ req[r].op = "abort" =>
          /\ outcome \in {"aborted", "activated_conflict", "rejected"}
          /\ outcome = "rejected" => /\ delivery' = delivery /\ ~PendingNow(t)
                                     /\ status # "activated"

\* A decision of the authority is well typed.
LEMMA DecisionTyped ==
  ASSUME NEW r \in Requests, decision \in [Requests -> Decision],
         NEW d \in Decision, Decide(r, d)
  PROVE  /\ decision' \in [Requests -> Decision] /\ decision'[r] = d
         /\ \A s \in Requests \ {r} : decision'[s] = decision[s]
  BY DEF Decide

\* The decisions the authority can make are well typed.
LEMMA DecidedTyped ==
  /\ \A outcome \in {"none", "rejected", "delivery_pending", "activated", "aborted",
                     "activated_conflict", "revoked"} :
       /\ Outcome(outcome) \in Decision /\ Outcome(outcome).outcome = outcome
       /\ \A created, life \in Nat :
            /\ Decided(outcome, created, life) \in Decision
            /\ Decided(outcome, created, life).outcome = outcome
  /\ Rejected \in Decision /\ Rejected.outcome = "rejected"
  BY DEF Outcome, Undecided, Decision, Decided, Rejected

\* PrepareHumanRefreshDelivery stores a pending delivery or reports one.
LEMMA PrepareTransition ==
  ASSUME Typed, NEW r \in Requests, NEW p \in Tokens, NEW t \in Tokens,
         req[r].op = "prepare", PrepareHumanRefreshDelivery(r, p, t)
  PROVE  Transition(r, t)
<1> USE DeliveryAssumption
<1>1. CASE /\ delivery[t].pred = p
           /\ Decide(r, IF revoked THEN Rejected ELSE Replayed(t))
           /\ UNCHANGED authority
  <2> DEFINE d == IF revoked THEN Rejected ELSE Replayed(t)
  <2>1. /\ d \in Decision
        /\ revoked => d.outcome = "rejected"
        /\ d.outcome \in {"rejected", "delivery_pending", "activated", "aborted"}
        /\ d.outcome = "activated" => delivery[t].status = "activated"
        /\ d.outcome = "aborted" => delivery[t].status = "aborted"
        /\ d.outcome = "delivery_pending" => delivery[t].status # "unknown"
    <3>1. delivery[t].created \in Nat /\ PendingLife \in Nat
      BY DEF Typed, TypeOK, Delivery
    <3> DEFINE replay(outcome) == Decided(outcome, delivery[t].created, PendingLife)
    <3>2. \A outcome \in {"delivery_pending", "activated", "aborted"} :
            replay(outcome) \in Decision /\ replay(outcome).outcome = outcome
      BY <3>1, DecidedTyped
    <3>3. \/ Replayed(t) = replay("delivery_pending") /\ delivery[t].status = "pending"
          \/ Replayed(t) = replay("activated") /\ delivery[t].status = "activated"
          \/ Replayed(t) = replay("aborted") /\ delivery[t].status = "aborted"
          \/ Replayed(t) = Rejected
      BY DEF Replayed, PendingNow
    <3> HIDE DEF replay
    <3>4. QED
      BY <3>2, <3>3, DecidedTyped
  <2> HIDE DEF d
  <2>2. Decide(r, d)
    BY <1>1 DEF d
  <2>3. QED
    BY <1>1, <2>1, <2>2, DecisionTyped DEF Transition, Typed, TypeOK, authority
<1>2. CASE /\ delivery[t].status = "unknown" /\ Live /\ p = active
           /\ delivery' = [delivery EXCEPT ![t] = [status |-> "pending", pred |-> p, created |-> now]]
           /\ Decide(r, Decided("delivery_pending", now, PendingLife))
           /\ UNCHANGED <<active, revoked>>
  <2> DEFINE d == Decided("delivery_pending", now, PendingLife)
  <2>1. d \in Decision /\ d.outcome = "delivery_pending"
    BY DecidedTyped DEF Typed, TypeOK
  <2> HIDE DEF d
  <2>2. Decide(r, d)
    BY <1>2 DEF d
  <2>3. [status |-> "pending", pred |-> p, created |-> now] \in Delivery
    BY DEF Delivery, Statuses, Typed, TypeOK
  <2>4. /\ delivery' \in [Tokens -> Delivery] /\ delivery'[t].status = "pending"
        /\ \A u \in Tokens \ {t} : delivery'[u] = delivery[u]
    BY <1>2, <2>3 DEF Typed, TypeOK
  <2>5. ~revoked
    BY <1>2 DEF Live
  <2>6. QED
    BY <1>2, <2>1, <2>2, <2>4, <2>5, DecisionTyped DEF Transition, Typed, TypeOK, Ended
<1>3. CASE Decide(r, Rejected) /\ UNCHANGED authority
  <2>1. Rejected \in Decision /\ Rejected.outcome = "rejected"
    BY DecidedTyped
  <2>2. QED
    BY <1>3, <2>1, DecisionTyped DEF Transition, Typed, TypeOK, authority
<1>4. QED
  BY <1>1, <1>2, <1>3 DEF PrepareHumanRefreshDelivery

\* ActivateHumanRefreshDelivery promotes a pending successor, or repeats it.
LEMMA ActivateTransition ==
  ASSUME Typed, NEW r \in Requests, NEW t \in Tokens,
         req[r].op = "activate", ActivateHumanRefreshDelivery(r, t)
  PROVE  Transition(r, t)
<1> USE DeliveryAssumption
<1> DEFINE d == Decided("activated", now, DecisionLife)
<1>1. d \in Decision /\ d.outcome = "activated"
  BY DecidedTyped DEF Typed, TypeOK
<1> HIDE DEF d
<1>2. CASE /\ Live /\ PendingNow(t) /\ delivery[t].pred = active
           /\ active' = t
           /\ delivery' = [delivery EXCEPT ![t].status = "activated"]
           /\ Decide(r, d)
           /\ UNCHANGED revoked
  <2>1. /\ delivery' \in [Tokens -> Delivery] /\ delivery'[t].status = "activated"
        /\ \A u \in Tokens \ {t} : delivery'[u] = delivery[u]
    BY <1>2 DEF Typed, TypeOK, Delivery, Statuses
  <2>2. ~revoked
    BY <1>2 DEF Live
  <2>3. QED
    BY <1>1, <1>2, <2>1, <2>2, DecisionTyped DEF Transition, Typed, TypeOK, Ended
<1>3. CASE /\ Live /\ delivery[t].status = "activated" /\ active = t
           /\ Decide(r, d) /\ UNCHANGED authority
  <2>1. ~revoked
    BY <1>3 DEF Live
  <2>2. QED
    BY <1>1, <1>3, <2>1, DecisionTyped DEF Transition, Typed, TypeOK, authority
<1>4. CASE Decide(r, Rejected) /\ UNCHANGED authority
  <2>1. Rejected \in Decision /\ Rejected.outcome = "rejected"
    BY DecidedTyped
  <2>2. QED
    BY <1>4, <2>1, DecisionTyped DEF Transition, Typed, TypeOK, authority
<1>5. QED
  BY <1>2, <1>3, <1>4 DEF ActivateHumanRefreshDelivery, d

\* AbortHumanRefreshDelivery abandons a pending successor and nothing else.
LEMMA AbortTransition ==
  ASSUME Typed, NEW r \in Requests, NEW t \in Tokens,
         req[r].op = "abort", AbortHumanRefreshDelivery(r, t)
  PROVE  Transition(r, t)
<1> USE DeliveryAssumption
<1>1. CASE /\ PendingNow(t)
           /\ delivery' = [delivery EXCEPT ![t].status = "aborted"]
           /\ Decide(r, Outcome("aborted"))
           /\ UNCHANGED <<active, revoked>>
  <2>1. /\ delivery' \in [Tokens -> Delivery] /\ delivery'[t].status = "aborted"
        /\ \A u \in Tokens \ {t} : delivery'[u] = delivery[u]
    BY <1>1 DEF Typed, TypeOK, Delivery, Statuses
  <2>2. Outcome("aborted") \in Decision /\ Outcome("aborted").outcome = "aborted"
    BY DecidedTyped
  <2>3. delivery[t].status = "pending"
    BY <1>1 DEF PendingNow
  <2>4. QED
    BY <1>1, <2>1, <2>2, <2>3, DecisionTyped DEF Transition, Typed, TypeOK, Ended
<1>2. CASE /\ ~PendingNow(t)
           /\ Decide(r, CASE delivery[t].status = "activated" -> Outcome("activated_conflict")
                          [] delivery[t].status = "aborted" -> Outcome("aborted")
                          [] OTHER -> Rejected)
           /\ UNCHANGED authority
  <2> DEFINE d == CASE delivery[t].status = "activated" -> Outcome("activated_conflict")
                    [] delivery[t].status = "aborted" -> Outcome("aborted")
                    [] OTHER -> Rejected
  <2>1. /\ d \in Decision
        /\ d.outcome \in {"aborted", "activated_conflict", "rejected"}
        /\ d.outcome = "activated_conflict" <=> delivery[t].status = "activated"
        /\ d.outcome = "aborted" => delivery[t].status = "aborted"
    BY DecidedTyped
  <2> HIDE DEF d
  <2>2. Decide(r, d)
    BY <1>2 DEF d
  <2>3. QED
    BY <1>2, <2>1, <2>2, DecisionTyped DEF Transition, Typed, TypeOK, authority
<1>3. QED
  BY <1>1, <1>2 DEF AbortHumanRefreshDelivery

\* RevokeRefreshToken touches nothing but the family.
LEMMA RevokeTransition ==
  ASSUME Typed, NEW r \in Requests, NEW t \in Tokens,
         req[r].op = "revoke", RevokeRefreshToken(r, t)
  PROVE  Transition(r, t)
<1>1. Outcome("revoked") \in Decision /\ Outcome("revoked").outcome = "revoked"
  BY DecidedTyped
<1>2. /\ revoked' \in BOOLEAN /\ (revoked => revoked')
      /\ WasActive(t) => revoked'
  BY Zenon DEF RevokeRefreshToken, WasActive
<1>3. Decide(r, Outcome("revoked")) /\ active' = active /\ delivery' = delivery
  BY DEF RevokeRefreshToken
<1>4. QED
  BY <1>1, <1>2, <1>3, DecisionTyped DEF Transition, Typed, TypeOK

\* Every call of the authority makes one transition of the delivery it names.
LEMMA CallTransition ==
  ASSUME Typed, NEW r \in Requests, AuthorityCall(r)
  PROVE  Transition(r, req[r].token)
<1>1. req[r].pred \in Tokens /\ req[r].token \in Tokens
  BY DEF Typed, TypeOK, Request
<1>2. QED
  BY <1>1, PrepareTransition, ActivateTransition, AbortTransition, RevokeTransition
  DEF AuthorityCall
-----------------------------------------------------------------------------
(* One step per action. *)

\* PendingNow and Ended depend on the clock and the delivery alone.
LEMMA EndedStays ==
  ASSUME Typed, NEW t \in Tokens, now' \in Nat, now' >= now,
         delivery'[t] = delivery[t], Ended(t)
  PROVE  Ended(t)'
  BY DeliveryAssumption DEF Ended, PendingNow, Typed, TypeOK, Delivery

\* The client begins with a successor the authority has not seen.
LEMMA BeginStep == Inv /\ Begin => Inv'
<1> SUFFICES ASSUME Inv, Begin PROVE Inv'
  OBVIOUS
<1> USE DEF Inv
<1>1. PICK t \in Tokens :
        /\ delivery[t].status = "unknown"
        /\ \A r \in Requests : pc[r] # "idle" => req[r].token # t
        /\ successor' = t
  BY DEF Begin
<1>2. /\ successor = None /\ phase' = "prepare" /\ t # None
      /\ UNCHANGED <<now, drift, active, delivery, revoked, current, acked, pc, req, decision, faults>>
  BY DeliveryAssumption DEF Begin, authority, handlers
<1>3. Typed'
  BY <1>1, <1>2 DEF Typed, TypeOK, Phases
<1>4. Holding' /\ PhaseOK'
  BY <1>1, <1>2 DEF Holding, PhaseOK
<1>5. ASSUME NEW r \in Requests PROVE SentOK(r)' /\ DecidedOK(r)' /\ RefusedOK(r)'
  <2>1. SentOK(r)'
    <3>1. pc[r] # "idle" => req[r].token # None
      BY DeliveryAssumption DEF Typed, TypeOK, Request
    <3>2. QED
      BY <1>1, <1>2, <3>1 DEF SentOK, Ended, PendingNow
  <2>2. DecidedOK(r)'
    BY <1>2 DEF DecidedOK
  <2>3. RefusedOK(r)'
    BY <1>1, <1>2 DEF RefusedOK
  <2>4. QED
    BY <2>1, <2>2, <2>3
<1>6. RevocationOK'
  BY <1>2 DEF RevocationOK, WasActive
<1>7. QED
  BY <1>3, <1>4, <1>5, <1>6

\* The client gives up.
LEMMA GiveUpStep == Inv /\ GiveUp => Inv'
<1> SUFFICES ASSUME Inv, GiveUp PROVE Inv'
  OBVIOUS
<1> USE DEF Inv
<1>1. /\ phase \in {"prepare", "activate"} /\ phase' = "abort"
      /\ UNCHANGED <<now, drift, active, delivery, revoked, current, successor, acked,
                     pc, req, decision, faults>>
  BY DEF GiveUp, authority, handlers
<1>2. Typed' /\ Holding' /\ PhaseOK' /\ RevocationOK'
  BY <1>1 DEF Typed, TypeOK, Phases, Holding, PhaseOK, RevocationOK, WasActive
<1>3. ASSUME NEW r \in Requests PROVE SentOK(r)' /\ DecidedOK(r)' /\ RefusedOK(r)'
  BY <1>1 DEF SentOK, DecidedOK, RefusedOK, Ended, PendingNow
<1>4. QED
  BY <1>2, <1>3

\* Time passes: what has ended stays so.
LEMMA TickStep == Inv /\ Tick => Inv'
<1> SUFFICES ASSUME Inv, Tick PROVE Inv'
  OBVIOUS
<1> USE DEF Inv
<1>1. /\ now' = now + 1
      /\ UNCHANGED <<drift, active, delivery, revoked, current, successor, phase, acked,
                     pc, req, decision, faults>>
  BY DEF Tick, authority, client, handlers
<1>2. Typed' /\ Holding' /\ PhaseOK' /\ RevocationOK'
  BY <1>1 DEF Typed, TypeOK, Holding, PhaseOK, RevocationOK, WasActive
<1>3. \A t \in Tokens : Ended(t) => Ended(t)'
  BY <1>1, EndedStays DEF Typed, TypeOK
<1>4. ASSUME NEW r \in Requests PROVE SentOK(r)' /\ DecidedOK(r)' /\ RefusedOK(r)'
  <2>1. req[r].token \in Tokens
    BY DEF Typed, TypeOK, Request
  <2>2. QED
    BY <1>1, <1>3, <2>1 DEF SentOK, DecidedOK, RefusedOK
<1>5. QED
  BY <1>2, <1>4

\* The client sends the request of its phase.
LEMMA SendStep == ASSUME NEW r \in Requests PROVE Inv /\ Send(r) => Inv'
<1> SUFFICES ASSUME Inv, Send(r) PROVE Inv'
  OBVIOUS
<1> USE DEF Inv
<1> DEFINE q == [op |-> OperationOf(phase), pred |-> current, token |-> successor, late |-> acked]
<1>1. /\ pc[r] = "idle" /\ successor # None
      /\ pc' = [pc EXCEPT ![r] = "call"] /\ req' = [req EXCEPT ![r] = q]
      /\ UNCHANGED <<now, drift, active, delivery, revoked, current, successor, phase, acked,
                     decision, faults>>
  BY DEF Send, authority, client
<1>2. /\ q \in Request /\ q.op = OperationOf(phase) /\ q.token = successor /\ (q.late <=> acked)
      /\ q.op # "revoke"
  BY <1>1 DEF Request, Operations, OperationOf, PhaseOK, Phases, Typed, TypeOK
<1>3. q.op = "activate" => delivery[successor].status # "unknown" /\ phase \in {"activate", "recover"}
  BY DEF PhaseOK, OperationOf
<1>4. q.op = "abort" => phase = "abort"
  BY DEF OperationOf
<1> HIDE DEF q
<1>5. /\ Typed' /\ pc'[r] = "call" /\ req'[r] = q
      /\ \A s \in Requests \ {r} : pc'[s] = pc[s] /\ req'[s] = req[s]
  BY <1>1, <1>2 DEF Typed, TypeOK
<1>6. Holding' /\ PhaseOK'
  BY <1>1 DEF Holding, PhaseOK
<1>7. ASSUME NEW s \in Requests PROVE SentOK(s)' /\ DecidedOK(s)' /\ RefusedOK(s)'
  <2>1. SentOK(s)'
    BY <1>1, <1>2, <1>3, <1>4, <1>5 DEF SentOK, Ended, PendingNow
  <2>2. DecidedOK(s)'
    BY <1>1, <1>5 DEF DecidedOK
  <2>3. RefusedOK(s)'
    BY <1>1, <1>2, <1>3, <1>5 DEF RefusedOK, Ended, PendingNow, PhaseOK
  <2>4. QED
    BY <2>1, <2>2, <2>3
<1>8. RevocationOK'
  BY <1>1, <1>2, <1>5 DEF RevocationOK, WasActive
<1>9. QED
  BY <1>5, <1>6, <1>7, <1>8

\* The client logs out.
LEMMA SendRevokeStep == ASSUME NEW r \in Requests PROVE Inv /\ SendRevoke(r) => Inv'
<1> SUFFICES ASSUME Inv, SendRevoke(r) PROVE Inv'
  OBVIOUS
<1> USE DEF Inv
<1> DEFINE q == [op |-> "revoke", pred |-> current, token |-> current, late |-> acked]
<1>1. /\ pc[r] = "idle"
      /\ pc' = [pc EXCEPT ![r] = "call"] /\ req' = [req EXCEPT ![r] = q]
      /\ UNCHANGED <<now, drift, active, delivery, revoked, current, successor, phase, acked,
                     decision, faults>>
  BY DEF SendRevoke, authority, client
<1>2. q \in Request /\ q.op = "revoke" /\ q.token = current /\ (q.late <=> acked)
  BY DEF Request, Operations, Typed, TypeOK
<1> HIDE DEF q
<1>3. /\ Typed' /\ pc'[r] = "call" /\ req'[r] = q
      /\ \A s \in Requests \ {r} : pc'[s] = pc[s] /\ req'[s] = req[s]
  BY <1>1, <1>2 DEF Typed, TypeOK
<1>4. Holding' /\ PhaseOK'
  BY <1>1 DEF Holding, PhaseOK
<1>5. ASSUME NEW s \in Requests PROVE SentOK(s)' /\ DecidedOK(s)' /\ RefusedOK(s)'
  BY <1>1, <1>2, <1>3 DEF SentOK, DecidedOK, RefusedOK, Ended, PendingNow
<1>6. RevocationOK'
  BY <1>1, <1>2, <1>3 DEF RevocationOK, WasActive
<1>7. QED
  BY <1>3, <1>4, <1>5, <1>6
\* The authority decides (Call).
LEMMA CallStep == ASSUME NEW r \in Requests PROVE Inv /\ Call(r) => Inv'
<1> SUFFICES ASSUME Inv, Call(r) PROVE Inv'
  OBVIOUS
<1> USE DEF Inv
<1> DEFINE t == req[r].token
<1>1. t \in Tokens /\ t # None
  BY DeliveryAssumption DEF Typed, TypeOK, Request
<1>2. /\ pc[r] = "call" /\ pc' = [pc EXCEPT ![r] = "decided"]
      /\ Transition(r, t)
      /\ UNCHANGED <<now, drift, current, successor, phase, acked, req, faults>>
  BY CallTransition DEF Call, client
<1> HIDE DEF t
<1>3. /\ pc' \in [Requests -> {"idle", "call", "decided"}] /\ pc'[r] = "decided"
      /\ \A s \in Requests \ {r} : pc'[s] = pc[s]
  BY <1>2 DEF Typed, TypeOK
<1>4. Typed'
  BY <1>2, <1>3 DEF Typed, TypeOK, Transition
<1>5. /\ \A u \in Tokens : delivery[u].status # "unknown" => delivery'[u].status # "unknown"
      /\ \A u \in Tokens : delivery[u].status = "activated" => delivery'[u].status = "activated"
      /\ \A u \in Tokens : delivery[u].status \in {"activated", "aborted"} => delivery'[u] = delivery[u]
  BY <1>1, <1>2 DEF Transition, Ended, PendingNow
<1>6. \A u \in Tokens : Ended(u) => Ended(u)'
  BY <1>1, <1>2 DEF Transition, Ended, PendingNow
<1>7. ASSUME delivery[t].status # "activated", delivery'[t].status = "activated"
      PROVE  t = successor /\ active' = t
  BY <1>1, <1>2, <1>7 DEF Transition, SentOK, Ended, PendingNow, t
<1>8. ASSUME delivery[t].status = "activated" <=> delivery'[t].status = "activated"
      PROVE  active' = active
  BY <1>1, <1>2, <1>8 DEF Transition, PendingNow
<1>9. \A u \in Tokens \ {t} : delivery'[u] = delivery[u]
  BY <1>2 DEF Transition
<1>10. successor \in Tokens \cup {None}
  BY DEF Typed, TypeOK
<1>11. Holding'
  BY <1>1, <1>2, <1>5, <1>7, <1>8, <1>9, <1>10 DEF Holding
<1>12. PhaseOK'
  BY <1>2, <1>5, <1>10 DEF PhaseOK
<1>13. ASSUME NEW s \in Requests PROVE SentOK(s)' /\ DecidedOK(s)' /\ RefusedOK(s)'
  <2>1. req[s].token \in Tokens /\ (s # r => pc'[s] = pc[s] /\ decision'[s] = decision[s])
    BY <1>2, <1>3 DEF Typed, TypeOK, Request, Transition
  <2>2. SentOK(s)'
    BY <1>2, <1>3, <1>5, <1>6, <2>1 DEF SentOK
  <2>3. DecidedOK(s)'
    <3>1. CASE s = r
      BY <1>2, <1>3, <3>1 DEF DecidedOK, Transition, t
    <3>2. CASE s # r
      BY <1>2, <1>5, <2>1, <3>2 DEF DecidedOK
    <3>3. QED
      BY <3>1, <3>2
  <2>4. RefusedOK(s)'
    <3>1. SUFFICES ASSUME pc'[s] = "decided", req[s].op = "abort", req[s].token = successor,
                          decision'[s].outcome = "rejected"
                   PROVE  RefusedOK(s)'
      BY <1>2 DEF RefusedOK
    <3>2. successor # None /\ successor \in Tokens
      BY <2>1, <3>1, DeliveryAssumption
    <3>3. CASE s = r
      <4>1. /\ delivery' = delivery /\ delivery[successor].status # "activated"
            /\ ~PendingNow(successor)
        BY <1>2, <3>1, <3>3 DEF Transition, t
      <4>2. phase \in {"abort", "recover"}
        BY <1>2, <3>1, <3>3 DEF SentOK
      <4>3. phase = "abort"
        BY <4>1, <4>2 DEF PhaseOK
      <4>4. CASE delivery[successor].status # "unknown"
        BY <1>2, <3>2, <4>1, <4>4, <1>6 DEF RefusedOK, Ended
      <4>5. CASE delivery[successor].status = "unknown"
        <5>1. \A q \in Requests :
                ~(pc'[q] = "call" /\ req[q].op = "activate" /\ req[q].token = successor)
          BY <1>3, <4>5 DEF SentOK
        <5>2. QED
          BY <1>2, <4>1, <4>3, <5>1 DEF RefusedOK
      <4>6. QED
        BY <4>4, <4>5
    <3>4. CASE s # r
      <4>1. RefusedOK(s)
        OBVIOUS
      <4>2. pc[s] = "decided" /\ decision[s].outcome = "rejected"
        BY <2>1, <3>1, <3>4
      <4>3. delivery[successor].status # "activated"
        BY <3>1, <4>1, <4>2 DEF RefusedOK
      <4>4. CASE Ended(successor)
        <5>1. delivery'[successor] = delivery[successor]
          BY <1>2, <3>2, <4>4 DEF Transition
        <5>2. QED
          BY <1>2, <1>6, <3>2, <4>3, <4>4, <5>1 DEF RefusedOK
      <4>5. CASE /\ phase = "abort"
                 /\ \A q \in Requests :
                      ~(pc[q] = "call" /\ req[q].op = "activate" /\ req[q].token = successor)
        <5>1. delivery'[successor].status # "activated"
          BY <1>2, <1>9, <3>2, <4>3, <4>5 DEF Transition, t
        <5>2. \A q \in Requests :
                ~(pc'[q] = "call" /\ req[q].op = "activate" /\ req[q].token = successor)
          BY <1>3, <4>5
        <5>3. QED
          BY <1>2, <4>5, <5>1, <5>2 DEF RefusedOK
      <4>6. QED
        BY <3>1, <4>1, <4>2, <4>4, <4>5 DEF RefusedOK
    <3>5. QED
      BY <3>3, <3>4
  <2>5. QED
    BY <2>2, <2>3, <2>4
<1>14. RevocationOK'
  <2>1. WasActive(current)' /\ (acked => revoked)'
    BY <1>2, <1>5 DEF RevocationOK, WasActive, Typed, TypeOK, Transition
  <2>2. ASSUME NEW s \in Requests
        PROVE  /\ pc'[s] # "idle" /\ req'[s].op = "revoke" => WasActive(req[s].token)'
               /\ pc'[s] = "decided" /\ req'[s].op = "revoke" => revoked'
               /\ pc'[s] # "idle" /\ req'[s].late => revoked'
               /\ pc'[s] = "decided" /\ req'[s].late => decision'[s].outcome # "activated"
    <3>1. req[s].token \in Tokens /\ (s # r => pc'[s] = pc[s] /\ decision'[s] = decision[s])
      BY <1>2, <1>3 DEF Typed, TypeOK, Request, Transition
    <3>2. CASE s = r
      BY <1>1, <1>2, <1>3, <1>5, <3>2 DEF RevocationOK, WasActive, Transition, t
    <3>3. CASE s # r
      BY <1>2, <1>5, <3>1, <3>3 DEF RevocationOK, WasActive, Transition
    <3>4. QED
      BY <3>2, <3>3
  <2>3. QED
    BY <1>2, <2>1, <2>2 DEF RevocationOK, WasActive
<1>15. QED
  BY <1>4, <1>11, <1>12, <1>13, <1>14

\* A goroutine that returns is idle and leaves the others alone.
LEMMA Returned ==
  ASSUME Typed, NEW r \in Requests, Return(r)
  PROVE  /\ pc' \in [Requests -> {"idle", "call", "decided"}] /\ req' \in [Requests -> Request]
         /\ decision' \in [Requests -> Decision] /\ pc'[r] = "idle"
         /\ \A s \in Requests \ {r} :
              pc'[s] = pc[s] /\ req'[s] = req[s] /\ decision'[s] = decision[s]
<1>1. NoRequest \in Request /\ Undecided \in Decision
  BY DeliveryAssumption DEF NoRequest, Request, Operations, Undecided, Decision
<1>2. QED
  BY <1>1 DEF Return, Decide, Typed, TypeOK

\* A failure before or after the authority's decision is told to nobody.
LEMMA FailureStep ==
  ASSUME NEW r \in Requests PROVE Inv /\ (CallFails(r) \/ RespondFails(r)) => Inv'
<1> SUFFICES ASSUME Inv, CallFails(r) \/ RespondFails(r) PROVE Inv'
  OBVIOUS
<1> USE DEF Inv
<1>1. /\ Return(r) /\ faults' = faults + 1
      /\ UNCHANGED <<now, drift, active, delivery, revoked, current, successor, phase, acked>>
  BY DEF CallFails, RespondFails, Fault, authority, client
<1>2. /\ pc' \in [Requests -> {"idle", "call", "decided"}] /\ req' \in [Requests -> Request]
      /\ decision' \in [Requests -> Decision] /\ pc'[r] = "idle"
      /\ \A s \in Requests \ {r} :
           pc'[s] = pc[s] /\ req'[s] = req[s] /\ decision'[s] = decision[s]
  BY <1>1, Returned
<1>3. Typed' /\ Holding' /\ PhaseOK'
  BY <1>1, <1>2 DEF Typed, TypeOK, Holding, PhaseOK
<1>4. ASSUME NEW s \in Requests PROVE SentOK(s)' /\ DecidedOK(s)' /\ RefusedOK(s)'
  BY <1>1, <1>2 DEF SentOK, DecidedOK, RefusedOK, Ended, PendingNow
<1>5. RevocationOK'
  BY <1>1, <1>2 DEF RevocationOK, WasActive
<1>6. QED
  BY <1>3, <1>4, <1>5

\* What the client is told follows from the decision.
LEMMA AnswerFollows ==
  ASSUME NEW r \in Requests, Typed, DecidedOK(r), pc[r] = "decided", req[r].op # "revoke",
         NEW answer, answer = Answer(req[r], decision[r])
  PROVE  /\ answer = "tokens" => decision[r].outcome = "activated"
         /\ answer \in {"aborted", "activated", "activated_conflict", "delivery_pending"} =>
              decision[r].outcome = answer
         /\ answer = "invalid_grant" => decision[r].outcome = "rejected"
<1>1. req[r].op \in {"prepare", "activate", "abort"}
  BY DEF Typed, TypeOK, Request, Operations
<1>2. decision[r].outcome \in {"none", "rejected", "delivery_pending", "activated",
                               "aborted", "activated_conflict", "revoked"}
  BY DEF Typed, TypeOK, Decision
<1>3. CASE req[r].op = "prepare"
  <2>1. answer = PrepareAnswer(decision[r])
    BY <1>3 DEF Answer
  <2>2. QED
    BY <1>2, <2>1 DEF PrepareAnswer
<1>4. CASE req[r].op = "activate"
  <2>1. answer = ActivateAnswer(decision[r])
    BY <1>4 DEF Answer
  <2>2. QED
    BY <1>2, <1>4, <2>1 DEF ActivateAnswer, DecidedOK
<1>5. CASE req[r].op = "abort"
  <2>1. answer = AbortAnswer(decision[r])
    BY <1>5 DEF Answer
  <2>2. QED
    BY <1>2, <1>5, <2>1 DEF AbortAnswer, DecidedOK
<1>6. QED
  BY <1>1, <1>3, <1>4, <1>5

\* The client is told the answer (Respond): it settles only what is settled in
\* the authority's store.
LEMMA RespondStep == ASSUME NEW r \in Requests PROVE Inv /\ Respond(r) => Inv'
<1> SUFFICES ASSUME Inv, Respond(r) PROVE Inv'
  OBVIOUS
<1> USE DEF Inv
<1> DEFINE answer == Answer(req[r], decision[r])
<1>1. /\ pc[r] = "decided" /\ Return(r) /\ Receive(req[r], answer)
      /\ UNCHANGED <<now, drift, active, delivery, revoked, faults>>
  BY DEF Respond, authority
<1>2. /\ pc' \in [Requests -> {"idle", "call", "decided"}] /\ req' \in [Requests -> Request]
      /\ decision' \in [Requests -> Decision] /\ pc'[r] = "idle"
      /\ \A s \in Requests \ {r} :
           pc'[s] = pc[s] /\ req'[s] = req[s] /\ decision'[s] = decision[s]
  BY <1>1, Returned
<1>3. \A t : Ended(t) <=> Ended(t)'
  BY <1>1 DEF Ended, PendingNow
<1>4. \A s \in Requests : DecidedOK(s)'
  BY <1>1, <1>2 DEF DecidedOK
<1>5. req[r].token \in Tokens /\ None \notin Tokens
  BY DeliveryAssumption DEF Typed, TypeOK, Request
<1>6. CASE req[r].op = "revoke"
  <2>1. acked' = TRUE /\ UNCHANGED <<current, successor, phase>>
    BY <1>1, <1>6 DEF Receive
  <2>2. Typed' /\ Holding' /\ PhaseOK'
    BY <1>1, <1>2, <2>1 DEF Typed, TypeOK, Holding, PhaseOK
  <2>3. ASSUME NEW s \in Requests PROVE SentOK(s)' /\ RefusedOK(s)'
    BY <1>1, <1>2, <2>1, <1>3 DEF SentOK, RefusedOK
  <2>4. RevocationOK'
    BY <1>1, <1>2, <1>6, <2>1 DEF RevocationOK, WasActive
  <2>5. QED
    BY <1>4, <2>2, <2>3, <2>4
<1>7. CASE req[r].op # "revoke"
  <2>1. /\ answer = "tokens" => decision[r].outcome = "activated"
        /\ answer \in {"aborted", "activated", "activated_conflict", "delivery_pending"} =>
             decision[r].outcome = answer
        /\ answer = "invalid_grant" => decision[r].outcome = "rejected"
    BY <1>1, <1>7, AnswerFollows
  <2>2. acked' = acked
    BY <1>1, <1>7 DEF Receive
  <2>3. \/ /\ req[r].token = successor /\ answer = "tokens"
           /\ current' = successor /\ successor' = None /\ phase' = "idle"
        \/ /\ req[r].token = successor
           /\ answer = "aborted" \/ (answer = "invalid_grant" /\ req[r].op = "abort")
           /\ current' = current /\ successor' = None /\ phase' = "idle"
        \/ /\ req[r].token = successor /\ answer \in {"activated", "activated_conflict"}
           /\ phase' = "recover" /\ UNCHANGED <<current, successor>>
        \/ /\ req[r].token = successor /\ answer = "delivery_pending" /\ phase = "prepare"
           /\ phase' = "activate" /\ UNCHANGED <<current, successor>>
        \/ /\ req[r].token = successor /\ answer = "invalid_grant" /\ phase = req[r].op
           /\ phase' = "abort" /\ UNCHANGED <<current, successor>>
        \/ UNCHANGED <<current, successor, phase>>
    BY <1>1, <1>7 DEF Receive
  <2> HIDE DEF answer
  <2>4. CASE /\ req[r].token = successor /\ answer = "tokens"
             /\ current' = successor /\ successor' = None /\ phase' = "idle"
    <3>1. delivery[successor].status = "activated"
      BY <1>1, <2>1, <2>4 DEF DecidedOK
    <3>2. active = successor /\ Ended(successor)
      BY <1>5, <2>4, <3>1 DEF Holding, Ended, PendingNow
    <3>3. Typed' /\ Holding' /\ PhaseOK'
      BY <1>1, <1>2, <1>5, <2>2, <2>4, <3>2 DEF Typed, TypeOK, Holding, PhaseOK, Phases
    <3>4. ASSUME NEW s \in Requests PROVE SentOK(s)' /\ RefusedOK(s)'
      <4>1. pc'[s] # "idle" => req'[s].token # None
        BY <1>2, <1>5 DEF Request
      <4>2. QED
        BY <1>1, <1>2, <1>3, <2>4, <3>2, <4>1 DEF SentOK, RefusedOK
    <3>5. RevocationOK'
      BY <1>1, <1>2, <2>2, <2>4, <3>1 DEF RevocationOK, WasActive
    <3>6. QED
      BY <1>4, <3>3, <3>4, <3>5
  <2>5. CASE /\ req[r].token = successor
             /\ answer = "aborted" \/ (answer = "invalid_grant" /\ req[r].op = "abort")
             /\ current' = current /\ successor' = None /\ phase' = "idle"
    <3>1. /\ delivery[successor].status # "activated"
          /\ \/ Ended(successor)
             \/ \A s \in Requests :
                  ~(pc[s] = "call" /\ req[s].op = "activate" /\ req[s].token = successor)
      <4>1. CASE answer = "aborted"
        BY <1>1, <2>1, <2>5, <4>1 DEF DecidedOK, Ended, PendingNow
      <4>2. CASE answer = "invalid_grant" /\ req[r].op = "abort"
        BY <1>1, <2>1, <2>5, <4>2 DEF RefusedOK
      <4>3. QED
        BY <2>5, <4>1, <4>2
    <3>2. active = current
      BY <1>5, <2>5, <3>1 DEF Holding
    <3>3. Typed' /\ Holding' /\ PhaseOK'
      BY <1>1, <1>2, <2>2, <2>5, <3>2 DEF Typed, TypeOK, Holding, PhaseOK, Phases
    <3>4. ASSUME NEW s \in Requests PROVE SentOK(s)' /\ RefusedOK(s)'
      <4>1. pc'[s] # "idle" => req'[s].token # None
        BY <1>2, <1>5 DEF Request
      <4>2. QED
        BY <1>1, <1>2, <1>3, <2>5, <3>1, <4>1 DEF SentOK, RefusedOK
    <3>5. RevocationOK'
      BY <1>1, <1>2, <2>2, <2>5 DEF RevocationOK, WasActive
    <3>6. QED
      BY <1>4, <3>3, <3>4, <3>5
  <2>6. CASE /\ req[r].token = successor /\ answer \in {"activated", "activated_conflict"}
             /\ phase' = "recover" /\ UNCHANGED <<current, successor>>
    <3>1. delivery[successor].status = "activated"
      BY <1>1, <2>1, <2>6 DEF DecidedOK
    <3>2. Typed' /\ Holding' /\ PhaseOK' /\ RevocationOK'
      BY <1>1, <1>2, <1>5, <2>2, <2>6, <3>1
      DEF Typed, TypeOK, Holding, PhaseOK, Phases, RevocationOK, WasActive
    <3>3. ASSUME NEW s \in Requests PROVE SentOK(s)' /\ RefusedOK(s)'
      BY <1>1, <1>2, <1>3, <2>6, <3>1 DEF SentOK, RefusedOK
    <3>4. QED
      BY <1>4, <3>2, <3>3
  <2>7. CASE /\ req[r].token = successor /\ answer = "delivery_pending" /\ phase = "prepare"
             /\ phase' = "activate" /\ UNCHANGED <<current, successor>>
    <3>1. delivery[successor].status # "unknown"
      BY <1>1, <2>1, <2>7 DEF DecidedOK
    <3>2. Typed' /\ Holding' /\ PhaseOK' /\ RevocationOK'
      BY <1>1, <1>2, <1>5, <2>2, <2>7, <3>1
      DEF Typed, TypeOK, Holding, PhaseOK, Phases, RevocationOK, WasActive
    <3>3. ASSUME NEW s \in Requests PROVE SentOK(s)' /\ RefusedOK(s)'
      BY <1>1, <1>2, <1>3, <2>7 DEF SentOK, RefusedOK
    <3>4. QED
      BY <1>4, <3>2, <3>3
  <2>8. CASE /\ req[r].token = successor /\ answer = "invalid_grant" /\ phase = req[r].op
             /\ phase' = "abort" /\ UNCHANGED <<current, successor>>
    <3>1. Typed' /\ Holding' /\ PhaseOK' /\ RevocationOK'
      BY <1>1, <1>2, <1>5, <2>2, <2>8
      DEF Typed, TypeOK, Holding, PhaseOK, Phases, RevocationOK, WasActive
    <3>2. ASSUME NEW s \in Requests PROVE SentOK(s)' /\ RefusedOK(s)'
      BY <1>1, <1>2, <1>3, <2>8 DEF SentOK, RefusedOK
    <3>3. QED
      BY <1>4, <3>1, <3>2
  <2>9. CASE UNCHANGED <<current, successor, phase>>
    <3>1. Typed' /\ Holding' /\ PhaseOK' /\ RevocationOK'
      BY <1>1, <1>2, <2>2, <2>9
      DEF Typed, TypeOK, Holding, PhaseOK, RevocationOK, WasActive
    <3>2. ASSUME NEW s \in Requests PROVE SentOK(s)' /\ RefusedOK(s)'
      BY <1>1, <1>2, <1>3, <2>9 DEF SentOK, RefusedOK
    <3>3. QED
      BY <1>4, <3>1, <3>2
  <2>10. QED
    BY <2>3, <2>4, <2>5, <2>6, <2>7, <2>8, <2>9
<1>8. QED
  BY <1>6, <1>7

-----------------------------------------------------------------------------
(* The theorems. *)

\* No delivery is prepared at first.
LEMMA InitInv == Init => Inv
<1> SUFFICES ASSUME Init PROVE Inv
  OBVIOUS
<1> USE DeliveryAssumption DEF Init
<1>1. NoRequest \in Request /\ Undecided \in Decision
  BY DEF NoRequest, Request, Operations, Undecided, Decision
<1>2. Typed
  <2>1. [status |-> "unknown", pred |-> None, created |-> 0] \in Delivery
    BY DEF Delivery, Statuses
  <2>2. /\ delivery \in [Tokens -> Delivery] /\ req \in [Requests -> Request]
        /\ decision \in [Requests -> Decision]
        /\ pc \in [Requests -> {"idle", "call", "decided"}]
    BY <1>1, <2>1
  <2>3. /\ now \in Nat /\ drift \in Int /\ drift \in -Skew..Skew
    BY DEF Start
  <2>4. QED
    BY <2>2, <2>3 DEF Typed, TypeOK, Phases
<1>3. Holding /\ PhaseOK /\ RevocationOK
  BY DEF Holding, PhaseOK, RevocationOK, WasActive
<1>4. \A r \in Requests : SentOK(r) /\ DecidedOK(r) /\ RefusedOK(r)
  BY DEF SentOK, DecidedOK, RefusedOK
<1>5. QED
  BY <1>2, <1>3, <1>4 DEF Inv

\* Every step keeps the invariant.
LEMMA NextInv == Inv /\ [Next]_vars => Inv'
<1> SUFFICES ASSUME Inv, [Next]_vars PROVE Inv'
  OBVIOUS
<1>1. CASE UNCHANGED vars
  <2>1. UNCHANGED <<now, drift, active, delivery, revoked, current, successor, phase, acked,
                    pc, req, decision, faults>>
    BY <1>1 DEF vars, authority, client, handlers
  <2>2. Typed' /\ Holding' /\ PhaseOK' /\ RevocationOK'
    BY <2>1 DEF Inv, Typed, TypeOK, Holding, PhaseOK, RevocationOK, WasActive
  <2>3. ASSUME NEW r \in Requests PROVE SentOK(r)' /\ DecidedOK(r)' /\ RefusedOK(r)'
    BY <2>1 DEF Inv, SentOK, DecidedOK, RefusedOK, Ended, PendingNow
  <2>4. QED
    BY <2>2, <2>3 DEF Inv
<1>2. CASE Begin \/ GiveUp \/ Tick
  BY <1>2, BeginStep, GiveUpStep, TickStep
<1>3. ASSUME NEW r \in Requests, Send(r) \/ SendRevoke(r) \/ Serve(r) PROVE Inv'
  <2>1. CASE Send(r) \/ SendRevoke(r)
    BY <2>1, SendStep, SendRevokeStep
  <2>2. CASE Call(r)
    BY <2>2, CallStep
  <2>3. CASE CallFails(r) \/ RespondFails(r)
    BY <2>3, FailureStep
  <2>4. CASE Respond(r)
    BY <2>4, RespondStep
  <2>5. QED
    BY <1>3, <2>1, <2>2, <2>3, <2>4 DEF Serve
<1>4. QED
  BY <1>1, <1>2, <1>3 DEF Next

\* The invariant holds throughout.
LEMMA Invariant == Spec => []Inv
  BY InitInv, NextInv, PTL DEF Spec

\* Every reachable state of a delivery is well typed.
THEOREM TypeCorrect == Spec => []TypeOK
<1>1. Inv => TypeOK
  BY DEF Inv, Typed
<1>2. QED
  BY <1>1, Invariant, PTL

\* Whatever is lost, repeated, answered late or aborted, the client keeps the
\* active refresh token of its family (activateHumanRefreshDelivery,
\* abortHumanRefreshDelivery).
THEOREM ClientKeepsActiveToken == Spec => []NeverLockedOut
<1>1. Inv => NeverLockedOut
  BY DEF Inv, Holding, NeverLockedOut
<1>2. QED
  BY <1>1, Invariant, PTL

\* No request sent after a logout was acknowledged gets as far as signing
\* tokens (revokeHumanRefreshToken).
THEOREM LogoutEndsTokens == Spec => []NoTokensAfterRevocation
<1>1. Inv => NoTokensAfterRevocation
  BY DEF Inv, RevocationOK, NoTokensAfterRevocation
<1>2. QED
  BY <1>1, Invariant, PTL

\* An answer delivery_pending or tokens was given only to a decision that is
\* not expired by more than the skew (humanAuthorityTimestampNotExpired).
LEMMA AnsweredInTime ==
  ASSUME Inv, NEW r \in Requests, pc[r] = "decided"
  PROVE  /\ Answer(req[r], decision[r]) = "delivery_pending" =>
              humanAuthorityTimestampNotExpired(decision[r].expires)
         /\ Answer(req[r], decision[r]) = "tokens" =>
              /\ humanAuthorityTimestampNotExpired(Deadline)
              /\ humanRefreshTokenRemainingLifetime(Deadline) > 0
<1>1. req[r].op \in Operations /\ DecidedOK(r)
  BY DEF Inv, Typed, TypeOK, Request
<1>2. decision[r].outcome \in {"none", "rejected", "delivery_pending", "activated",
                               "aborted", "activated_conflict", "revoked"}
  BY DEF Inv, Typed, TypeOK, Decision
<1>3. CASE req[r].op = "prepare"
  <2>1. Answer(req[r], decision[r]) = PrepareAnswer(decision[r])
    BY <1>3 DEF Answer
  <2>2. QED
    BY <1>2, <2>1 DEF PrepareAnswer, validHumanRefreshDeliveryPrepareDecision
<1>4. CASE req[r].op = "activate"
  <2>1. Answer(req[r], decision[r]) = ActivateAnswer(decision[r])
    BY <1>4 DEF Answer
  <2>2. QED
    BY <2>1 DEF ActivateAnswer
<1>5. CASE req[r].op = "abort"
  <2>1. Answer(req[r], decision[r]) = AbortAnswer(decision[r])
    BY <1>5 DEF Answer
  <2>2. QED
    BY <1>1, <1>5, <2>1 DEF AbortAnswer, DecidedOK
<1>6. CASE req[r].op = "revoke"
  <2>1. Answer(req[r], decision[r]) = "revoked"
    BY <1>6 DEF Answer
  <2>2. QED
    BY <2>1
<1>7. QED
  BY <1>1, <1>3, <1>4, <1>5, <1>6 DEF Operations

\* Whatever the clocks say within the skew, expires_in is positive, within its
\* limit, and promises no more than the deadline and twice the skew
\* (prepareHumanRefreshDelivery, humanRefreshTokenRemainingLifetime).
THEOREM LifetimesBounded == Spec => []WireLifetimes
<1>1. ASSUME Inv PROVE WireLifetimes
  <2>1. SUFFICES ASSUME NEW r \in Requests, pc[r] = "decided"
        PROVE  LET answer == Answer(req[r], decision[r])
                   Promise(expiresIn, limit, expiresAt) ==
                     expiresIn \in 1..limit /\ now + expiresIn <= expiresAt + 2 * Skew + 1
               IN
               /\ answer = "delivery_pending" =>
                    Promise(PendingExpiresIn(decision[r].expires), PendingLife, decision[r].expires)
               /\ answer = "tokens" =>
                    Promise(humanRefreshTokenRemainingLifetime(Deadline), FamilyLife, Deadline)
    BY DEF WireLifetimes
  <2> DEFINE e == decision[r].expires
  <2>2. /\ now \in Nat /\ drift \in -Skew..Skew /\ Skew \in Nat /\ e \in Nat
        /\ PendingLife \in Nat \ {0} /\ FamilyLife \in Nat \ {0} /\ Deadline \in Nat
    BY <1>1, DeliveryAssumption DEF Inv, Typed, TypeOK, Decision, Deadline, Start
  <2> HIDE DEF e
  <2>3. ASSUME humanAuthorityTimestampNotExpired(e)
        PROVE  /\ PendingExpiresIn(e) \in 1..PendingLife
               /\ now + PendingExpiresIn(e) <= e + 2 * Skew + 1
    BY <2>2, <2>3 DEF PendingExpiresIn, humanAuthorityTimestampNotExpired, ProviderNow
  <2>4. ASSUME humanAuthorityTimestampNotExpired(Deadline),
               humanRefreshTokenRemainingLifetime(Deadline) > 0
        PROVE  /\ humanRefreshTokenRemainingLifetime(Deadline) \in 1..FamilyLife
               /\ now + humanRefreshTokenRemainingLifetime(Deadline) <= Deadline + 2 * Skew + 1
    BY <2>2, <2>4
    DEF humanRefreshTokenRemainingLifetime, humanAuthorityTimestampNotExpired, ProviderNow
  <2>5. QED
    BY <1>1, <2>1, <2>3, <2>4, AnsweredInTime DEF e
<1>2. QED
  BY <1>1, Invariant, PTL
=============================================================================
