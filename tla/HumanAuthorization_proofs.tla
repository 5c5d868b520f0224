---------------------- MODULE HumanAuthorization_proofs ----------------------
(***************************************************************************)
(* Proofs about HumanAuthorization: any flows, browsers, redirect URIs,    *)
(* lifetimes and skew, and any number of rotations and faults.             *)
(***************************************************************************)
EXTENDS MCHumanAuthorization, TLAPS

\* A decision was made no later than now; one that ends a flow is about a flow
\* that was pushed, and names the registration it was pushed under.
DecisionOK(r) ==
  /\ pc[r] = "decided" => req[r].flow \in Flows
  /\ decision[r].created <= now
  /\ decision[r].outcome \in {"completed", "redeemed"} =>
       /\ pc[r] = "decided" /\ flow[req[r].flow].stage # "none"
       /\ decision[r].revision = flow[req[r].flow].revision

IssuedOK(t) == flow[t.flow].stage # "none" /\ t.revision = flow[t.flow].revision

Inv ==
  /\ TypeOK
  /\ \A r \in Requests : DecisionOK(r)
  /\ \A t \in issued : IssuedOK(t)
  /\ SkewBurnsNoCode

\* A cookie was given to the browser that has it, and a flow is completed for
\* the browser that has its cookie.
OriginOK(r) ==
  decision[r].outcome = "completed" =>
    req[r].op = "complete" /\ <<req[r].browser, req[r].flow>> \in starters

HistoryInv ==
  /\ \A b \in Browsers, f \in Flows : cookie[b].binding = f => <<b, f>> \in starters
  /\ \A r \in Requests : OriginOK(r)
  /\ CodeStaysInBrowser

-----------------------------------------------------------------------------
(* Records. *)

\* The placeholders are typed.
LEMMA Placeholders ==
  /\ AnyBrowser \in Browsers /\ AnyURI \in URIs /\ NoPage \in Pages
  /\ NoFlow \in Flow /\ NoClient \in Registration /\ NoRequest \in Request
  /\ NoRequest.flow = None
<1>1. AnyBrowser \in Browsers /\ AnyURI \in URIs
  BY HumanAssumption DEF AnyBrowser, AnyURI
<1>2. NoPage \in Pages
  BY <1>1, HumanAssumption DEF NoPage, Pages
<1>3. NoFlow \in Flow
  BY <1>1, <1>2 DEF NoFlow, Flow
<1>4. NoClient \in Registration
  BY HumanAssumption DEF NoClient, Registration
<1>5. NoRequest \in Request /\ NoRequest.flow = None
  BY <1>1, <1>2, <1>4 DEF NoRequest, Request
<1>6. QED
  BY <1>1, <1>2, <1>3, <1>4, <1>5

Outcomes == {"none", "created", "pending", "confirmed", "replayed", "completed",
             "failed", "redeemed", "expired", "rejected"}

\* A bare outcome is a decision.
LEMMA OutcomeTyped ==
  ASSUME NEW o \in Outcomes
  PROVE  Outcome(o) \in Decision /\ Outcome(o).outcome = o /\ Outcome(o).created = 0
  BY Placeholders DEF Outcome, Decision, Outcomes

\* And so are the others.
LEMMA StartDecisionTyped ==
  ASSUME NEW e \in Nat
  PROVE  /\ HumanStartDecision(e) \in Decision /\ HumanStartDecision(e).outcome = "pending"
         /\ HumanStartDecision(e).created = 0
  BY Placeholders DEF HumanStartDecision, Outcome, Decision

\* The decision of a confirmed or replayed browser is well formed.
LEMMA ContinuationDecisionTyped ==
  ASSUME NEW o \in {"confirmed", "replayed"}, NEW n \in Pages
  PROVE  /\ HumanContinuationDecision(o, n) \in Decision
         /\ HumanContinuationDecision(o, n).outcome = o
         /\ HumanContinuationDecision(o, n).created = 0
  BY Placeholders DEF HumanContinuationDecision, Outcome, Decision

\* The decision that completes an interaction is well formed.
LEMMA CompletionDecisionTyped ==
  ASSUME NEW o \in {"completed", "failed"}, NEW n \in Nat
  PROVE  /\ HumanCompletionDecision(o, n) \in Decision
         /\ HumanCompletionDecision(o, n).outcome = o
         /\ HumanCompletionDecision(o, n).revision = n
         /\ HumanCompletionDecision(o, n).created = 0
  BY Placeholders DEF HumanCompletionDecision, Outcome, Decision

\* The decision that redeems a code is well formed.
LEMMA RedemptionDecisionTyped ==
  ASSUME NEW n \in Nat, NEW c \in Nat, NEW e \in Nat
  PROVE  /\ HumanCodeRedemptionDecision(n, c, e) \in Decision
         /\ HumanCodeRedemptionDecision(n, c, e).outcome = "redeemed"
         /\ HumanCodeRedemptionDecision(n, c, e).revision = n
         /\ HumanCodeRedemptionDecision(n, c, e).created = c
  BY Placeholders DEF HumanCodeRedemptionDecision, Outcome, Decision

\* What the provider sends is a request about the flow.
LEMMA InputsTyped ==
  ASSUME NEW f \in Flows, NEW b \in Browsers, NEW u \in URIs, NEW c \in Registration,
         NEW n \in 0..MaxPages, NEW k \in Flows, NEW q,
         \/ q = HumanPARInput(c, f, u)
         \/ q = HumanStartInput(b, f)
         \/ q = HumanContinuationInput(b, f, n, k)
         \/ q = HumanCompletionInput(b, f, k)
         \/ q = HumanCodeRedemptionInput(c, f, u)
  PROVE  q \in Request /\ q.flow = f
<1>1. <<b, n>> \in Pages
  BY DEF Pages
<1>2. CASE q = HumanPARInput(c, f, u)
  BY <1>2, Placeholders DEF HumanPARInput, NoRequest, Request
<1>3. CASE q = HumanStartInput(b, f)
  BY <1>3, Placeholders DEF HumanStartInput, NoRequest, Request
<1>4. CASE q = HumanContinuationInput(b, f, n, k)
  BY <1>1, <1>4, Placeholders DEF HumanContinuationInput, NoRequest, Request
<1>5. CASE q = HumanCompletionInput(b, f, k)
  BY <1>5, Placeholders DEF HumanCompletionInput, NoRequest, Request
<1>6. CASE q = HumanCodeRedemptionInput(c, f, u)
  BY <1>6, Placeholders DEF HumanCodeRedemptionInput, NoRequest, Request
<1>7. QED
  BY <1>2, <1>3, <1>4, <1>5, <1>6

-----------------------------------------------------------------------------
(* The authority. *)

\* A flow that was pushed stays pushed, under the same registration.
FlowsKept ==
  \A f \in Flows : flow[f].stage # "none" =>
    flow'[f].stage # "none" /\ flow'[f].revision = flow[f].revision

\* The decision d about the request q is one of the authority.
Decided(q, d) ==
  /\ d \in Decision /\ d.created <= now
  /\ d.outcome = "completed" => q.op = "complete" /\ q.binding = q.flow
  /\ d.outcome \in {"completed", "redeemed"} =>
       flow'[q.flow].stage # "none" /\ d.revision = flow'[q.flow].revision

\* A stage, and a deadline or a page, are replaced.
LEMMA FlowStage ==
  ASSUME TypeOK, NEW f \in Flows, NEW x \in Flow, x.stage # "none",
         flow[f].stage # "none" => x.revision = flow[f].revision,
         flow' = [flow EXCEPT ![f] = x]
  PROVE  flow' \in [Flows -> Flow] /\ FlowsKept /\ flow'[f] = x
  BY DEF TypeOK, FlowsKept

\* A refusal leaves the authority's flows as they were.
LEMMA FlowUnchanged ==
  ASSUME TypeOK, UNCHANGED flow PROVE flow' \in [Flows -> Flow] /\ FlowsKept
  BY DEF TypeOK, FlowsKept

\* A decision that ends no flow.
LEMMA BareDecided ==
  ASSUME NEW q, NEW d \in Decision, d.created = 0, now \in Nat,
         d.outcome \notin {"completed", "redeemed"}
  PROVE  Decided(q, d)
  BY DEF Decided

\* The five transitions of the authority.
LEMMA StorePARStep ==
  ASSUME TypeOK, NEW r \in Requests, NEW q \in Request, q.flow \in Flows, q.op = "par",
         flow[q.flow].stage = "none", StorePAR(r, q)
  PROVE  /\ flow' \in [Flows -> Flow] /\ FlowsKept
         /\ \E d : Decide(r, d) /\ Decided(q, d)
<1>1. now \in Nat
  BY DEF TypeOK
<1>2. CASE Decide(r, Outcome("rejected")) /\ UNCHANGED flow
  <2>1. "rejected" \in Outcomes
    BY DEF Outcomes
  <2>2. Decided(q, Outcome("rejected"))
    BY <1>1, <2>1, OutcomeTyped, BareDecided
  <2>3. QED
    BY <1>2, <2>2, FlowUnchanged
<1>3. CASE /\ SetFlow(q.flow, [stage |-> "stored", revision |-> q.client.revision, uri |-> q.uri,
                               expires |-> now + PARLife, page |-> NoPage])
           /\ Decide(r, Outcome("created"))
  <2>. PICK x : x = [stage |-> "stored", revision |-> q.client.revision, uri |-> q.uri,
                     expires |-> now + PARLife, page |-> NoPage]
    OBVIOUS
  <2>1. q.client.revision \in Nat /\ q.uri \in URIs /\ now + PARLife \in Nat
    BY <1>1, HumanAssumption DEF Request, Registration
  <2>2. x \in Flow /\ x.stage = "stored"
    BY <2>1, Placeholders DEF Flow
  <2>3. flow' = [flow EXCEPT ![q.flow] = x]
    BY <1>3 DEF SetFlow
  <2>4. "created" \in Outcomes
    BY DEF Outcomes
  <2>5. Decided(q, Outcome("created"))
    BY <1>1, <2>4, OutcomeTyped, BareDecided
  <2>6. QED
    BY <1>3, <2>2, <2>3, <2>5, FlowStage
<1>4. QED
  BY <1>2, <1>3 DEF StorePAR

\* The authority consumes a pushed request or rejects the start.
LEMMA ConsumeStep ==
  ASSUME TypeOK, NEW r \in Requests, NEW q \in Request, q.flow \in Flows, q.op = "start",
         ConsumePARAndStartContinuation(r, q)
  PROVE  /\ flow' \in [Flows -> Flow] /\ FlowsKept
         /\ \E d : Decide(r, d) /\ Decided(q, d)
<1>1. now \in Nat /\ flow[q.flow] \in Flow /\ now + Window \in Nat
  BY HumanAssumption DEF TypeOK
<1>2. CASE Decide(r, Outcome("rejected")) /\ UNCHANGED flow
  <2>1. "rejected" \in Outcomes
    BY DEF Outcomes
  <2>2. Decided(q, Outcome("rejected"))
    BY <1>1, <2>1, OutcomeTyped, BareDecided
  <2>3. QED
    BY <1>2, <2>2, FlowUnchanged
<1>3. CASE /\ SetFlow(q.flow, [flow[q.flow] EXCEPT !.stage = "started", !.expires = now + Window])
           /\ Decide(r, HumanStartDecision(now + Window))
  <2>. PICK x : x = [flow[q.flow] EXCEPT !.stage = "started", !.expires = now + Window]
    OBVIOUS
  <2>1. x \in Flow /\ x.stage = "started" /\ x.revision = flow[q.flow].revision
    BY <1>1 DEF Flow
  <2>2. flow' = [flow EXCEPT ![q.flow] = x]
    BY <1>3 DEF SetFlow
  <2>3. Decided(q, HumanStartDecision(now + Window))
    BY <1>1, StartDecisionTyped, BareDecided
  <2>4. QED
    BY <1>3, <2>1, <2>2, <2>3, FlowStage
<1>4. QED
  BY <1>2, <1>3 DEF ConsumePARAndStartContinuation

\* The authority confirms a browser, replays the answer or rejects it.
LEMMA ConfirmStep ==
  ASSUME TypeOK, NEW r \in Requests, NEW q \in Request, q.flow \in Flows, q.op = "confirm",
         ConfirmBrowser(r, q)
  PROVE  /\ flow' \in [Flows -> Flow] /\ FlowsKept
         /\ \E d : Decide(r, d) /\ Decided(q, d)
<1>1. now \in Nat /\ flow[q.flow] \in Flow /\ q.page \in Pages
  BY DEF TypeOK, Request
<1>2. CASE /\ SetFlow(q.flow, [flow[q.flow] EXCEPT !.stage = "confirmed", !.page = q.page])
           /\ Decide(r, HumanContinuationDecision("confirmed", q.page))
  <2>. PICK x : x = [flow[q.flow] EXCEPT !.stage = "confirmed", !.page = q.page]
    OBVIOUS
  <2>1. x \in Flow /\ x.stage = "confirmed" /\ x.revision = flow[q.flow].revision
    BY <1>1 DEF Flow
  <2>2. flow' = [flow EXCEPT ![q.flow] = x]
    BY <1>2 DEF SetFlow
  <2>3. Decided(q, HumanContinuationDecision("confirmed", q.page))
    BY <1>1, ContinuationDecisionTyped, BareDecided
  <2>4. QED
    BY <1>2, <2>1, <2>2, <2>3, FlowStage
<1>3. ASSUME UNCHANGED flow,
             \/ Decide(r, Outcome("rejected")) \/ Decide(r, Outcome("expired"))
             \/ Decide(r, HumanContinuationDecision("replayed", q.page))
      PROVE  /\ flow' \in [Flows -> Flow] /\ FlowsKept
             /\ \E d : Decide(r, d) /\ Decided(q, d)
  <2>1. "rejected" \in Outcomes /\ "expired" \in Outcomes
    BY DEF Outcomes
  <2>2. Decided(q, Outcome("rejected")) /\ Decided(q, Outcome("expired"))
    BY <1>1, <2>1, OutcomeTyped, BareDecided
  <2>3. Decided(q, HumanContinuationDecision("replayed", q.page))
    BY <1>1, ContinuationDecisionTyped, BareDecided
  <2>4. QED
    BY <1>3, <2>2, <2>3, FlowUnchanged
<1>4. QED
  BY <1>2, <1>3 DEF ConfirmBrowser

\* The authority completes an interaction or fails it.
LEMMA CompleteStep ==
  ASSUME TypeOK, NEW r \in Requests, NEW q \in Request, q.flow \in Flows, q.op = "complete",
         CompleteAuthorization(r, q)
  PROVE  /\ flow' \in [Flows -> Flow] /\ FlowsKept
         /\ \E d : Decide(r, d) /\ Decided(q, d)
<1>1. now \in Nat /\ flow[q.flow] \in Flow /\ now + CodeLife \in Nat
  BY HumanAssumption DEF TypeOK
<1>2. ASSUME NEW end \in {"completed", "failed"}, q.binding = q.flow,
             SetFlow(q.flow, [flow[q.flow] EXCEPT !.stage = end, !.expires = now + CodeLife]),
             Decide(r, HumanCompletionDecision(end, flow[q.flow].revision))
      PROVE  /\ flow' \in [Flows -> Flow] /\ FlowsKept
             /\ \E d : Decide(r, d) /\ Decided(q, d)
  <2>. PICK x : x = [flow[q.flow] EXCEPT !.stage = end, !.expires = now + CodeLife]
    OBVIOUS
  <2>. PICK d : d = HumanCompletionDecision(end, flow[q.flow].revision)
    OBVIOUS
  <2>1. x \in Flow /\ x.stage # "none" /\ x.revision = flow[q.flow].revision
        /\ x.revision \in Nat
    BY <1>1 DEF Flow
  <2>2. flow' = [flow EXCEPT ![q.flow] = x]
    BY <1>2 DEF SetFlow
  <2>3. flow' \in [Flows -> Flow] /\ FlowsKept /\ flow'[q.flow] = x
    BY <2>1, <2>2, FlowStage
  <2>4. d \in Decision /\ d.outcome = end /\ d.revision = x.revision /\ d.created = 0
    BY <2>1, CompletionDecisionTyped
  <2>5. Decided(q, d)
    BY <1>1, <1>2, <2>1, <2>3, <2>4 DEF Decided
  <2>6. QED
    BY <1>2, <2>3, <2>5
<1>3. ASSUME NEW outcome \in {"replayed", "expired", "rejected"}, Decide(r, Outcome(outcome)),
             UNCHANGED flow
      PROVE  /\ flow' \in [Flows -> Flow] /\ FlowsKept
             /\ \E d : Decide(r, d) /\ Decided(q, d)
  <2>1. outcome \in Outcomes
    BY DEF Outcomes
  <2>2. Decided(q, Outcome(outcome))
    BY <1>1, <2>1, OutcomeTyped, BareDecided
  <2>3. QED
    BY <1>3, <2>2, FlowUnchanged
<1>4. QED
  BY <1>2, <1>3 DEF CompleteAuthorization

\* The authority redeems a code or rejects it.
LEMMA RedeemStep ==
  ASSUME TypeOK, NEW r \in Requests, NEW q \in Request, q.flow \in Flows, q.op = "redeem",
         RedeemAuthorizationCode(r, q)
  PROVE  /\ flow' \in [Flows -> Flow] /\ FlowsKept
         /\ \E d : Decide(r, d) /\ Decided(q, d)
<1>1. now \in Nat /\ flow[q.flow] \in Flow /\ now + DecisionLife \in Nat
  BY HumanAssumption DEF TypeOK
<1>2. CASE /\ SetFlow(q.flow, [flow[q.flow] EXCEPT !.stage = "redeemed"])
           /\ Decide(r, HumanCodeRedemptionDecision(flow[q.flow].revision, now,
                                                    now + DecisionLife))
  <2>. PICK x : x = [flow[q.flow] EXCEPT !.stage = "redeemed"]
    OBVIOUS
  <2>. PICK d : d = HumanCodeRedemptionDecision(flow[q.flow].revision, now, now + DecisionLife)
    OBVIOUS
  <2>1. x \in Flow /\ x.stage = "redeemed" /\ x.revision = flow[q.flow].revision
        /\ x.revision \in Nat
    BY <1>1 DEF Flow
  <2>2. flow' = [flow EXCEPT ![q.flow] = x]
    BY <1>2 DEF SetFlow
  <2>3. flow' \in [Flows -> Flow] /\ FlowsKept /\ flow'[q.flow] = x
    BY <2>1, <2>2, FlowStage
  <2>4. d \in Decision /\ d.outcome = "redeemed" /\ d.revision = x.revision /\ d.created = now
    BY <1>1, <2>1, RedemptionDecisionTyped
  <2>5. Decided(q, d)
    BY <1>1, <2>1, <2>3, <2>4 DEF Decided
  <2>6. QED
    BY <1>2, <2>3, <2>5
<1>3. CASE Decide(r, Outcome("rejected")) /\ UNCHANGED flow
  <2>1. "rejected" \in Outcomes
    BY DEF Outcomes
  <2>2. Decided(q, Outcome("rejected"))
    BY <1>1, <2>1, OutcomeTyped, BareDecided
  <2>3. QED
    BY <1>3, <2>2, FlowUnchanged
<1>4. QED
  BY <1>2, <1>3 DEF RedeemAuthorizationCode

-----------------------------------------------------------------------------
(* The provider. *)

\* A request reaches the authority, which decides.
LEMMA CallEffect ==
  ASSUME TypeOK, NEW r \in Requests, NEW q \in Request, q.flow \in Flows,
         q.op = "par" => flow[q.flow].stage = "none", Call(r, q)
  PROVE  /\ flow' \in [Flows -> Flow] /\ FlowsKept
         /\ \E d : decision' = [decision EXCEPT ![r] = d] /\ Decided(q, d)
  BY StorePARStep, ConsumeStep, ConfirmStep, CompleteStep, RedeemStep DEF Call, Decide

\* Whatever the authority is asked, its answer keeps the invariant.
LEMMA CallStep ==
  ASSUME Inv, NEW r \in Requests, NEW q \in Request, q.flow \in Flows,
         q.op = "par" => flow[q.flow].stage = "none", Call(r, q)
  PROVE  Inv'
<1>1. TypeOK /\ SkewBurnsNoCode
  BY DEF Inv
<1>2. /\ pc' = [pc EXCEPT ![r] = "decided"] /\ req' = [req EXCEPT ![r] = q]
      /\ UNCHANGED <<now, drift, reg, cookie, held, page, uris, codes, issued, refused, faults>>
  BY DEF Call, browserVars, clientVars
<1>3. /\ flow' \in [Flows -> Flow] /\ FlowsKept
      /\ \E d : decision' = [decision EXCEPT ![r] = d] /\ Decided(q, d)
  BY <1>1, CallEffect
<1>4. PICK d : decision' = [decision EXCEPT ![r] = d] /\ Decided(q, d)
  BY <1>3
<1>5. d \in Decision
  BY <1>4 DEF Decided
<1>6. TypeOK'
  BY <1>1, <1>2, <1>3, <1>4, <1>5 DEF TypeOK
<1>7. ASSUME NEW k \in Requests PROVE DecisionOK(k)'
  <2>1. CASE k = r
    <3>1. pc'[r] = "decided" /\ req'[r] = q /\ decision'[r] = d /\ now' = now
      BY <1>1, <1>2, <1>4 DEF TypeOK
    <3>2. QED
      BY <1>4, <2>1, <3>1 DEF DecisionOK, Decided
  <2>2. CASE k # r
    <3>1. pc'[k] = pc[k] /\ req'[k] = req[k] /\ decision'[k] = decision[k] /\ now' = now
      BY <1>1, <1>2, <1>4, <2>2 DEF TypeOK
    <3>2. DecisionOK(k)
      BY DEF Inv
    <3>3. QED
      BY <1>3, <3>1, <3>2 DEF DecisionOK, FlowsKept
  <2>3. QED
    BY <2>1, <2>2
<1>8. \A t \in issued' : IssuedOK(t)'
  <2>1. \A t \in issued : t.flow \in Flows /\ IssuedOK(t)
    BY <1>1 DEF Inv, TypeOK
  <2>2. QED
    BY <1>2, <1>3, <2>1 DEF IssuedOK, FlowsKept
<1>9. SkewBurnsNoCode'
  BY <1>1, <1>2 DEF SkewBurnsNoCode
<1>10. QED
  BY <1>6, <1>7, <1>8, <1>9 DEF Inv

\* A goroutine is done.
LEMMA Finished ==
  ASSUME TypeOK, NEW r \in Requests, Finish(r)
  PROVE  /\ pc' \in [Requests -> {"idle", "decided"}] /\ req' \in [Requests -> Request]
         /\ decision' \in [Requests -> Decision]
         /\ pc'[r] = "idle" /\ decision'[r].outcome = "none" /\ decision'[r].created = 0
         /\ \A k \in Requests \ {r} :
              pc'[k] = pc[k] /\ req'[k] = req[k] /\ decision'[k] = decision[k]
<1>1. "none" \in Outcomes
  BY DEF Outcomes
<1>2. /\ Outcome("none") \in Decision /\ Outcome("none").outcome = "none"
      /\ Outcome("none").created = 0
  BY <1>1, OutcomeTyped
<1>. PICK d : d = Outcome("none")
  OBVIOUS
<1>3. decision' = [decision EXCEPT ![r] = d] /\ req' = [req EXCEPT ![r] = NoRequest]
      /\ pc' = [pc EXCEPT ![r] = "idle"]
  BY DEF Finish
<1>4. QED
  BY <1>2, <1>3, Placeholders DEF TypeOK

\* An answer, or its loss: what is issued or refused is in order.
LEMMA AnswerStep ==
  ASSUME Inv, NEW r \in Requests, Finish(r), UNCHANGED <<now, drift, reg, flow>>,
         uris' \subseteq Flows,
         cookie' \in [Browsers -> [binding : Flows \cup {None}, expires : Nat,
                                   maxAge : 0..Window]],
         held' \subseteq Browsers \X Flows \X Capability, page' = page,
         codes' \subseteq [flow : Flows, browser : Browsers, uri : URIs],
         issued' \subseteq [flow : Flows, revision : 1..MaxRevision],
         refused' \subseteq [flow : Flows, expired : BOOLEAN, rotated : BOOLEAN],
         faults' \in 0..MaxFaults,
         \A t \in issued' \ issued : IssuedOK(t),
         \A x \in refused' \ refused : x.expired \/ x.rotated
  PROVE  Inv'
<1>1. TypeOK /\ SkewBurnsNoCode
  BY DEF Inv
<1>2. /\ pc' \in [Requests -> {"idle", "decided"}] /\ req' \in [Requests -> Request]
      /\ decision' \in [Requests -> Decision]
      /\ pc'[r] = "idle" /\ decision'[r].outcome = "none" /\ decision'[r].created = 0
      /\ \A k \in Requests \ {r} :
           pc'[k] = pc[k] /\ req'[k] = req[k] /\ decision'[k] = decision[k]
  BY <1>1, Finished
<1>3. TypeOK'
  BY <1>1, <1>2 DEF TypeOK
<1>4. ASSUME NEW k \in Requests PROVE DecisionOK(k)'
  <2>1. CASE k = r
    BY <1>1, <1>2, <2>1 DEF DecisionOK, TypeOK
  <2>2. CASE k # r
    <3>1. DecisionOK(k)
      BY DEF Inv
    <3>2. QED
      BY <1>2, <2>2, <3>1 DEF DecisionOK
  <2>3. QED
    BY <2>1, <2>2
<1>5. \A t \in issued' : IssuedOK(t)'
  BY DEF Inv, IssuedOK
<1>6. SkewBurnsNoCode'
  BY <1>1 DEF SkewBurnsNoCode
<1>7. QED
  BY <1>3, <1>4, <1>5, <1>6 DEF Inv

\* Nothing happens but in browsers, to the clock or to the registration.
LEMMA StillStep ==
  ASSUME Inv, TypeOK', now' >= now, UNCHANGED <<flow, issued, refused, pc, req, decision>>
  PROVE  Inv'
<1>1. TypeOK /\ SkewBurnsNoCode
  BY DEF Inv
<1>2. ASSUME NEW k \in Requests PROVE DecisionOK(k)'
  <2>1. DecisionOK(k) /\ decision[k] \in Decision
    BY <1>1 DEF Inv, TypeOK
  <2>2. decision[k].created \in Nat /\ now \in Nat /\ now' \in Nat
    BY <1>1, <2>1 DEF Decision, TypeOK
  <2>3. QED
    BY <2>1, <2>2 DEF DecisionOK
<1>3. \A t \in issued' : IssuedOK(t)'
  BY DEF Inv, IssuedOK
<1>4. SkewBurnsNoCode'
  BY <1>1 DEF SkewBurnsNoCode
<1>5. QED
  BY <1>2, <1>3, <1>4 DEF Inv

\* The lifetime given to the cookie is within the window of an interaction.
LEMMA DeadlineBounded ==
  ASSUME TypeOK, NEW e \in Nat PROVE humanConfidentialBFFStartDeadline(e) \in 0..Window
<1>. PICK m : m = e - ProviderNow
  OBVIOUS
<1>1. m \in Int /\ Window \in Nat /\ Skew \in Nat
  BY HumanAssumption DEF TypeOK, ProviderNow
<1>2. QED
  BY <1>1 DEF humanConfidentialBFFStartDeadline

\* The skew alone makes no decision too early or too late.
LEMMA WindowOfDecision ==
  ASSUME TypeOK, NEW d \in Decision, d.created <= now, ~validHumanAuthorityDecisionWindow(d)
  PROVE  now - d.expires >= 0
<1>1. /\ d.created \in Nat /\ d.expires \in Nat /\ now \in Nat /\ drift \in Int
      /\ -Skew <= drift /\ drift <= Skew /\ Skew \in Nat
  BY HumanAssumption DEF Decision, TypeOK
<1>2. QED
  BY <1>1 DEF validHumanAuthorityDecisionWindow, ProviderNow

\* What is known of a request whose decision is there.
LEMMA AtHand ==
  ASSUME Inv, NEW r \in Requests, pc[r] = "decided"
  PROVE  /\ req[r] \in Request /\ decision[r] \in Decision /\ req[r].flow \in Flows
         /\ req[r].browser \in Browsers /\ req[r].client \in Registration
         /\ req[r].uri \in URIs
<1>1. req[r] \in Request /\ decision[r] \in Decision /\ req[r].flow \in Flows
  BY DEF Inv, TypeOK, DecisionOK
<1>2. QED
  BY <1>1 DEF Request

\* The state of browsers, client and faults is typed, and AnswerStep asks for
\* no more where it does not change.
LEMMA Around ==
  ASSUME Inv
  PROVE  /\ uris \subseteq Flows
         /\ cookie \in [Browsers -> [binding : Flows \cup {None}, expires : Nat,
                                     maxAge : 0..Window]]
         /\ held \subseteq Browsers \X Flows \X Capability
         /\ codes \subseteq [flow : Flows, browser : Browsers, uri : URIs]
         /\ issued \subseteq [flow : Flows, revision : 1..MaxRevision]
         /\ refused \subseteq [flow : Flows, expired : BOOLEAN, rotated : BOOLEAN]
         /\ faults \in 0..MaxFaults
  BY DEF Inv, TypeOK

\* A cookie is set or cleared.
LEMMA CookieSet ==
  ASSUME Inv, NEW b \in Browsers, NEW k \in Flows \cup {None}, NEW e \in Nat,
         NEW m \in 0..Window,
         cookie' = [cookie EXCEPT ![b] = [binding |-> k, expires |-> e, maxAge |-> m]]
  PROVE  cookie' \in [Browsers -> [binding : Flows \cup {None}, expires : Nat,
                                   maxAge : 0..Window]]
<1>. PICK c : c = [binding |-> k, expires |-> e, maxAge |-> m]
  OBVIOUS
<1>1. c \in [binding : Flows \cup {None}, expires : Nat, maxAge : 0..Window]
  OBVIOUS
<1>2. cookie' = [cookie EXCEPT ![b] = c]
  OBVIOUS
<1>3. QED
  BY <1>1, <1>2, Around

\* A cleared cookie is well formed.
LEMMA CookieCleared ==
  ASSUME Inv, NEW b \in Browsers, cookie' = [cookie EXCEPT ![b] = NoCookie]
  PROVE  cookie' \in [Browsers -> [binding : Flows \cup {None}, expires : Nat,
                                   maxAge : 0..Window]]
<1>1. 0 \in 0..Window /\ 0 \in Nat /\ None \in Flows \cup {None}
  BY HumanAssumption
<1>2. QED
  BY <1>1, CookieSet DEF NoCookie

\* Answers that neither issue nor refuse tokens.
LEMMA RespondPARStep ==
  ASSUME Inv, NEW r \in Requests, RespondPAR(r) PROVE Inv'
<1>1. /\ Finish(r) /\ UNCHANGED <<now, drift, reg, flow, cookie, held, page, codes, issued, refused, faults>>
      /\ pc[r] = "decided" /\ uris' \subseteq uris \cup {req[r].flow}
  BY DEF RespondPAR, browserVars
<1>2. uris' \subseteq Flows
  BY <1>1, AtHand, Around
<1>3. QED
  BY <1>1, <1>2, Around, AnswerStep

\* The answer to a start sets the cookie, or leaves it when no time is left.
LEMMA RespondStartStep ==
  ASSUME Inv, NEW r \in Requests, RespondStart(r) PROVE Inv'
<1>1. /\ Finish(r) /\ UNCHANGED <<now, drift, reg, flow, page, uris, codes, issued, refused, faults>>
      /\ pc[r] = "decided"
  BY DEF RespondStart, clientVars
<1>2. /\ req[r].flow \in Flows /\ req[r].browser \in Browsers /\ decision[r].expires \in Nat
      /\ TypeOK /\ now \in Nat
  BY <1>1, AtHand DEF Decision, Inv, TypeOK
<1>. PICK m : m = humanConfidentialBFFStartDeadline(decision[r].expires)
  OBVIOUS
<1>3. m \in 0..Window /\ now + m \in Nat
  BY <1>2, DeadlineBounded
<1>4. CASE UNCHANGED <<cookie, held>>
  BY <1>1, <1>4, Around, AnswerStep
<1>5. CASE /\ cookie' = [cookie EXCEPT ![req[r].browser] =
                           [binding |-> req[r].flow, expires |-> now + m, maxAge |-> m]]
           /\ held' = held \cup {<<req[r].browser, req[r].flow, "entry">>}
  <2>1. cookie' \in [Browsers -> [binding : Flows \cup {None}, expires : Nat,
                                  maxAge : 0..Window]]
    BY <1>2, <1>3, <1>5, CookieSet
  <2>2. held' \subseteq Browsers \X Flows \X Capability
    BY <1>2, <1>5, Around DEF Capability
  <2>3. QED
    BY <1>1, <2>1, <2>2, Around, AnswerStep
<1>6. QED
  BY <1>4, <1>5 DEF RespondStart

\* The answer to a confirmation hands the page over, or dismisses it.
LEMMA RespondConfirmStep ==
  ASSUME Inv, NEW r \in Requests, RespondConfirm(r) PROVE Inv'
<1>1. /\ Finish(r) /\ pc[r] = "decided"
      /\ UNCHANGED <<now, drift, reg, flow, cookie, page, uris, codes, issued, refused, faults>>
  BY DEF RespondConfirm, clientVars
<1>2. \/ held' \subseteq held
      \/ held' = held \cup {<<req[r].browser, req[r].flow, "ready">>}
  BY DEF RespondConfirm, Dismiss
<1>3. held' \subseteq Browsers \X Flows \X Capability
  BY <1>1, <1>2, AtHand, Around DEF Capability
<1>4. QED
  BY <1>1, <1>3, Around, AnswerStep

\* The code goes out with the redirect URI of the flow.
LEMMA RespondCompleteStep ==
  ASSUME Inv, NEW r \in Requests, RespondComplete(r) PROVE Inv'
<1>1. /\ Finish(r) /\ pc[r] = "decided" /\ held' \subseteq held
      /\ UNCHANGED <<now, drift, reg, flow, page, uris, issued, refused, faults>>
      /\ cookie' = [cookie EXCEPT ![req[r].browser] = NoCookie]
      /\ codes' \subseteq codes \cup {[flow |-> req[r].flow, browser |-> req[r].browser,
                                       uri |-> flow[req[r].flow].uri]}
  BY DEF RespondComplete, Dismiss
<1>2. /\ req[r].flow \in Flows /\ req[r].browser \in Browsers /\ flow[req[r].flow].uri \in URIs
  BY <1>1, AtHand DEF Inv, TypeOK, Flow
<1>3. codes' \subseteq [flow : Flows, browser : Browsers, uri : URIs]
  BY <1>1, <1>2, Around
<1>4. cookie' \in [Browsers -> [binding : Flows \cup {None}, expires : Nat, maxAge : 0..Window]]
  BY <1>1, <1>2, CookieCleared
<1>5. held' \subseteq Browsers \X Flows \X Capability
  BY <1>1, Around
<1>6. QED
  BY <1>1, <1>3, <1>4, <1>5, Around, AnswerStep

\* A refusal, by its two reasons.
Refusal(f, expired, rotated) == [flow |-> f, expired |-> expired, rotated |-> rotated]

\* Tokens are withheld because the decision expired, the registration rotated
\* or both.
LEMMA RefusalTyped ==
  ASSUME NEW f \in Flows, NEW e \in BOOLEAN, NEW o \in BOOLEAN, e \/ o
  PROVE  /\ Refusal(f, e, o) \in [flow : Flows, expired : BOOLEAN, rotated : BOOLEAN]
         /\ Refusal(f, e, o).expired \/ Refusal(f, e, o).rotated
  BY DEF Refusal

\* The tokens go out, or are withheld, after the redemption.
LEMMA RespondRedeemStep ==
  ASSUME Inv, NEW r \in Requests, RespondRedeem(r) PROVE Inv'
<1>1. /\ Finish(r) /\ pc[r] = "decided"
      /\ UNCHANGED <<now, drift, reg, flow, cookie, held, page, uris, codes, faults>>
  BY DEF RespondRedeem, browserVars
<1>2. /\ req[r].flow \in Flows /\ req[r].client \in Registration /\ decision[r] \in Decision
      /\ TypeOK /\ DecisionOK(r)
  BY <1>1, AtHand DEF Inv
<1>3. CASE UNCHANGED <<issued, refused>>
  BY <1>1, <1>3, Around, AnswerStep
<1>4. CASE /\ decision[r].outcome = "redeemed" /\ Correlated(r)
           /\ issued' = issued \cup {issueHumanAccessToken(req[r])} /\ UNCHANGED refused
  <2>. PICK t : t = issueHumanAccessToken(req[r])
    OBVIOUS
  <2>1. t.flow = req[r].flow /\ t.revision = req[r].client.revision
        /\ t \in [flow : Flows, revision : 1..MaxRevision]
    BY <1>2 DEF issueHumanAccessToken, Registration
  <2>2. IssuedOK(t)
    BY <1>2, <1>4, <2>1 DEF IssuedOK, DecisionOK, Correlated
  <2>3. issued' \subseteq [flow : Flows, revision : 1..MaxRevision]
        /\ \A x \in issued' \ issued : IssuedOK(x)
    BY <1>4, <2>1, <2>2, Around
  <2>4. QED
    BY <1>1, <1>4, <2>3, Around, AnswerStep
<1>5. CASE /\ ~(Correlated(r) /\ RedirectRegistered(r)
                /\ validHumanAuthorityDecisionWindow(decision[r]))
           /\ refused' = refused \cup {Refusal(req[r].flow, now - decision[r].expires >= 0,
                                               ~Correlated(r) \/ ~RedirectRegistered(r))}
           /\ UNCHANGED issued
  <2>. PICK x : x = Refusal(req[r].flow, now - decision[r].expires >= 0,
                            ~Correlated(r) \/ ~RedirectRegistered(r))
    OBVIOUS
  <2>1. now - decision[r].expires >= 0 \/ (~Correlated(r) \/ ~RedirectRegistered(r))
    BY <1>2, <1>5, WindowOfDecision DEF DecisionOK
  <2>2. /\ (now - decision[r].expires >= 0) \in BOOLEAN
        /\ (~Correlated(r) \/ ~RedirectRegistered(r)) \in BOOLEAN
    OBVIOUS
  <2>3. /\ x \in [flow : Flows, expired : BOOLEAN, rotated : BOOLEAN]
        /\ x.expired \/ x.rotated
    BY <1>2, <2>1, <2>2, RefusalTyped, Zenon
  <2>4. /\ refused' \subseteq [flow : Flows, expired : BOOLEAN, rotated : BOOLEAN]
        /\ \A y \in refused' \ refused : y.expired \/ y.rotated
    BY <1>5, <2>3, Around, Zenon
  <2>5. QED
    BY <1>1, <1>5, <2>4, Around, AnswerStep
<1>6. QED
  BY <1>3, <1>4, <1>5 DEF RespondRedeem, Refusal

\* No answer arrives.
LEMMA FaultStep ==
  ASSUME Inv, NEW r \in Requests, Lose(r) \/ CallFails(r) PROVE Inv'
<1>1. /\ Finish(r) /\ UNCHANGED <<now, drift, reg, flow, page, uris, codes, issued, refused>>
      /\ faults < MaxFaults /\ faults' = faults + 1
  BY DEF Lose, CallFails, browserVars, clientVars
<1>2. faults' \in 0..MaxFaults
  BY <1>1, Around, HumanAssumption
<1>3. CASE Lose(r)
  BY <1>1, <1>2, <1>3, Around, AnswerStep DEF Lose, browserVars
<1>4. CASE CallFails(r)
  <2>1. held' \subseteq Browsers \X Flows \X Capability
    BY <1>4, Around DEF CallFails, Dismiss
  <2>2. req[r].browser \in Browsers
    BY <1>4, AtHand DEF CallFails
  <2>3. cookie' \in [Browsers -> [binding : Flows \cup {None}, expires : Nat,
                                  maxAge : 0..Window]]
    BY <1>4, <2>2, CookieCleared, Around DEF CallFails
  <2>4. QED
    BY <1>1, <1>2, <2>1, <2>3, Around, AnswerStep
<1>5. QED
  BY <1>3, <1>4

\* A browser sends its cookie, if it has one that has not expired.
LEMMA BindingTyped ==
  ASSUME Inv, NEW b \in Browsers, Binding(b) # None
  PROVE  Binding(b) \in Flows /\ Binding(b) = cookie[b].binding
  BY Around DEF Binding

\* A request as the provider sends it: about a flow, a push about one that
\* nobody has pushed, and a completion with the cookie of its browser.
Sent(q) ==
  /\ q \in Request /\ q.flow \in Flows
  /\ q.op = "par" => flow[q.flow].stage = "none"
  /\ q.op = "complete" => q.browser \in Browsers /\ cookie[q.browser].binding = q.binding

Sends ==
  \/ \E f \in Flows, u \in URIs : SendPAR(f, u)
  \/ \E c \in codes : SendRedeem(c)
  \/ \E b \in Browsers, f \in Flows : SendStart(b, f) \/ SendConfirm(b, f) \/ SendComplete(b, f)

\* Whoever sends a request, the handler calls the authority with a well
\* formed one.
LEMMA SendsCall ==
  ASSUME Inv, Sends PROVE \E r \in Requests : \E q : Sent(q) /\ Call(r, q)
<1>1. /\ reg \in Registration /\ Browsers # {} /\ URIs # {} /\ 0 \in 0..MaxPages
      /\ page \in [Browsers -> [Flows -> 0..MaxPages]] /\ codes \subseteq [flow : Flows, browser : Browsers, uri : URIs]
  BY HumanAssumption DEF Inv, TypeOK
<1>2. ASSUME NEW f \in Flows, NEW u \in URIs, SendPAR(f, u)
      PROVE  \E r \in Requests : \E q : Sent(q) /\ Call(r, q)
  <2>. PICK q : q = HumanPARInput(reg, f, u)
    OBVIOUS
  <2>1. q \in Request /\ q.flow = f
    BY <1>1, InputsTyped
  <2>2. q.op = "par"
    BY DEF HumanPARInput, NoRequest
  <2>3. Sent(q)
    BY <1>2, <2>1, <2>2 DEF Sent, SendPAR
  <2>4. QED
    BY <1>2, <2>3 DEF SendPAR, cloneHumanConfidentialBFFClient, Requests
<1>3. ASSUME NEW c \in codes, SendRedeem(c)
      PROVE  \E r \in Requests : \E q : Sent(q) /\ Call(r, q)
  <2>. PICK q : q = HumanCodeRedemptionInput(reg, c.flow, c.uri)
    OBVIOUS
  <2>1. c.flow \in Flows /\ c.uri \in URIs
    BY <1>1
  <2>2. q \in Request /\ q.flow = c.flow
    BY <1>1, <2>1, InputsTyped
  <2>3. q.op = "redeem"
    BY DEF HumanCodeRedemptionInput, NoRequest
  <2>4. Sent(q)
    BY <2>1, <2>2, <2>3 DEF Sent
  <2>5. QED
    BY <1>3, <2>4 DEF SendRedeem, cloneHumanConfidentialBFFClient, Requests
<1>4. ASSUME NEW b \in Browsers, NEW f \in Flows, SendStart(b, f)
      PROVE  \E r \in Requests : \E q : Sent(q) /\ Call(r, q)
  <2>. PICK q : q = HumanStartInput(b, f)
    OBVIOUS
  <2>1. q \in Request /\ q.flow = f
    BY <1>1, InputsTyped
  <2>2. q.op = "start"
    BY DEF HumanStartInput, NoRequest
  <2>3. Sent(q)
    BY <2>1, <2>2 DEF Sent
  <2>4. QED
    BY <1>4, <2>3 DEF SendStart, Requests
<1>5. ASSUME NEW b \in Browsers, NEW f \in Flows, SendConfirm(b, f)
      PROVE  \E r \in Requests : \E q : Sent(q) /\ Call(r, q)
  <2>. PICK q : q = HumanContinuationInput(b, f, page[b][f], Binding(b))
    OBVIOUS
  <2>1. Binding(b) \in Flows /\ page[b][f] \in 0..MaxPages
    BY <1>1, <1>5, BindingTyped DEF SendConfirm
  <2>2. q \in Request /\ q.flow = f
    BY <1>1, <2>1, InputsTyped
  <2>3. q.op = "confirm"
    BY DEF HumanContinuationInput, NoRequest
  <2>4. Sent(q)
    BY <2>2, <2>3 DEF Sent
  <2>5. QED
    BY <1>5, <2>4 DEF SendConfirm, Requests
<1>6. ASSUME NEW b \in Browsers, NEW f \in Flows, SendComplete(b, f)
      PROVE  \E r \in Requests : \E q : Sent(q) /\ Call(r, q)
  <2>. PICK q : q = HumanCompletionInput(b, f, Binding(b))
    OBVIOUS
  <2>1. Binding(b) \in Flows /\ Binding(b) = cookie[b].binding
    BY <1>6, BindingTyped DEF SendComplete
  <2>2. q \in Request /\ q.flow = f
    BY <1>1, <2>1, InputsTyped
  <2>3. q.browser = b /\ q.binding = Binding(b)
    BY DEF HumanCompletionInput, NoRequest
  <2>4. q.op = "complete"
    BY DEF HumanCompletionInput, NoRequest
  <2>5. Sent(q)
    BY <2>1, <2>2, <2>3, <2>4 DEF Sent
  <2>6. QED
    BY <1>6, <2>5 DEF SendComplete, Requests
<1>7. QED
  BY <1>2, <1>3, <1>4, <1>5, <1>6 DEF Sends

\* What browsers do by themselves, the embedder and the clock.
Quiet ==
  \/ Tick
  \/ \E new \in Registration : Rotate(new)
  \/ \E b \in Browsers, f \in Flows :
       \/ PostWithoutCookie(b, f) \/ LoadPage(b, f)
       \/ \E c \in Browsers, cap \in Capability : OpenElsewhere(b, c, f, cap)

\* Steps of the clock, the registration and the browsers decide nothing.
LEMMA QuietStep ==
  ASSUME Inv, Quiet \/ UNCHANGED vars
  PROVE  /\ Inv' /\ UNCHANGED <<flow, issued, refused, codes, pc, req, decision>>
<1>1. TypeOK /\ now \in Nat
  BY DEF Inv, TypeOK
<1>2. UNCHANGED <<flow, issued, refused, codes, uris, pc, req, decision>>
  BY DEF Quiet, Tick, Rotate, PostWithoutCookie, LoadPage, OpenElsewhere, vars, browserVars,
         clientVars, handlers
<1>3. TypeOK' /\ now' >= now
  <2>1. CASE Tick
    BY <1>1, <2>1 DEF Tick, TypeOK, browserVars, clientVars, handlers
  <2>2. ASSUME NEW new \in Registration, Rotate(new) PROVE TypeOK' /\ now' >= now
    BY <1>1, <2>2 DEF Rotate, TypeOK, browserVars, clientVars, handlers
  <2>3. ASSUME NEW b \in Browsers, NEW f \in Flows, PostWithoutCookie(b, f)
        PROVE  TypeOK' /\ now' >= now
    <3>1. held' \subseteq held
          /\ UNCHANGED <<now, drift, reg, flow, cookie, page, uris, codes, issued, refused, pc, req, decision, faults>>
      BY <2>3 DEF PostWithoutCookie, Dismiss, clientVars, handlers
    <3>2. QED
      BY <1>1, <3>1 DEF TypeOK
  <2>4. ASSUME NEW b \in Browsers, NEW f \in Flows, LoadPage(b, f)
        PROVE  TypeOK' /\ now' >= now
    <3>1. /\ page' = [page EXCEPT ![b] = [page[b] EXCEPT ![f] = page[b][f] + 1]]
          /\ page[b][f] < MaxPages
          /\ UNCHANGED <<now, drift, reg, flow, cookie, held, uris, codes, issued, refused, pc, req, decision, faults>>
      BY <2>4 DEF LoadPage, clientVars, handlers
    <3>2. page[b] \in [Flows -> 0..MaxPages] /\ page[b][f] \in 0..MaxPages /\ MaxPages \in Nat
      BY <1>1, HumanAssumption DEF TypeOK
    <3>3. page[b][f] + 1 \in 0..MaxPages
      BY <3>1, <3>2
    <3>4. [page[b] EXCEPT ![f] = page[b][f] + 1] \in [Flows -> 0..MaxPages]
      BY <3>2, <3>3
    <3>5. page' \in [Browsers -> [Flows -> 0..MaxPages]]
      BY <1>1, <3>1, <3>4 DEF TypeOK
    <3>6. QED
      BY <1>1, <3>1, <3>5 DEF TypeOK
  <2>5. ASSUME NEW b \in Browsers, NEW f \in Flows, NEW c \in Browsers, NEW cap \in Capability,
               OpenElsewhere(b, c, f, cap)
        PROVE  TypeOK' /\ now' >= now
    BY <1>1, <2>5 DEF OpenElsewhere, TypeOK, clientVars, handlers
  <2>6. CASE UNCHANGED vars
    BY <1>1, <2>6 DEF vars, TypeOK, browserVars, clientVars, handlers
  <2>7. QED
    BY <2>1, <2>2, <2>3, <2>4, <2>5, <2>6 DEF Quiet
<1>4. QED
  BY <1>2, <1>3, StillStep

\* The steps of the system, grouped.
LEMMA NextCases ==
  ASSUME [Next]_vars
  PROVE  \/ Quiet \/ UNCHANGED vars \/ Sends
         \/ \E r \in Requests : Respond(r) \/ Lose(r) \/ CallFails(r)
  BY DEF Next, Quiet, Sends

\* Every step keeps the invariant.
LEMMA NextInv == Inv /\ [Next]_vars => Inv'
<1> SUFFICES ASSUME Inv, [Next]_vars PROVE Inv'
  OBVIOUS
<1>1. CASE Quiet \/ UNCHANGED vars
  BY <1>1, QuietStep
<1>2. CASE Sends
  <2>. PICK r \in Requests : \E q : Sent(q) /\ Call(r, q)
    BY <1>2, SendsCall
  <2>1. PICK q : Sent(q) /\ Call(r, q)
    OBVIOUS
  <2>2. QED
    BY <2>1, CallStep DEF Sent
<1>3. ASSUME NEW r \in Requests, Respond(r) \/ Lose(r) \/ CallFails(r) PROVE Inv'
  BY <1>3, RespondPARStep, RespondStartStep, RespondConfirmStep, RespondCompleteStep,
     RespondRedeemStep, FaultStep DEF Respond
<1>4. QED
  BY <1>1, <1>2, <1>3, NextCases

\* Nothing was decided before the first request.
LEMMA InitInv == Init => Inv
<1> SUFFICES ASSUME Init PROVE Inv
  OBVIOUS
<1>1. now \in Nat /\ now = Skew + 1
  BY HumanAssumption DEF Init
<1>2. "none" \in Outcomes
  BY DEF Outcomes
<1>3. /\ Outcome("none") \in Decision /\ Outcome("none").outcome = "none"
      /\ Outcome("none").created = 0
  BY <1>2, OutcomeTyped
<1>4. NoCookie \in [binding : Flows \cup {None}, expires : Nat, maxAge : 0..Window]
  BY HumanAssumption DEF NoCookie
<1>5. reg \in Registration
  BY HumanAssumption DEF Init, Registration
<1>6. TypeOK
  BY <1>1, <1>3, <1>4, <1>5, Placeholders, HumanAssumption DEF Init, TypeOK
<1>7. ASSUME NEW r \in Requests PROVE DecisionOK(r)
  <2>1. pc[r] = "idle" /\ decision[r] = Outcome("none")
    BY DEF Init
  <2>2. QED
    BY <1>1, <1>3, <2>1 DEF DecisionOK
<1>8. QED
  BY <1>6, <1>7 DEF Init, Inv, SkewBurnsNoCode

\* The invariant holds throughout.
LEMMA Invariant == Spec => []Inv
  BY InitInv, NextInv, PTL DEF Spec

\* The records of the provider and of the authority stay well formed: the
\* cookie's lifetime within the window of an interaction, whatever the skew.
THEOREM TypeCorrect == Spec => []TypeOK
<1>1. Inv => TypeOK
  BY DEF Inv
<1>2. QED
  BY <1>1, Invariant, PTL

\* validHumanAuthorityDecisionWindow allows for the skew on both sides, so a
\* code that the authority redeemed is lost to the client only if the
\* decision expired or the registration was rotated.
THEOREM SkewIsHarmless == Spec => []SkewBurnsNoCode
<1>1. Inv => SkewBurnsNoCode
  BY DEF Inv
<1>2. QED
  BY <1>1, Invariant, PTL

\* reboundHumanCompletionRedirect and the correlation of the token response
\* compare with the registration that pushed the flow, although it may rotate
\* between any two requests.
THEOREM CodesAndTokensAsAdmitted == Spec => AdmittedRegistrationOnly
<1>1. Inv /\ Inv' /\ [Next]_vars =>
        [/\ \A c \in codes' \ codes :
              reg.strict /\ reg.revision = flow[c.flow].revision /\ c.uri \in reg.redirects
         /\ \A t \in issued' : t.revision = flow[t.flow].revision]_vars
  <2> SUFFICES ASSUME Inv, Inv', [Next]_vars
               PROVE  /\ \A c \in codes' \ codes :
                           reg.strict /\ reg.revision = flow[c.flow].revision /\ c.uri \in reg.redirects
                      /\ \A t \in issued' : t.revision = flow[t.flow].revision
    OBVIOUS
  <2>1. issued' = issued \/ flow' = flow
    <3>1. CASE Quiet \/ UNCHANGED vars
      BY <3>1, QuietStep
    <3>2. CASE Sends
      BY <3>2, SendsCall DEF Call, clientVars
    <3>3. ASSUME NEW r \in Requests, Respond(r) \/ Lose(r) \/ CallFails(r) PROVE flow' = flow
      BY <3>3 DEF Respond, RespondPAR, RespondStart, RespondConfirm, RespondComplete,
                  RespondRedeem, Lose, CallFails
    <3>4. QED
      BY <3>1, <3>2, <3>3, NextCases
  <2>2. \A t \in issued' : t.revision = flow[t.flow].revision
    BY <2>1 DEF Inv, IssuedOK
  <2>3. codes' = codes \/ \E r \in Requests : RespondComplete(r)
    <3>1. CASE Quiet \/ UNCHANGED vars
      BY <3>1, QuietStep
    <3>2. CASE Sends
      BY <3>2, SendsCall DEF Call, clientVars
    <3>3. ASSUME NEW r \in Requests, Respond(r) \/ Lose(r) \/ CallFails(r)
          PROVE  codes' = codes \/ RespondComplete(r)
      BY <3>3 DEF Respond, RespondPAR, RespondStart, RespondConfirm, RespondRedeem, Lose,
                  CallFails, clientVars
    <3>4. QED
      BY <3>1, <3>2, <3>3, NextCases
  <2>4. ASSUME NEW r \in Requests, RespondComplete(r), NEW c \in codes' \ codes
        PROVE  /\ reg.strict /\ reg.revision = flow[c.flow].revision
               /\ c.uri \in reg.redirects
    <3>1. /\ decision[r].outcome = "completed" /\ reboundHumanCompletionRedirect(r)
          /\ c = [flow |-> req[r].flow, browser |-> req[r].browser,
                  uri |-> flow[req[r].flow].uri]
      BY <2>4 DEF RespondComplete
    <3>2. c.flow = req[r].flow /\ c.uri = flow[req[r].flow].uri
      BY <3>1
    <3>3. decision[r].revision = flow[req[r].flow].revision
      BY <3>1 DEF Inv, DecisionOK
    <3>4. QED
      BY <3>1, <3>2, <3>3 DEF reboundHumanCompletionRedirect
  <2>5. QED
    BY <2>2, <2>3, <2>4
<1>2. QED
  BY <1>1, Invariant, PTL DEF Spec, AdmittedRegistrationOnly

-----------------------------------------------------------------------------
(* Where a code came from. *)

\* A completion is decided for a browser that was given the cookie of the flow.
LEMMA OriginCall ==
  ASSUME Inv, HistoryInv, starters \subseteq starters', NEW r \in Requests, NEW q, Sent(q),
         Call(r, q), NEW k \in Requests
  PROVE  OriginOK(k)'
<1>1. TypeOK /\ q \in Request /\ q.flow \in Flows
  BY DEF Inv, Sent
<1>2. \E d : decision' = [decision EXCEPT ![r] = d] /\ Decided(q, d)
  BY <1>1, CallEffect DEF Sent
<1>3. PICK d : decision' = [decision EXCEPT ![r] = d] /\ Decided(q, d)
  BY <1>2
<1>4. req' = [req EXCEPT ![r] = q]
  BY DEF Call
<1>5. CASE k = r
  <2>1. decision'[k] = d /\ req'[k] = q
    BY <1>1, <1>3, <1>4, <1>5 DEF TypeOK
  <2>2. ASSUME d.outcome = "completed"
        PROVE  q.op = "complete" /\ <<q.browser, q.flow>> \in starters'
    <3>1. q.op = "complete" /\ q.binding = q.flow
      BY <1>3, <2>2 DEF Decided
    <3>2. q.browser \in Browsers /\ cookie[q.browser].binding = q.flow
      BY <3>1 DEF Sent
    <3>3. QED
      BY <1>1, <3>1, <3>2 DEF HistoryInv
  <2>3. QED
    BY <2>1, <2>2 DEF OriginOK
<1>6. CASE k # r
  <2>1. decision'[k] = decision[k] /\ req'[k] = req[k]
    BY <1>1, <1>3, <1>4, <1>6 DEF TypeOK
  <2>2. QED
    BY <2>1 DEF HistoryInv, OriginOK
<1>7. QED
  BY <1>5, <1>6

\* The history stays in order.
LEMMA HistoryNextInv ==
  ASSUME Inv, HistoryInv, [HistoryNext]_mcvars
  PROVE  HistoryInv'
<1>1. [Next]_vars /\ starters \subseteq starters'
  BY DEF HistoryNext, mcvars
<1>2. \A b \in Browsers, f \in Flows : cookie'[b].binding = f => <<b, f>> \in starters'
  <2>1. CASE UNCHANGED mcvars
    BY <2>1 DEF mcvars, vars, browserVars, HistoryInv
  <2>2. CASE HistoryNext
    BY <2>2 DEF HistoryNext
  <2>3. QED
    BY <2>1, <2>2
<1>3. CASE Quiet \/ UNCHANGED vars
  BY <1>1, <1>2, <1>3, QuietStep DEF HistoryInv, OriginOK, CodeStaysInBrowser
<1>4. CASE Sends
  <2>. PICK r \in Requests : \E q : Sent(q) /\ Call(r, q)
    BY <1>4, SendsCall
  <2>1. PICK q : Sent(q) /\ Call(r, q)
    OBVIOUS
  <2>2. \A k \in Requests : OriginOK(k)'
    BY <1>1, <2>1, OriginCall
  <2>3. codes' = codes
    BY <2>1 DEF Call, clientVars
  <2>4. QED
    BY <1>1, <1>2, <2>2, <2>3 DEF HistoryInv, CodeStaysInBrowser
<1>5. ASSUME NEW r \in Requests, Respond(r) \/ Lose(r) \/ CallFails(r) PROVE HistoryInv'
  <2>1. Finish(r) /\ TypeOK
    BY <1>5 DEF Respond, RespondPAR, RespondStart, RespondConfirm, RespondComplete,
                RespondRedeem, Lose, CallFails, Inv
  <2>2. \A k \in Requests : OriginOK(k)'
    <3>1. decision'[r].outcome = "none" /\ \A k \in Requests \ {r} :
            decision'[k] = decision[k] /\ req'[k] = req[k]
      BY <2>1, Finished
    <3>2. QED
      BY <1>1, <3>1 DEF HistoryInv, OriginOK
  <2>3. codes' = codes \/ RespondComplete(r)
    BY <1>5 DEF Respond, RespondPAR, RespondStart, RespondConfirm, RespondRedeem, Lose,
                CallFails, clientVars
  <2>4. CodeStaysInBrowser'
    <3>1. CASE codes' = codes
      BY <1>1, <3>1 DEF HistoryInv, CodeStaysInBrowser
    <3>2. CASE codes' # codes
      <4>. PICK c : c = [flow |-> req[r].flow, browser |-> req[r].browser,
                         uri |-> flow[req[r].flow].uri]
        OBVIOUS
      <4>1. decision[r].outcome = "completed" /\ codes' = codes \cup {c}
        BY <2>3, <3>2 DEF RespondComplete
      <4>2. c.flow = req[r].flow /\ c.browser = req[r].browser
        OBVIOUS
      <4>3. <<c.browser, c.flow>> \in starters
        BY <4>1, <4>2 DEF HistoryInv, OriginOK
      <4>4. QED
        BY <1>1, <4>1, <4>3 DEF HistoryInv, CodeStaysInBrowser
    <3>3. QED
      BY <3>1, <3>2
  <2>5. QED
    BY <1>2, <2>2, <2>4 DEF HistoryInv
<1>6. QED
  BY <1>1, <1>3, <1>4, <1>5, NextCases

\* ConsumePARAndStartContinuation binds a flow to the cookie of the browser
\* that started it; whoever opens the later links elsewhere, the code comes
\* through that browser.
THEOREM CodesStayInBrowser == HistorySpec => []CodeStaysInBrowser
<1>1. HistoryInit => Inv /\ HistoryInv
  <2> SUFFICES ASSUME HistoryInit PROVE HistoryInv
    BY InitInv DEF HistoryInit
  <2>1. \A b \in Browsers : cookie[b].binding = None
    BY DEF HistoryInit, Init, NoCookie
  <2>2. \A r \in Requests : decision[r].outcome = "none"
    BY DEF HistoryInit, Init, Outcome
  <2>3. QED
    BY <2>1, <2>2, HumanAssumption
    DEF HistoryInit, Init, HistoryInv, OriginOK, CodeStaysInBrowser
<1>2. Inv /\ HistoryInv /\ [HistoryNext]_mcvars => (Inv /\ HistoryInv)'
  <2>1. [HistoryNext]_mcvars => [Next]_vars
    BY DEF HistoryNext, mcvars
  <2>2. QED
    BY <2>1, NextInv, HistoryNextInv
<1>3. HistoryInv => CodeStaysInBrowser
  BY DEF HistoryInv
<1>4. QED
  BY <1>1, <1>2, <1>3, PTL DEF HistorySpec
=============================================================================
