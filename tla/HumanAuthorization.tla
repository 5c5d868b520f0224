------------------------- MODULE HumanAuthorization -------------------------
(***************************************************************************)
(* The strict sign-in of a confidential client with a human user           *)
(* (AuthorizationRequestProfileHumanConfidentialBFF): the client pushes a  *)
(* request, a browser starts it at the authorization endpoint and walks    *)
(* through the identity origin and two interaction pages, and the client   *)
(* redeems the code that the last page redirects with.                     *)
(*                                                                         *)
(* Every state of such a flow belongs to an external authority whose five  *)
(* transitions are atomic.  The provider validates a request against the   *)
(* client's registration, calls the authority, and checks the decision     *)
(* against the registration and its own clock before it answers.  Between  *)
(* any two of these the registration may be rotated, time may pass, other  *)
(* tabs and browsers go on, and the answer may be lost.                    *)
(***************************************************************************)
EXTENDS Integers, FiniteSets

CONSTANTS
  Flows,      \* pushed requests; all capabilities of a flow are named by it
  None,       \* no flow
  Browsers,
  URIs,       \* redirect URIs
  Client,     \* the confidential client
  Skew,       \* JWTLeewayTimeSecs, and how far the two clocks are apart
  PARLife, Window, CodeLife, DecisionLife,  \* lifetimes; Window is the 300 s of an interaction
  MaxTime, MaxRevision, MaxPages, MaxFaults \* bounds of the instance

ASSUME HumanAssumption ==
  /\ None \notin Flows
  /\ Browsers # {} /\ URIs # {} /\ Client \notin Browsers
  /\ Skew \in Nat /\ PARLife \in Nat /\ Window \in Nat \ {0}
  /\ CodeLife \in Nat /\ DecisionLife \in Nat \ {0}
  /\ MaxTime \in Nat /\ MaxRevision \in Nat \ {0} /\ MaxPages \in Nat /\ MaxFaults \in Nat

\* The goroutines that serve requests: a browser waits for one answer at a
\* time, and so does the client.
Requests == Browsers \cup {Client}

VARIABLES
  now,       \* the clock of the authority
  drift,     \* how far the provider's clock is ahead of it
  reg,       \* the client's registration
  flow,      \* what the authority stores of each flow
  uris,      \* flows whose request_uri reached the client
  cookie,    \* the browser-binding cookie of each browser
  held,      \* <<b, f, cap>>: browser b holds the link of the stage cap of flow f
  page,      \* page[b][f]: how many first pages b has loaded for f
  codes,     \* the codes that reached the client
  issued,    \* the token responses that reached it
  refused,   \* redeemed codes whose tokens the provider withheld
  pc, req, decision,  \* the goroutines
  faults

browserVars == <<cookie, held, page>>
clientVars == <<uris, codes, issued, refused>>
handlers == <<pc, req, decision>>
vars == <<now, drift, reg, flow, browserVars, clientVars, handlers, faults>>

ProviderNow == now + drift

\* The facets of the registration that stages compare: its profile, the
\* revision of its key snapshot and its redirect URIs.
Registration == [strict : BOOLEAN, revision : 1..MaxRevision,
                 redirects : (SUBSET URIs) \ {{}}]

\* The browser_return minted into the n-th page of a browser.
Pages == Browsers \X (0..MaxPages)

Flow == [stage : {"none", "stored", "started", "confirmed", "completed", "failed", "redeemed"},
         revision : Nat, uri : URIs, expires : Nat, page : Pages]

\* The stages of a browser, each entered with a capability of its own.
Capability == {"entry", "ready"}

Request == [op : {"none", "par", "start", "confirm", "complete", "redeem"},
            flow : Flows \cup {None}, browser : Browsers, binding : Flows \cup {None},
            page : Pages, uri : URIs, client : Registration]

\* The decisions of the authority; the facets a stage does not have are 0.
Decision == [outcome : {"none", "created", "pending", "confirmed", "replayed", "completed",
                        "failed", "redeemed", "expired", "rejected"},
             page : Pages, revision : Nat, created : Nat, expires : Nat]

AnyBrowser == CHOOSE b \in Browsers : TRUE
AnyURI == CHOOSE u \in URIs : TRUE
NoPage == <<AnyBrowser, 0>>
NoFlow == [stage |-> "none", revision |-> 0, uri |-> AnyURI, expires |-> 0, page |-> NoPage]
NoClient == [strict |-> FALSE, revision |-> 1, redirects |-> URIs]
NoRequest == [op |-> "none", flow |-> None, browser |-> AnyBrowser, binding |-> None,
              page |-> NoPage, uri |-> AnyURI, client |-> NoClient]
Outcome(outcome) ==
  [outcome |-> outcome, page |-> NoPage, revision |-> 0, created |-> 0, expires |-> 0]
NoCookie == [binding |-> None, expires |-> 0, maxAge |-> 0]

\* What the provider sends to the authority.
HumanPARInput(client, f, u) ==
  [NoRequest EXCEPT !.op = "par", !.flow = f, !.uri = u, !.client = client]
HumanStartInput(b, f) == [NoRequest EXCEPT !.op = "start", !.flow = f, !.browser = b]
HumanContinuationInput(b, f, n, binding) ==
  [NoRequest EXCEPT !.op = "confirm", !.flow = f, !.browser = b,
                    !.page = <<b, n>>, !.binding = binding]
HumanCompletionInput(b, f, binding) ==
  [NoRequest EXCEPT !.op = "complete", !.flow = f, !.browser = b, !.binding = binding]
HumanCodeRedemptionInput(client, f, u) ==
  [NoRequest EXCEPT !.op = "redeem", !.flow = f, !.uri = u, !.client = client]

\* What the authority decides, when it is not a bare outcome.
HumanStartDecision(expires) == [Outcome("pending") EXCEPT !.expires = expires]
HumanContinuationDecision(outcome, n) == [Outcome(outcome) EXCEPT !.page = n]
HumanCompletionDecision(outcome, revision) == [Outcome(outcome) EXCEPT !.revision = revision]
HumanCodeRedemptionDecision(revision, created, expires) ==
  [Outcome("redeemed") EXCEPT !.revision = revision, !.created = created, !.expires = expires]

-----------------------------------------------------------------------------
(* The authority, as HumanAuthorizationAuthority asks for it and as the     *)
(* tests implement it. Each method is one step.                             *)

Decide(r, d) == decision' = [decision EXCEPT ![r] = d]
SetFlow(f, new) == flow' = [flow EXCEPT ![f] = new]
InTime(f) == now < flow[f].expires

StorePAR(r, q) ==
  \/ /\ SetFlow(q.flow, [stage |-> "stored", revision |-> q.client.revision, uri |-> q.uri,
                         expires |-> now + PARLife, page |-> NoPage])
     /\ Decide(r, Outcome("created"))
  \/ Decide(r, Outcome("rejected")) /\ UNCHANGED flow

ConsumePARAndStartContinuation(r, q) ==
  LET f == q.flow IN
  IF flow[f].stage = "stored" /\ InTime(f)
  THEN /\ SetFlow(f, [flow[f] EXCEPT !.stage = "started", !.expires = now + Window])
       /\ Decide(r, HumanStartDecision(now + Window))
  ELSE Decide(r, Outcome("rejected")) /\ UNCHANGED flow

\* A confirmation is replayed to the page that made it and to no other.
ConfirmBrowser(r, q) ==
  LET f == q.flow IN
  \/ /\ flow[f].stage = "started" /\ q.binding = f /\ InTime(f)
     /\ SetFlow(f, [flow[f] EXCEPT !.stage = "confirmed", !.page = q.page])
     /\ Decide(r, HumanContinuationDecision("confirmed", q.page))
  \/ /\ ~(flow[f].stage = "started" /\ q.binding = f /\ InTime(f))
     /\ Decide(r, CASE q.binding # f -> Outcome("rejected")
                    [] q.binding = f /\ ~InTime(f) -> Outcome("expired")
                    [] q.binding = f /\ InTime(f) /\ flow[f].stage = "confirmed"
                       /\ flow[f].page = q.page -> HumanContinuationDecision("replayed", q.page)
                    [] OTHER -> Outcome("rejected"))
     /\ UNCHANGED flow

\* The user may have declined: the flow then ends with a failure.
CompleteAuthorization(r, q) ==
  LET f == q.flow IN
  \/ /\ flow[f].stage = "confirmed" /\ q.binding = f /\ InTime(f)
     /\ \E end \in {"completed", "failed"} :
          /\ SetFlow(f, [flow[f] EXCEPT !.stage = end, !.expires = now + CodeLife])
          /\ Decide(r, HumanCompletionDecision(end, flow[f].revision))
  \/ /\ ~(flow[f].stage = "confirmed" /\ q.binding = f /\ InTime(f))
     /\ \E outcome \in {"replayed", "expired", "rejected"} : Decide(r, Outcome(outcome))
     /\ UNCHANGED flow

\* The decision carries the key authority that admitted the flow. Whether a
\* code is spent by a client with another one is left to the authority.
RedeemAuthorizationCode(r, q) ==
  LET f == q.flow
      good == flow[f].stage = "completed" /\ InTime(f) /\ q.uri = flow[f].uri IN
  \/ /\ good
     /\ SetFlow(f, [flow[f] EXCEPT !.stage = "redeemed"])
     /\ Decide(r, HumanCodeRedemptionDecision(flow[f].revision, now, now + DecisionLife))
  \/ /\ ~good \/ q.client.revision # flow[f].revision
     /\ Decide(r, Outcome("rejected"))
     /\ UNCHANGED flow

-----------------------------------------------------------------------------
(* Requests: what the provider checks before it calls the authority, and    *)
(* the call.                                                                *)

\* callHumanAuthorizationAuthority: the request reaches the authority.
Call(r, q) ==
  /\ pc[r] = "idle"
  /\ pc' = [pc EXCEPT ![r] = "decided"]
  /\ req' = [req EXCEPT ![r] = q]
  /\ \/ q.op = "par" /\ StorePAR(r, q)
     \/ q.op = "start" /\ ConsumePARAndStartContinuation(r, q)
     \/ q.op = "confirm" /\ ConfirmBrowser(r, q)
     \/ q.op = "complete" /\ CompleteAuthorization(r, q)
     \/ q.op = "redeem" /\ RedeemAuthorizationCode(r, q)
  /\ UNCHANGED <<now, drift, reg, browserVars, clientVars, faults>>

Finish(r) ==
  /\ pc' = [pc EXCEPT ![r] = "idle"]
  /\ req' = [req EXCEPT ![r] = NoRequest]
  /\ decision' = [decision EXCEPT ![r] = Outcome("none")]

\* A handler works on a deep copy of the registration it loaded.
cloneHumanConfidentialBFFClient == reg

\* authorizationAdmissionClient, validHumanConfidentialBFFClient: the client
\* has the strict profile and the closed registration that goes with it.
authorizationAdmissionClient == reg.strict

\* What a pushed request has to match in the registration and the
\* configuration; the parameters other than redirect_uri are left out.
humanConfidentialBFFAtomicPARMatchesCurrentAuthority(u) == u \in reg.redirects

\* pushHumanConfidentialBFFAuthorization: the client authenticated with a key
\* of the current snapshot and asks for a redirect URI of the registration.
SendPAR(f, u) ==
  /\ authorizationAdmissionClient
  /\ humanConfidentialBFFAtomicPARMatchesCurrentAuthority(u)
  /\ flow[f].stage = "none"
  /\ Call(Client, HumanPARInput(cloneHumanConfidentialBFFClient, f, u))

\* initAuth: a strict request_uri goes to the authority only for a client that
\* still has the strict profile, and never to the legacy sessions.
SendStart(b, f) ==
  /\ authorizationAdmissionClient
  /\ f \in uris
  /\ Call(b, HumanStartInput(b, f))

\* The cookie a browser sends along.
Binding(b) == IF now < cookie[b].expires THEN cookie[b].binding ELSE None

\* The form of the first interaction page, posted once or again.
SendConfirm(b, f) ==
  /\ page[b][f] # 0 /\ <<b, f, "entry">> \in held
  /\ Binding(b) # None
  /\ Call(b, HumanContinuationInput(b, f, page[b][f], Binding(b)))

\* Mutant: the binding is taken from the link instead of the cookie.
SendComplete_Unbound(b, f) ==
  /\ <<b, f, "ready">> \in held
  /\ Call(b, HumanCompletionInput(b, f, f))

\* The form of the second one.
SendComplete(b, f) ==
  /\ <<b, f, "ready">> \in held
  /\ Binding(b) # None
  /\ Call(b, HumanCompletionInput(b, f, Binding(b)))

validHumanTokenClient == reg.strict

\* generateAuthCodeToken: a client that lost the strict profile is refused
\* before the authority hears of the code.
SendRedeem(c) ==
  /\ validHumanTokenClient
  /\ c \in codes
  /\ Call(Client, HumanCodeRedemptionInput(cloneHumanConfidentialBFFClient, c.flow, c.uri))

\* A form without a cookie: the browser is asked to start again.
Dismiss(b, f) == held' = held \ ({b} \X {f} \X Capability)

PostWithoutCookie(b, f) ==
  /\ Binding(b) = None
  /\ (page[b][f] # 0 /\ <<b, f, "entry">> \in held) \/ <<b, f, "ready">> \in held
  /\ Dismiss(b, f)
  /\ UNCHANGED <<now, drift, reg, flow, cookie, page, clientVars, handlers, faults>>

\* handleHumanBrowserInteractionGET: each page gets a browser_return of its
\* own. (The identity origin led the browser here from its entry link.)
LoadPage(b, f) ==
  /\ <<b, f, "entry">> \in held
  /\ page[b][f] < MaxPages
  /\ page' = [page EXCEPT ![b][f] = @ + 1]
  /\ UNCHANGED <<now, drift, reg, flow, cookie, held, clientVars, handlers, faults>>

\* The user opens a link in another browser.
OpenElsewhere(b, c, f, cap) ==
  /\ <<b, f, cap>> \in held /\ <<c, f, cap>> \notin held
  /\ held' = held \cup {<<c, f, cap>>}
  /\ UNCHANGED <<now, drift, reg, flow, cookie, page, clientVars, handlers, faults>>

-----------------------------------------------------------------------------
(* Answers.                                                                 *)

RespondPAR(r) ==
  /\ pc[r] = "decided" /\ req[r].op = "par"
  /\ uris' = IF decision[r].outcome = "created" THEN uris \cup {req[r].flow} ELSE uris
  /\ Finish(r)
  /\ UNCHANGED <<now, drift, reg, flow, browserVars, codes, issued, refused, faults>>

\* Mutant: the lifetime is passed on as it comes.
humanConfidentialBFFStartDeadline_Unclamped(expires) == expires - ProviderNow

\* The lifetime of the cookie, 0 when the deadline is refused.
humanConfidentialBFFStartDeadline(expires) ==
  LET remaining == expires - ProviderNow IN
  CASE remaining <= 0 \/ remaining > Window + Skew -> 0
    [] remaining > Window /\ remaining <= Window + Skew -> Window
    [] OTHER -> remaining

\* startHumanConfidentialBFFAuthorization. The cookie has one name, so it
\* replaces the one of any earlier flow of the browser.
RespondStart(r) ==
  LET q == req[r]
      maxAge == humanConfidentialBFFStartDeadline(decision[r].expires) IN
  /\ pc[r] = "decided" /\ q.op = "start"
  /\ IF decision[r].outcome = "pending" /\ maxAge # 0
     THEN /\ cookie' = [cookie EXCEPT ![q.browser] =
                          [binding |-> q.flow, expires |-> now + maxAge, maxAge |-> maxAge]]
          /\ held' = held \cup {<<q.browser, q.flow, "entry">>}
     ELSE UNCHANGED <<cookie, held>>
  /\ Finish(r)
  /\ UNCHANGED <<now, drift, reg, flow, page, clientVars, faults>>

\* Mutant: only the first answer counts.
ConfirmAccepted_Once(r) == decision[r].outcome = "confirmed" /\ decision[r].page = req[r].page

ConfirmAccepted(r) ==
  decision[r].outcome \in {"confirmed", "replayed"} /\ decision[r].page = req[r].page

\* handleHumanBrowserInteractionPOST: on to the identity origin, which hands
\* the browser the ready link; or start again. A browser that has gone on to a
\* later page does not show the answer.
RespondConfirm(r) ==
  LET q == req[r] IN
  /\ pc[r] = "decided" /\ q.op = "confirm"
  /\ CASE q.page[2] # page[q.browser][q.flow] -> UNCHANGED held
       [] q.page[2] = page[q.browser][q.flow] /\ ConfirmAccepted(r) ->
            held' = held \cup {<<q.browser, q.flow, "ready">>}
       [] OTHER -> Dismiss(q.browser, q.flow)
  /\ Finish(r)
  /\ UNCHANGED <<now, drift, reg, flow, cookie, page, clientVars, faults>>

\* Mutant: the revision of the registration is not compared.
reboundHumanCompletionRedirect_AnyRevision(r) ==
  reg.strict /\ flow[req[r].flow].uri \in reg.redirects

\* The registration is loaded again: the profile, the snapshot that admitted
\* the flow and the redirect URI must still be there.
reboundHumanCompletionRedirect(r) ==
  /\ reg.strict
  /\ reg.revision = decision[r].revision
  /\ flow[req[r].flow].uri \in reg.redirects

\* handleHumanConsumeInteractionPOST: the cookie is cleared whatever the
\* decision was.
RespondComplete(r) ==
  LET q == req[r] IN
  /\ pc[r] = "decided" /\ q.op = "complete"
  /\ cookie' = [cookie EXCEPT ![q.browser] = NoCookie]
  /\ codes' = IF decision[r].outcome = "completed" /\ reboundHumanCompletionRedirect(r)
              THEN codes \cup {[flow |-> q.flow, browser |-> q.browser,
                                uri |-> flow[q.flow].uri]}
              ELSE codes
  /\ Dismiss(q.browser, q.flow)
  /\ Finish(r)
  /\ UNCHANGED <<now, drift, reg, flow, page, uris, issued, refused, faults>>

\* Mutant: a decision from a clock that is ahead is refused.
validHumanAuthorityDecisionWindow_NoSkew(d) ==
  d.created <= ProviderNow /\ ProviderNow < d.expires

\* validHumanAuthorityDecisionWindow, humanAuthorityTimestampNotExpired.
validHumanAuthorityDecisionWindow(d) ==
  /\ d.created - ProviderNow <= Skew
  /\ d.expires > ProviderNow \/ (Skew > 0 /\ ProviderNow - d.expires <= Skew)

\* The decision is about the key authority the client authenticated with.
Correlated(r) == decision[r].revision = req[r].client.revision

\* The redirect URI is one of the registration the client authenticated with.
RedirectRegistered(r) == req[r].uri \in req[r].client.redirects

\* The facts of the tokens that properties compare.
issueHumanAccessToken(q) == [flow |-> q.flow, revision |-> q.client.revision]

\* generateHumanAuthorizationCodeToken after the authority's decision.
RespondRedeem(r) ==
  LET q == req[r]
      d == decision[r] IN
  /\ pc[r] = "decided" /\ q.op = "redeem"
  /\ IF d.outcome = "redeemed"
     THEN IF Correlated(r) /\ RedirectRegistered(r) /\ validHumanAuthorityDecisionWindow(d)
          THEN issued' = issued \cup {issueHumanAccessToken(q)} /\ UNCHANGED refused
          ELSE /\ refused' = refused \cup
                    {[flow |-> q.flow, expired |-> now - d.expires >= 0,
                      rotated |-> ~Correlated(r) \/ ~RedirectRegistered(r)]}
               /\ UNCHANGED issued
     ELSE UNCHANGED <<issued, refused>>
  /\ Finish(r)
  /\ UNCHANGED <<now, drift, reg, flow, browserVars, uris, codes, faults>>

\* The answer is lost, or signing fails: nobody is told. (A request that is
\* lost changed nothing.)
Lose(r) ==
  /\ pc[r] # "idle" /\ faults < MaxFaults
  /\ faults' = faults + 1
  /\ Finish(r)
  /\ UNCHANGED <<now, drift, reg, flow, browserVars, clientVars>>

\* The authority fails after its transition: the browser is asked to
\* start again, and a completion clears the cookie all the same.
CallFails(r) ==
  LET q == req[r] IN
  /\ pc[r] = "decided" /\ faults < MaxFaults
  /\ q.op \in {"confirm", "complete"}
  /\ faults' = faults + 1
  /\ Dismiss(q.browser, q.flow)
  /\ cookie' = IF q.op = "complete" THEN [cookie EXCEPT ![q.browser] = NoCookie] ELSE cookie
  /\ Finish(r)
  /\ UNCHANGED <<now, drift, reg, flow, page, clientVars>>

-----------------------------------------------------------------------------
\* The embedder changes the registration; keys come with a new revision.
Rotate(new) ==
  /\ new \in Registration
  /\ new.revision = reg.revision + 1
  /\ reg' = new
  /\ UNCHANGED <<now, drift, flow, browserVars, clientVars, handlers, faults>>

Tick ==
  /\ now < MaxTime
  /\ now' = now + 1
  /\ UNCHANGED <<drift, reg, flow, browserVars, clientVars, handlers, faults>>

Init ==
  /\ now = Skew + 1
  /\ drift \in -Skew..Skew
  /\ reg = [strict |-> TRUE, revision |-> 1, redirects |-> URIs]
  /\ flow = [f \in Flows |-> NoFlow]
  /\ uris = {} /\ codes = {} /\ issued = {} /\ refused = {}
  /\ cookie = [b \in Browsers |-> NoCookie]
  /\ held = {}
  /\ page = [b \in Browsers |-> [f \in Flows |-> 0]]
  /\ pc = [r \in Requests |-> "idle"]
  /\ req = [r \in Requests |-> NoRequest]
  /\ decision = [r \in Requests |-> Outcome("none")]
  /\ faults = 0

Respond(r) ==
  RespondPAR(r) \/ RespondStart(r) \/ RespondConfirm(r) \/ RespondComplete(r) \/ RespondRedeem(r)

Next ==
  \/ Tick
  \/ \E new \in Registration : Rotate(new)
  \/ \E f \in Flows, u \in URIs : SendPAR(f, u)
  \/ \E c \in codes : SendRedeem(c)
  \/ \E r \in Requests : Respond(r) \/ Lose(r) \/ CallFails(r)
  \/ \E b \in Browsers, f \in Flows :
       \/ SendStart(b, f) \/ SendConfirm(b, f) \/ SendComplete(b, f)
       \/ PostWithoutCookie(b, f) \/ LoadPage(b, f)
       \/ \E c \in Browsers, cap \in Capability : OpenElsewhere(b, c, f, cap)

Spec == Init /\ [][Next]_vars

\* Requests are served, and a browser whose form got no answer posts it again.
Fairness ==
  /\ \A r \in Requests : WF_vars(Respond(r))
  /\ \A b \in Browsers, f \in Flows : SF_vars(SendConfirm(b, f))

FairSpec == Spec /\ Fairness

-----------------------------------------------------------------------------
(* Properties. *)

TypeOK ==
  /\ now \in Nat /\ drift \in -Skew..Skew /\ reg \in Registration
  /\ flow \in [Flows -> Flow]
  /\ uris \subseteq Flows
  /\ cookie \in [Browsers -> [binding : Flows \cup {None}, expires : Nat, maxAge : 0..Window]]
  /\ held \subseteq Browsers \X Flows \X Capability
  /\ page \in [Browsers -> [Flows -> 0..MaxPages]]
  /\ codes \subseteq [flow : Flows, browser : Browsers, uri : URIs]
  /\ issued \subseteq [flow : Flows, revision : 1..MaxRevision]
  /\ refused \subseteq [flow : Flows, expired : BOOLEAN, rotated : BOOLEAN]
  /\ pc \in [Requests -> {"idle", "decided"}]
  /\ req \in [Requests -> Request]
  /\ decision \in [Requests -> Decision]
  /\ faults \in 0..MaxFaults

\* However requests are retried and registrations rotated, a code goes out
\* only to a redirect URI of the registration that pushed the flow while that
\* registration is the current one, and tokens only to a client that
\* authenticated under it.
AdmittedRegistrationOnly ==
  [][/\ \A c \in codes' \ codes :
          reg.strict /\ reg.revision = flow[c.flow].revision /\ c.uri \in reg.redirects
     /\ \A t \in issued' : t.revision = flow[t.flow].revision]_vars

\* While the two clocks differ by no more than the configured skew, the
\* provider withholds the tokens of a redeemed code only if the decision had
\* expired by the authority's own clock, or the registration was rotated: the
\* skew alone never burns a code.
SkewBurnsNoCode == \A x \in refused : x.expired \/ x.rotated
=============================================================================
