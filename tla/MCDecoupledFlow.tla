--------------------------- MODULE MCDecoupledFlow ---------------------------
(* An instance of DecoupledFlow for TLC, with a history of contention. *)
EXTENDS DecoupledFlow

CONSTANTS a1, a2, p1, p2

\* The handles that two approvers, or two polls that found the grant, have worked
\* on at a time.
VARIABLE contended

mcvars == <<vars, contended>>

Redeeming == {p \in Pollers : pc[p] \in {"redeeming", "issuing", "revoking"}}
Overlapping(h) ==
  \/ Cardinality({a \in Approvers : pc[a] # "idle" /\ job[a].handle = h}) > 1
  \/ Cardinality({p \in Redeeming : job[p].handle = h}) > 1

MCInit == Init /\ contended = {}
MCNext == Next /\ contended' = contended \cup {h \in Handles : Overlapping(h)'}
MCSpec == MCInit /\ [][MCNext]_mcvars

Busy(p) == pc[p] # "idle"
Starts(p) == ~Busy(p) /\ Busy(p)'

\* Polls that found the grant overlap while no approver is at work, and a ping,
\* which differs from a poll in what comes before, is left out. (The goroutines
\* of a kind are interchangeable: the second starts while the first is at work.)
Crowd ==
  Busy(p1) /\ Busy(p2) =>
    /\ Redeeming = Pollers /\ ~Busy(a1) /\ ~Busy(a2)
    /\ \A h \in Handles : sessions[h].mode # "ping"

CrowdNext == MCNext /\ Crowd' /\ (Starts(p2) => Busy(p1)) /\ (Starts(a2) => Busy(a1))
CrowdFairSpec == MCInit /\ [][CrowdNext]_mcvars /\ Fairness

\* When an embedder resolves a CIBA request in one goroutine, retrying what
\* failed and denying as it likes, and the polls that find its grant are served
\* one after the other, the request yields at most one access token, by push or
\* by poll. (Two polls that overlap may both pass the check of
\* AuthReqIDConsumedAt before either saves it, and each gets a token.)
OneTokenPerRequest ==
  \A h \in Handles \ contended :
    sessions[h].mode \in CIBAModes => Cardinality(TokensOf(h)) <= 1
=============================================================================
