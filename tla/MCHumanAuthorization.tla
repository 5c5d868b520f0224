------------------------ MODULE MCHumanAuthorization ------------------------
(* An instance of HumanAuthorization for TLC, with its history. *)
EXTENDS HumanAuthorization

VARIABLES
  starters,  \* <<b, f>>: browser b was given the cookie of flow f
  failed     \* flows whose browser was dismissed because the authority failed

mcvars == <<vars, starters, failed>>

HistoryInit == Init /\ starters = {} /\ failed = {}

HistoryNext ==
  /\ Next
  /\ starters' = starters \cup {x \in Browsers \X Flows : cookie'[x[1]].binding = x[2]}
  /\ failed' = failed \cup
       {f \in Flows : faults' # faults /\ held' # held
                      /\ \E r \in Requests : req[r].flow = f /\ req'[r].flow # f}

HistorySpec == HistoryInit /\ [][HistoryNext]_mcvars

\* The clocks are as far apart as they may be.
MCInit == HistoryInit /\ drift \in {-Skew, Skew}

\* The browsers are interchangeable: the one that starts the flow is AnyBrowser.
StartsInAnyBrowser ==
  \A b \in Browsers \ {AnyBrowser} : decision'[b].outcome # "pending"

MCNext == HistoryNext /\ StartsInAnyBrowser

MCFairSpec == MCInit /\ [][MCNext]_mcvars /\ Fairness

\* A code, and so the tokens, of a flow only ever comes through the browser in
\* which the flow was started, although its links are opened in others and
\* every flow of a browser shares one cookie.
CodeStaysInBrowser == \A c \in codes : <<c.browser, c.flow>> \in starters

\* Once the authority confirmed the page a browser shows, the browser gets on
\* to the next stage, even if the answer was lost, unless its time is up, its
\* cookie is another's, it went on to another page, or the authority failed.
ConfirmationReachesBrowser ==
  \A b \in Browsers, f \in Flows :
    (flow[f].stage = "confirmed" /\ flow[f].page = <<b, page[b][f]>>)
      ~> \/ <<b, f, "ready">> \in held
         \/ ~InTime(f) \/ Binding(b) # f
         \/ flow[f].page # <<b, page[b][f]>> \/ f \in failed
=============================================================================
