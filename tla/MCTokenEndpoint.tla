--------------------------- MODULE MCTokenEndpoint ---------------------------
(* Instances of TokenEndpoint for TLC, with a history of contention. *)
EXTENDS TokenEndpoint, TLC

VARIABLE contended  \* the grants that two requests have worked on at a time

mcvars == <<vars, contended>>

Overlapping(g) == Cardinality({r \in Busy : req[r].gid = g}) > 1

MCInit == Init /\ contended = {}
MCNext == Next /\ contended' = contended \cup {g \in GrantIDs : Overlapping(g)'}
MCSpec == MCInit /\ [][MCNext]_mcvars
MCFairSpec == MCSpec /\ \A r \in Requests : WF_vars(Proceed(r))

RequestSymmetry == Permutations(Requests)

\* When the requests for a grant are served one after the other, a code
\* yields at most one access token, whatever fails or crashes in between.
RedeemedAtMostOnceSerially ==
  \A g \in GrantIDs \ contended : Cardinality(CodeTokens(g)) <= 1

\* When the requests for a grant are served one after the other, refreshing
\* never changes the key of a public client's tokens and never drops or adds
\* a binding for a confidential one.
BindingContinuitySerially ==
  \A i, j \in DOMAIN tokens :
    (/\ tokens[i].gid = tokens[j].gid /\ tokens[i].gid \notin contended
     /\ tokens[i].via = "code" /\ tokens[j].via = "refresh")
    => /\ (tokens[i].jkt = NoKey) <=> (tokens[j].jkt = NoKey)
       /\ tokens[i].client \in PublicClients => tokens[i].jkt = tokens[j].jkt
=============================================================================
