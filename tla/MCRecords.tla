----------------------------- MODULE MCRecords -----------------------------
(* Instances of Records for TLC. *)
EXTENDS Records, TLC

MCMetas == {[secret |-> TRUE, uris |-> URIs], [secret |-> FALSE, uris |-> {}]}

\* Registration with every way to rotate, registration and logout, or
\* credentials; either kind of manager.
MCConfigs ==
  [features : {{"dcr"}}, inMemory : BOOLEAN, rotateToken : BOOLEAN, rotateSecret : BOOLEAN]
  \cup
  [features : {{"dcr", "logout"}}, inMemory : BOOLEAN, rotateToken : {TRUE}, rotateSecret : {FALSE}]
  \cup
  [features : {{"vc", "notifications"}}, inMemory : BOOLEAN,
   rotateToken : {FALSE}, rotateSecret : {FALSE}]

\* Bounds: at most two requests are in progress at the same time, and at most
\* two clients register, as many as the manager holds.
Pairwise ==
  /\ Cardinality({r \in Requests : InProgress(r)}) <= 2
  /\ Cardinality({r \in Requests : clients[r] # NoClient}) <= 2

Symmetric == Permutations(Requests) \cup Permutations(Grants)
=============================================================================
