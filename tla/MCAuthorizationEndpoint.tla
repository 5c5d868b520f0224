----------------------- MODULE MCAuthorizationEndpoint -----------------------
(* Instances of AuthorizationEndpoint for TLC. *)
EXTENDS AuthorizationEndpoint, TLC

WorkerSymmetry == Permutations(Workers)
=============================================================================
