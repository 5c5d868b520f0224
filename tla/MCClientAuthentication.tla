----------------------- MODULE MCClientAuthentication -----------------------
(* An instance of ClientAuthentication for TLC. *)
EXTENDS ClientAuthentication, TLC

\* Every method, and every way to keep keys for those that use them.
MCRegistrations ==
  [method : Methods, source : {"stored"}, keysBy : {"value"}]
  \cup [method : {"private_key_jwt", "self_signed_tls_client_auth"},
        source : Sources, keysBy : {"reference"}]
  \cup [method : {"private_key_jwt"}, source : {"resolver"}, keysBy : {"value", "authority"}]

Credential == [id |-> 1, key |-> 1, kid |-> TRUE, iat |-> 0, exp |-> 1]
MCCredentials ==
  {Credential, [Credential EXCEPT !.key = 2], [Credential EXCEPT !.kid = FALSE],
   [Credential EXCEPT !.exp = 2], [Credential EXCEPT !.key = 0]}

Proof == [id |-> 1, key |-> 1, iat |-> 0, nonce |-> <<"authorization_server", 1>>]
MCProofs ==
  {Proof, [Proof EXCEPT !.nonce = None], [Proof EXCEPT !.key = 0],
   [Proof EXCEPT !.nonce = <<"resource_server", 1>>]}

\* What a method does not look at does not vary.
Relevant ==
  /\ \A r \in Requests : LET q == req[r] IN
       CASE client.method = "none" ->
              /\ q.cred = None /\ (q.pc = "idle" \/ q.at \in {"token", "userinfo"})
              /\ q.proof # None => q.proof.key = 1
         [] client.method = "private_key_jwt" -> q.proof = None /\ (q.pc = "idle" \/ q.at = "token")
         [] client.method = "attest_jwt_client_auth" ->
              /\ q.cred = None \/ q.cred \in {Credential, [Credential EXCEPT !.key = 0]}
              /\ q.at # "userinfo" /\ (q.cred # None => q.at = "other" /\ q.proof = None)
              /\ q.proof # None => q.proof.nonce # <<"resource_server", 1>>
              /\ q.at = "par" => q.proof = Proof
         [] OTHER -> q.proof = None /\ (q.cred # None => q.cred.kid /\ q.cred.exp = 1)
                     /\ (q.pc = "idle" \/ q.at = "token")
  /\ client.method \notin {"private_key_jwt", "self_signed_tls_client_auth"} => Len(published) = 1

Symmetric == Permutations(Requests)
=============================================================================
