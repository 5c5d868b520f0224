---------------------------- MODULE CodeLifecycle ----------------------------
(***************************************************************************)
(* What the token endpoint promises about one-use codes, without requests, *)
(* managers, failures or time: a code is created, is spent once and for    *)
(* all, and only then are access tokens issued for it.                     *)
(***************************************************************************)
EXTENDS Naturals

CONSTANT Codes

VARIABLES
  life,   \* of each code: "none", then "live", then "spent"
  issued  \* how many access tokens were issued in exchange for each code

vars == <<life, issued>>

Init ==
  /\ life = [c \in Codes |-> "none"]
  /\ issued = [c \in Codes |-> 0]

\* A code appears; the code of a pushed request is spent from the start.
Create(c) ==
  /\ life[c] = "none"
  /\ \E l \in {"live", "spent"} : life' = [life EXCEPT ![c] = l]
  /\ UNCHANGED issued

Spend(c) ==
  /\ life[c] = "live"
  /\ life' = [life EXCEPT ![c] = "spent"]
  /\ UNCHANGED issued

IssueToken(c) ==
  /\ life[c] = "spent"
  /\ issued' = [issued EXCEPT ![c] = @ + 1]
  /\ UNCHANGED life

Next == \E c \in Codes : Create(c) \/ Spend(c) \/ IssueToken(c)

Spec == Init /\ [][Next]_vars
=============================================================================
