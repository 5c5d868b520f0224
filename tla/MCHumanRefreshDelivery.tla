------------------------ MODULE MCHumanRefreshDelivery ------------------------
(* HumanRefreshDelivery for TLC. *)
EXTENDS HumanRefreshDelivery, TLC

=============================================================================
