--------------------------- MODULE MCWantDelivery ---------------------------
(***************************************************************************)
(* Instances of WantDelivery for TLC.                                      *)
(***************************************************************************)
EXTENDS WantDelivery

MCCeiling == [w \in Wants |-> 2]
MCStandout == [w \in Wants |-> 1]

=============================================================================
