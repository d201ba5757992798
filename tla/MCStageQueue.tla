---------------------------- MODULE MCStageQueue ----------------------------
(***************************************************************************)
(* Instances of StageQueue for TLC.                                        *)
(***************************************************************************)
EXTENDS StageQueue, TLC

MCOffers2 == 1 .. 2

CountNothing == {}
CountDone == {"done"}

MCSymmetry == Permutations(Workers)

=============================================================================
