------------------------- MODULE MCTravelCoordinator -------------------------
(***************************************************************************)
(* TravelCoordinator for TLC.                                              *)
(***************************************************************************)
EXTENDS TravelCoordinator, TLC

Symmetry == Permutations(Player)
=============================================================================
