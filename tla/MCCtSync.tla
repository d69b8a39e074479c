------------------------------ MODULE MCCtSync -------------------------------
(* Small instances of CtSync for TLC. *)
EXTENDS CtSync, TLC

TabSymmetry == Permutations(Actors)
=============================================================================
