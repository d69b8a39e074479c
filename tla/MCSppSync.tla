------------------------------ MODULE MCSppSync ------------------------------
(* Small instances of SppSync for TLC. *)
EXTENDS SppSync, TLC

TaskSymmetry == Permutations(Tasks)
=============================================================================
