---------------------------- MODULE RootWindow ----------------------------
(***************************************************************************)
(* What the pool promises about old Merkle roots, without the ring buffer  *)
(* that keeps the promise.  A root is named by the number of pairs of      *)
(* leaves in the tree when it was current: the tree only grows and its     *)
(* hash does not collide, so the number determines the root.               *)
(*                                                                         *)
(* MerkleTreeWithHistory holds the ring itself and shows that the roots it *)
(* recognises are exactly these.                                           *)
(***************************************************************************)
EXTENDS Naturals

CONSTANT RootHistorySize   \* roots kept for proof verification (90 in the code)

ASSUME RootHistorySizeAssumption == RootHistorySize \in Nat \ {0}

(***************************************************************************)
(* The roots recognised after n insertions: the current one and the        *)
(* RootHistorySize - 1 before it.                                          *)
(***************************************************************************)
KnownRoots(n) == {r \in 0 .. n : n - r < RootHistorySize}
=============================================================================
