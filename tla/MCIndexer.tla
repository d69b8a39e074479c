------------------------------ MODULE MCIndexer ------------------------------
(* Small instances of Indexer for TLC. *)
EXTENDS Indexer, TLC

(* The event of the first ledger cannot be normalised. *)
FirstEvent == {FirstOf(1)}

AllStreams == <<CT, SPP>>
SppStream == <<SPP>>

WorkerSymmetry == Permutations(Workers)
=============================================================================
