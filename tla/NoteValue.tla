----------------------------- MODULE NoteValue -----------------------------
(***************************************************************************)
(* The number of stroops held by a set of notes.                           *)
(*                                                                         *)
(* The sum of amount[i] over the notes i of S is written as the size of    *)
(* the set of their stroops, <<i, k>> being the k-th stroop of note i.     *)
(* The two are the same number (MCPool compares them), and the library's   *)
(* theorems about finite sets speak of the second.                         *)
(***************************************************************************)
EXTENDS Naturals, FiniteSets

Stroops(amount, S) == UNION {{i} \X (1 .. amount[i]) : i \in S}

ValueOf(amount, S) == Cardinality(Stroops(amount, S))
=============================================================================
