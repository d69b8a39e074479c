--------------------------- MODULE ShieldedBook ---------------------------
(***************************************************************************)
(* The pool as its users may think of it: a book of notes.                 *)
(*                                                                         *)
(* A note has an amount for good, is held until it is spent, and once      *)
(* spent never comes back.  What the pool owes changes by exactly the      *)
(* difference between the notes that appear and the notes that go.  There  *)
(* are no roots, proofs, vault or administrator here: none of them may     *)
(* make any other change.                                                  *)
(***************************************************************************)
EXTENDS Integers, NoteValue

VARIABLES
    held,    \* note -> amount, for the notes that can be spent
    used,    \* every note there has ever been
    owed     \* what the pool owes to the holders, in stroops

vars == <<held, used, owed>>

Gone  == (DOMAIN held) \ (DOMAIN held')
Fresh == (DOMAIN held') \ (DOMAIN held)

Init ==
    /\ DOMAIN held = {}
    /\ used = {}
    /\ owed = 0

Settle ==
    /\ Fresh \cap used = {}
    /\ used' = used \cup Fresh
    /\ \A n \in (DOMAIN held) \ Gone : held'[n] = held[n]
    /\ owed' = owed + ValueOf(held', Fresh) - ValueOf(held, Gone)
    /\ owed' >= 0

Spec == Init /\ [][Settle]_vars
=============================================================================
