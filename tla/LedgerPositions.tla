--------------------------- MODULE LedgerPositions ---------------------------
(* Positions on the chain. An event is ledger * Width + its index in the       *)
(* ledger. The last index of a ledger holds no event, so a position also names *)
(* where a reader resumes: a token "after event e" is e + 1, a token of a      *)
(* ledger is the ledger's first position, and EndOf is a ledger read to its    *)
(* end.                                                                        *)
EXTENDS Integers

CONSTANT Width  \* positions of a ledger; it holds at most Width - 1 events

ASSUME WidthAssumption == Width \in Nat /\ Width >= 2

FirstOf(ledger) == ledger * Width
EndOf(ledger) == FirstOf(ledger + 1) - 1
LedgerOf(pos) == pos \div Width
=============================================================================
