---------------------------- MODULE EventArchive ----------------------------
(* What a reader of the API's events table relies on: for one stream, from the *)
(* ledger its contracts were deployed in, the table holds the events of the    *)
(* chain up to some point and none after it. That point may lie inside a       *)
(* ledger, lags behind the chain, and never moves back.                        *)
EXTENDS Integers

VARIABLES
  chain,  \* the stream's events on the chain, by position
  table   \* those in the table

archiveVars == <<chain, table>>

(* With an event, every earlier one. *)
Unbroken(events) == \A e \in events : \A f \in chain : f < e => f \in events

Init == chain = {} /\ table = {}

(* Ledgers close: their events come after those there are. *)
Extend ==
  /\ chain \subseteq chain'
  /\ \A f \in chain' \ chain : \A e \in chain : e < f
  /\ table' = table

(* The next events are stored, as many as there may be. *)
Store ==
  /\ table \subseteq table' /\ table' \subseteq chain
  /\ Unbroken(table')
  /\ chain' = chain

Spec == Init /\ [][Extend \/ Store]_archiveVars
=============================================================================
