------------------------------- MODULE Bootnode ------------------------------
(* The bootnode protocol of api/src/modules/bootnode: what POST /rpc answers   *)
(* to getEvents, from the events table alone. Requests are the SDK's: exactly  *)
(* one of a start ledger and a cursor, the allowed filter, no end ledger.      *)
EXTENDS LedgerPositions, FiniteSets, FiniteSetsExt

Answers == {"miss", "handoff", "page"}
Miss == [kind |-> "miss", rows |-> {}]
Handoff == [kind |-> "handoff", rows |-> {}]
Served(rows) == [kind |-> "page", rows |-> rows]

(* orderBy(ledger, txIndex, opIndex, eventIndex).limit(limit)                  *)
FirstRows(rows, limit) == {e \in rows : Cardinality({x \in rows : x < e}) < limit}

HasBounds(table) == table /= {}

(* No rows: a handoff, unless the table is empty and there is no tip to hand   *)
(* off from. (The ledger named in the handoff is not modelled: the SDK does    *)
(* not read it.)                                                               *)
AnswerRows(table, rows) ==
  CASE rows /= {} -> Served(rows)
    [] rows = {} /\ HasBounds(table) -> Handoff
    [] OTHER -> Miss

FromLedger(table, ledger, limit) ==
  AnswerRows(table, FirstRows({e \in table : e >= FirstOf(ledger)}, limit))

(* The cursor names a row by its id; a row the table does not have is a miss.  *)
AfterRow(table, row, limit) ==
  IF row \in table THEN AnswerRows(table, FirstRows({e \in table : e > row}, limit)) ELSE Miss
=============================================================================
