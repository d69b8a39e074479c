---------------------------- MODULE ArchiveDump ----------------------------
(***************************************************************************)
(* The script that recovers the shielded pools' history from an explorer's *)
(* archive into a fixture file, which the loader puts into the API's       *)
(* tables later.                                                           *)
(*                                                                         *)
(* An archived event is named by a number that packs its ledger, the       *)
(* transaction's place in it and the operation's place in that.  The name  *)
(* of its transaction, which the API's event ids contain, has to be asked  *)
(* of Horizon: the first transaction after a cursor.  Horizon may not have *)
(* taken in the latest transactions, or have dropped the oldest.           *)
(***************************************************************************)
EXTENDS Integers, Sequences, FiniteSets

SeqExt == INSTANCE SequencesExt

CONSTANTS
  OpOrders,        \* operations a packed place has room for (2^12 in the code)
  TxOrders,        \* transactions it has room for (2^20)
  Positions,       \* bound: <<operation, event>> places of a transaction
  Contracts,       \* the contracts, in the order of the script
  MaxTxs           \* bound: transactions

ASSUME DumpAssumption ==
  /\ OpOrders \in Nat \ {0} /\ TxOrders \in Nat \ {0} /\ MaxTxs \in Nat
  /\ IsFiniteSet(Positions) /\ Positions \subseteq (0 .. OpOrders - 1) \X Nat
  /\ Contracts \in Seq({Contracts[i] : i \in DOMAIN Contracts}) \ {<<>>}
  /\ \A i, j \in DOMAIN Contracts : Contracts[i] = Contracts[j] => i = j

VARIABLES
  archive,  \* the archived events: [contract, ledger, tx, op, index]
  horizon,  \* the transactions that Horizon has: [from, to]
  dump,     \* the script: [at, contract, todo, rows, cache]
  fixture   \* the file: a sequence of rows, or NoFixture

dumpVars == <<archive, horizon, dump, fixture>>

NoFixture == << <<>> >>
NotRunning == [at |-> "stopped", contract |-> 0, todo |-> <<>>, rows |-> <<>>, cache |-> {}]

Toid(ledger, tx, op) == (ledger * TxOrders + tx) * OpOrders + op

DecomposeToid(toid) ==
  [ledger |-> (toid \div OpOrders) \div TxOrders,
   tx |-> (toid \div OpOrders) % TxOrders,
   op |-> toid % OpOrders]

\* The transaction's own number has no operation.
TxToid(toid) == toid - (toid % OpOrders)

\* The archive's name of an event.
ToidOf(e) == Toid(e.ledger, e.tx, e.op)

\* A transaction's hash: hashes do not collide.
HashOf(txToid) == <<txToid>>

Txs == {TxToid(ToidOf(e)) : e \in archive}
InHorizon == {t \in Txs : horizon.from <= t /\ t <= horizon.to}
MinOf(set) == CHOOSE n \in set : \A m \in set : n <= m

DumpInit ==
  /\ archive = {}
  /\ horizon = [from |-> 0, to |-> 0]
  /\ dump = NotRunning
  /\ fixture = NoFixture

----------------------------------------------------------------------------
(* The chain, the archive and Horizon *)

\* A transaction emits events of one or several contracts.  Places start at 1
\* and (bound) leave no gap.
Emits(ledger, tx, emitted) ==
  /\ Cardinality(Txs) < MaxTxs
  /\ tx < TxOrders
  /\ \A t \in Txs : t < Toid(ledger, tx, 0)
  /\ tx = 1 \/ Toid(ledger, tx - 1, 0) \in Txs
  /\ ledger = 1 \/ \E e \in archive : e.ledger = ledger - 1
  /\ archive' = archive \cup
       {[contract |-> emitted[p], ledger |-> ledger, tx |-> tx, op |-> p[1], index |-> p[2]] :
          p \in DOMAIN emitted}
  /\ UNCHANGED <<horizon, dump, fixture>>

HorizonIngests ==
  /\ \E t \in Txs : t > horizon.to
  /\ horizon' = [horizon EXCEPT !.to = MinOf({t \in Txs : t > horizon.to})]
  /\ UNCHANGED <<archive, dump, fixture>>

HorizonReaps ==
  /\ InHorizon # {}
  /\ horizon' = [horizon EXCEPT !.from = MinOf(InHorizon) + 1]
  /\ UNCHANGED <<archive, dump, fixture>>

----------------------------------------------------------------------------
(* The script *)

StartDump ==
  /\ dump.at = "stopped"
  /\ dump' = [NotRunning EXCEPT !.at = "fetch", !.contract = 1]
  /\ UNCHANGED <<archive, horizon, fixture>>

\* The order of the archive and of the file.  Rows of one operation differ in
\* their index, so the contract never decides.
ArchiveOrder(a, b) ==
  \/ ToidOf(a) < ToidOf(b)
  \/ ToidOf(a) = ToidOf(b) /\ a.index < b.index

\* Of these sequences one in which nothing comes before what precedes it.
InOrder(seqs) ==
  CHOOSE s \in seqs : \A i, j \in DOMAIN s : i < j => ~ArchiveOrder(s[j], s[i])

\* The sequences with the elements of an array, each as often.
Rearranged(rows) == {[i \in DOMAIN rows |-> rows[p[i]]] : p \in SeqExt!SetToSeqs(DOMAIN rows)}

\* The contract's events, oldest first (the pages are PagedReads').
FetchContract ==
  /\ dump.at = "fetch"
  /\ LET records == {e \in archive : e.contract = Contracts[dump.contract]}
     IN  dump' = [dump EXCEPT !.at = "resolve", !.todo = InOrder(SeqExt!SetToSeqs(records))]
  /\ UNCHANGED <<archive, horizon, fixture>>

TrustsHorizon(toid) ==   \* a mutation of the next
  LET after == {t \in InHorizon : t > TxToid(toid) - 1} IN {t \in after : t = MinOf(after)}
\* The one transaction that Horizon sends after the cursor before this one; it
\* has to be this one.
AskHorizon(toid) ==
  LET after == {t \in InHorizon : t > TxToid(toid) - 1}
  IN  {t \in after : t = MinOf(after) /\ t = TxToid(toid)}

\* resolveTxHash: from the cache, else from Horizon.
Hashes(toid) ==
  IF \E c \in dump.cache : c.tx = TxToid(toid)
    THEN {c.hash : c \in {c \in dump.cache : c.tx = TxToid(toid)}}
    ELSE {HashOf(t) : t \in AskHorizon(toid)}

\* The row of the API for an archived event.
MapRecord(e, hash) ==
  LET parts == DecomposeToid(ToidOf(e))
  IN  [contract |-> e.contract, ledger |-> parts.ledger, tx |-> parts.tx, op |-> parts.op,
       index |-> e.index, hash |-> hash]

ResolveRecord ==
  /\ dump.at = "resolve" /\ dump.todo # <<>>
  /\ LET e == Head(dump.todo)
     IN  \E hash \in Hashes(ToidOf(e)) :
           dump' = [dump EXCEPT
             !.todo = Tail(@),
             !.rows = Append(@, MapRecord(e, hash)),
             !.cache = @ \cup {[tx |-> TxToid(ToidOf(e)), hash |-> hash]}]
  /\ UNCHANGED <<archive, horizon, fixture>>

NextContract ==
  /\ dump.at = "resolve" /\ dump.todo = <<>>
  /\ dump' = IF dump.contract < Len(Contracts)
               THEN [dump EXCEPT !.at = "fetch", !.contract = @ + 1]
               ELSE [dump EXCEPT !.at = "write"]
  /\ UNCHANGED <<archive, horizon, fixture>>

\* The file is written at the very end, over an earlier one.
WriteFixture ==
  /\ dump.at = "write"
  /\ fixture' = InOrder(Rearranged(dump.rows))
  /\ dump' = NotRunning
  /\ UNCHANGED <<archive, horizon>>

\* A read that fails after its retries, a transaction Horizon does not have, a
\* script that is stopped: nothing is written.
DumpFails ==
  /\ dump.at # "stopped"
  /\ dump' = NotRunning
  /\ UNCHANGED <<archive, horizon, fixture>>

DumpNext ==
  \/ \E ledger \in 1 .. MaxTxs, tx \in 1 .. MaxTxs, places \in SUBSET Positions \ {{}} :
       \E emitted \in [places -> {Contracts[i] : i \in DOMAIN Contracts}] :
         Emits(ledger, tx, emitted)
  \/ HorizonIngests
  \/ HorizonReaps
  \/ StartDump
  \/ FetchContract
  \/ ResolveRecord
  \/ NextContract
  \/ WriteFixture
  \/ DumpFails

DumpSpec == DumpInit /\ [][DumpNext]_dumpVars

----------------------------------------------------------------------------
\* The row that an event should have.
RowOf(e) ==
  [contract |-> e.contract, ledger |-> e.ledger, tx |-> e.tx, op |-> e.op,
   index |-> e.index, hash |-> HashOf(Toid(e.ledger, e.tx, 0))]

\* A file that was written is in the order of the chain, without a row twice;
\* each row has the places and the transaction of an event there was; and of
\* no contract is an event missing before one that is there.
DumpFaithful ==
  fixture # NoFixture =>
    LET rows == {fixture[i] : i \in DOMAIN fixture}
    IN  /\ \A i, j \in DOMAIN fixture : i < j => ArchiveOrder(fixture[i], fixture[j])
        /\ \A r \in rows : \E e \in archive : r = RowOf(e)
        /\ \A e, f \in archive :
             /\ e.contract = f.contract /\ ArchiveOrder(e, f)
             /\ RowOf(f) \in rows
             => RowOf(e) \in rows
=============================================================================
