-------------------------------- MODULE SppSync ------------------------------
(* How the shielded wallet builds its local copy of the pool: the SDK's        *)
(* catch_up (sdk/client/src/sync.rs) over its Indexer (sdk/stellar) and its    *)
(* SQLite storage (sdk/state), reading the Soroban RPC and, for history older  *)
(* than the RPC keeps, the bootnode of api/src, whose table the indexer worker *)
(* fills.                                                                      *)
(*                                                                             *)
(* Several syncs may be in progress on one storage: every operation of an      *)
(* account begins with one.                                                    *)
EXTENDS Bootnode

CONSTANTS
  Tasks,        \* the syncs in progress
  StartLedger,  \* the pools' deployment ledger: no event before it
  MaxLedger,    \* bound: ledgers the chain closes
  Retention,    \* ledgers the RPC keeps
  EventsLag,    \* ledgers its events may lag behind its latest ledger
  ScanWindow,   \* ledgers it scans for one answer
  PageSize,     \* PAGE_SIZE
  FetchLimit    \* PROCESS_FETCH_LIMIT

ASSUME SyncAssumption ==
  /\ MaxLedger \in Nat /\ StartLedger \in 1 .. MaxLedger
  /\ Retention \in Nat \ {0} /\ EventsLag \in Nat /\ ScanWindow \in Nat \ {0}
  /\ PageSize \in Nat \ {0} /\ FetchLimit \in Nat \ {0}

VARIABLES
  tip,       \* the last closed ledger
  chain,     \* the pool's events
  table,     \* those in the API's table
  raw,       \* raw_contract_events: each an event under the id its source gave it
  derived,   \* the raw events that have a row in a derived table
  meta,      \* indexing_metadata
  task,      \* each sync
  torn       \* history: the ledgers a bootnode page ended in while they were the
             \* RPC's latest and the table held a part of their events

vars == <<tip, chain, table, raw, derived, meta, task, torn>>

Positions == FirstOf(StartLedger) .. EndOf(MaxLedger)
Sources == {"rpc", "bootnode"}

(* A page's cursor, in its source's own format: the RPC's says how far it has  *)
(* read, the bootnode's is the id of the page's last row.                      *)
Cursor(source, at) == [source |-> source, at |-> at]
NoCursor == Cursor("none", 0)
Cursors == [source : {"none"} \cup Sources, at : Nat]

Page(events, next, latest) == [events |-> events, next |-> next, latest |-> latest]
NoPage == Page({}, NoCursor, 0)

Phases == {"off", "probing", "stranded", "clearing", "asking", "ready", "fetching",
           "saving", "saved", "handoff"}
Closed == [phase |-> "off", source |-> "rpc", handedOff |-> FALSE, start |-> 0,
           cursor |-> NoCursor, page |-> NoPage]

\* The table is what the indexer promises it to be.
Api == INSTANCE EventArchive

Init ==
  /\ tip = StartLedger - 1
  /\ Api!Init
  /\ raw = {}
  /\ derived = {}
  /\ meta = [resume |-> 0, full |-> 0, cursor |-> NoCursor]
  /\ task = [t \in Tasks |-> Closed]
  /\ torn = {}

\* ---------------------------------------------------------------------------
\* The chain, the archive, and what the sources answer.

CloseLedger ==
  /\ tip < MaxLedger
  /\ tip' = tip + 1
  /\ \E n \in 0 .. Width - 1 : chain' = chain \cup {FirstOf(tip + 1) + i : i \in 0 .. n - 1}
  /\ UNCHANGED <<table, raw, derived, meta, task, torn>>

(* The API's worker or the backfill script commits events. *)
Archive ==
  /\ table' \in SUBSET chain \ {table}
  /\ Api!Store
  /\ UNCHANGED <<tip, raw, derived, meta, task, torn>>

Oldest == IF tip > Retention THEN tip - Retention + 1 ELSE 1

(* The RPC's page, when its events reach the ledger newest: it scans ScanWindow *)
(* ledgers at most, and answers with PageSize events and a cursor after the    *)
(* last, or all it found and a cursor at the end of what it scanned.           *)
RpcPage(from, newest) ==
  LET last   == Min({newest, LedgerOf(from) + ScanWindow - 1})
      events == FirstRows({e \in chain : from <= e /\ e < FirstOf(last + 1)}, PageSize)
  IN  Page(events,
           Cursor("rpc", IF Cardinality(events) = PageSize THEN Max(events) + 1
                         ELSE EndOf(last)),
           newest)

(* mapEventRow and the response: latestLedger is the RPC's, asked afresh.      *)
BootnodePage(rows) == Page(rows, Cursor("bootnode", Max(rows)), tip)

\* ---------------------------------------------------------------------------
\* Indexer::init and the choice of a source: catch_up, bootnode_catch_up.

Probed == IF meta.resume > 0 THEN meta.resume ELSE StartLedger

Goto(t, phase) == task' = [task EXCEPT ![t].phase = phase]

Open(t) ==
  /\ task[t].phase = "off"
  /\ task' = [task EXCEPT ![t] = [Closed EXCEPT !.phase = "probing"]]
  /\ UNCHANGED <<tip, chain, table, raw, derived, meta, torn>>

(* The RPC answers for the probed ledger, or has not reached it.               *)
ProbeServed(t) ==
  /\ task[t].phase = "probing"
  /\ Probed >= Oldest
  /\ task' = [task EXCEPT ![t].phase = "ready", ![t].source = "rpc"]
  /\ UNCHANGED <<tip, chain, table, raw, derived, meta, torn>>

(* RpcSyncGap: to the bootnode, the first time; after its handoff, an error.   *)
ProbeGap(t) ==
  /\ task[t].phase = "probing"
  /\ Probed < Oldest
  /\ Goto(t, IF task[t].handedOff THEN "stranded" ELSE "clearing")
  /\ UNCHANGED <<tip, chain, table, raw, derived, meta, torn>>

ClearCursors(t) ==
  /\ task[t].phase = "clearing"
  /\ meta' = [meta EXCEPT !.cursor = NoCursor]
  /\ Goto(t, "asking")
  /\ UNCHANGED <<tip, chain, table, raw, derived, torn>>

ResumeOnRpc(t) ==
  task' = [task EXCEPT ![t] = [Closed EXCEPT !.phase = "probing", !.handedOff = TRUE]]

(* The bootnode's Indexer::init, whose probe may already be handed off.        *)
AskBootnode(t) ==
  /\ task[t].phase = "asking"
  /\ LET answer == FromLedger(table, Probed, 1).kind
     IN  \/ /\ answer = "page"
            /\ task' = [task EXCEPT ![t].phase = "ready", ![t].source = "bootnode"]
         \/ /\ answer = "handoff"
            /\ ResumeOnRpc(t)
  /\ UNCHANGED <<tip, chain, table, raw, derived, meta, torn>>

(* The handoff met while fetching clears the cursors again.                    *)
TakeHandoff(t) ==
  /\ task[t].phase = "handoff"
  /\ meta' = [meta EXCEPT !.cursor = NoCursor]
  /\ ResumeOnRpc(t)
  /\ UNCHANGED <<tip, chain, table, raw, derived, torn>>

\* ---------------------------------------------------------------------------
\* A round: Indexer::fetch_contract_events.

BeginRound(t) ==
  /\ task[t].phase = "ready"
  /\ task' = [task EXCEPT ![t].phase = "fetching", ![t].cursor = meta.cursor,
                          ![t].start = Min({Probed, tip})]
  /\ UNCHANGED <<tip, chain, table, raw, derived, meta, torn>>

(* The request took the cursor; the response brings the next.                  *)
Arrives(t, page) ==
  task' = [task EXCEPT ![t].phase = "saving", ![t].cursor = NoCursor, ![t].page = page]

(* A round returns, and what it had read is gone.                              *)
Leave(t, phase) ==
  task' = [task EXCEPT ![t].phase = phase, ![t].start = 0, ![t].cursor = NoCursor,
                       ![t].page = NoPage]


(* A cursor the RPC did not mint, or one outside the ledgers it keeps, is an   *)
(* error; a start past its newest events is "nothing new".                     *)
FetchRpc(t) ==
  /\ task[t].phase = "fetching" /\ task[t].source = "rpc"
  /\ task[t].cursor.source /= "bootnode"
  /\ \E newest \in {l \in tip - EventsLag .. tip : l >= 0} :
       LET from == IF task[t].cursor = NoCursor THEN FirstOf(task[t].start)
                   ELSE task[t].cursor.at
       IN  \/ /\ LedgerOf(from) \in Oldest .. newest
              /\ Arrives(t, RpcPage(from, newest))
           \/ /\ LedgerOf(from) > newest
              /\ task[t].start > newest
              /\ Leave(t, "ready")
  /\ UNCHANGED <<tip, chain, table, raw, derived, meta, torn>>

BootnodeAnswer(t) ==
  CASE task[t].cursor.source = "none" -> FromLedger(table, task[t].start, PageSize)
    [] task[t].cursor.source = "bootnode" -> AfterRow(table, task[t].cursor.at, PageSize)
    [] OTHER -> Miss

\* A page that is not full ends in the RPC's latest ledger, and the table lacks some
\* of its events.
Torn(rows) ==
  {l \in {tip} : /\ Cardinality(rows) < PageSize
                /\ LedgerOf(Max(rows)) = l
                /\ \E e \in chain \ table : LedgerOf(e) = l}

FetchBootnode(t) ==
  /\ task[t].phase = "fetching" /\ task[t].source = "bootnode"
  /\ LET answer == BootnodeAnswer(t)
     IN  \/ /\ answer.kind = "page"
            /\ Arrives(t, BootnodePage(answer.rows))
            /\ torn' = torn \cup Torn(answer.rows)
         \/ /\ answer.kind = "handoff"
            /\ Leave(t, "handoff")
            /\ UNCHANGED torn
  /\ UNCHANGED <<tip, chain, table, raw, derived, meta>>

(* save_events_batch: an id that is there already is left alone.               *)
SaveEvents(t) ==
  /\ task[t].phase = "saving"
  /\ raw' = raw \cup (task[t].page.events \X {task[t].source})
  /\ Goto(t, "saved")
  /\ UNCHANGED <<tip, chain, table, derived, meta, torn>>

ProgressNext(page) ==  \* a mutation of the next
  IF page.events = {} THEN page.latest ELSE LedgerOf(Max(page.events)) + 1
Progress(page) == IF page.events = {} THEN page.latest ELSE LedgerOf(Max(page.events))

FullPageToo(page) ==   \* a mutation of the next
  page.events = {} \/ Progress(page) >= page.latest
FullyIndexed(page) ==
  \/ page.events = {}
  \/ Cardinality(page.events) < PageSize /\ Progress(page) >= page.latest

(* save_sync_progress, in a transaction of its own; then the round is over, or *)
(* the next page of the round is fetched, or the round has had all its pages.  *)
SaveProgress(t) ==
  /\ task[t].phase = "saved"
  /\ LET page == task[t].page
     IN  /\ meta' = [resume |-> Progress(page), cursor |-> page.next,
                     full |-> IF FullyIndexed(page) THEN Progress(page) ELSE meta.full]
         /\ \/ /\ ~FullyIndexed(page)
               /\ task' = [task EXCEPT ![t].phase = "fetching", ![t].cursor = page.next,
                                       ![t].page = NoPage]
            \/ Leave(t, "ready")
  /\ UNCHANGED <<tip, chain, table, raw, derived, torn>>

(* A call of a round fails: the round is tried again.                          *)
RoundFails(t) ==
  /\ task[t].phase \in {"fetching", "saving", "saved"}
  /\ Leave(t, "ready")
  /\ UNCHANGED <<tip, chain, table, raw, derived, meta, torn>>

(* The sync is done or gives up with an error, or the page is closed.          *)
Close(t) ==
  /\ task[t].phase /= "off"
  /\ task' = [task EXCEPT ![t] = Closed]
  /\ UNCHANGED <<tip, chain, table, raw, derived, meta, torn>>

\* ---------------------------------------------------------------------------
\* The processor: process_events.

Events(rows) == {r[1] : r \in rows}

(* get_unprocessed_events: oldest ledgers first, at most FetchLimit of them.   *)
Batches ==
  LET unprocessed == raw \ derived
  IN  {b \in SUBSET unprocessed :
         /\ Cardinality(b) = Min({FetchLimit, Cardinality(unprocessed)})
         /\ \A r \in b, q \in unprocessed \ b : LedgerOf(r[1]) <= LedgerOf(q[1])}

(* A nullifier, commitment or leaf is inserted once; under a second id it is   *)
(* left alone (ON CONFLICT DO NOTHING).                                        *)
Insertions(events) ==
  {rows \in SUBSET events :
     /\ Events(rows) = Events(events) \ Events(derived)
     /\ Cardinality(rows) = Cardinality(Events(rows))}

(* process_events, which may be cut off between its four transactions, one for *)
(* each kind of event.                                                         *)
Process ==
  /\ raw /= derived
  /\ \E batch \in Batches : \E done \in SUBSET batch : \E rows \in Insertions(done) :
       derived' = derived \cup rows
  /\ UNCHANGED <<tip, chain, table, raw, meta, task, torn>>

Next ==
  \/ CloseLedger
  \/ Archive
  \/ Process
  \/ \E t \in Tasks :
       \/ Open(t)
       \/ ProbeServed(t)
       \/ ProbeGap(t)
       \/ ClearCursors(t)
       \/ AskBootnode(t)
       \/ TakeHandoff(t)
       \/ BeginRound(t)
       \/ FetchRpc(t)
       \/ FetchBootnode(t)
       \/ SaveEvents(t)
       \/ SaveProgress(t)
       \/ RoundFails(t)
       \/ Close(t)

Spec == Init /\ [][Next]_vars

\* ---------------------------------------------------------------------------
\* Properties.

Pages == [events : SUBSET Positions, next : Cursors, latest : Nat]
Syncs == [phase : Phases, source : Sources, handedOff : BOOLEAN, start : 0 .. MaxLedger,
          cursor : Cursors, page : Pages]

(* Every variable stays in its domain, what is stored came from the chain, and *)
(* no progress is recorded past the last closed ledger.                        *)
TypeOK ==
  /\ tip \in StartLedger - 1 .. MaxLedger
  /\ chain \subseteq Positions
  /\ table \subseteq chain
  /\ raw \subseteq chain \X Sources
  /\ derived \subseteq raw
  /\ meta \in [resume : 0 .. tip, full : 0 .. tip, cursor : Cursors]
  /\ task \in [Tasks -> Syncs]
  /\ torn \subseteq StartLedger .. tip

(* Nothing is skipped: every event of a ledger before the one the wallet would *)
(* resume from, and every event before its cursor, is stored, however syncs    *)
(* interleave, fail or are cut off, whatever the lag of the archive and the    *)
(* RPC, and across every handoff (clear_indexing_cursors, last_indexed_ledger).*)
NoEventSkipped ==
  \A e \in chain \ Events(raw) : e >= FirstOf(meta.resume) /\ e >= meta.cursor.at

(* "Are we synced?": when last_fully_indexed_ledger says a ledger has been     *)
(* caught up to, every event up to that ledger is stored; the registry lookup  *)
(* and the check of the membership tree rely on it (recipient_lookup). The code*)
(* keeps it but for two cases: an RPC whose scan stops short of its newest     *)
(* ledger (the run spp_scan), and the next property's.                         *)
FullyIndexedIsComplete ==
  \A e \in chain : LedgerOf(e) <= meta.full => e \in Events(raw)

(* With an RPC that scans up to its newest ledger, the answer is right except  *)
(* about one kind of ledger: the RPC's latest, served by the bootnode when the *)
(* worker had stored a part of it. However syncs interleave and the sources    *)
(* lag, an event that is missing from a ledger recorded as caught up to is of  *)
(* such a ledger (at_events_tip takes its last row for the ledger's last).     *)
CompleteUnlessTorn ==
  \A e \in chain : LedgerOf(e) <= meta.full /\ LedgerOf(e) \notin torn => e \in Events(raw)

(* After the bootnode's handoff the wallet resumes on its RPC, as long as the  *)
(* archive covers every ledger that the RPC no longer has (catch_up's second   *)
(* Indexer::init).                                                             *)
ResumesAfterHandoff ==
  \A t \in Tasks : task[t].phase = "stranded" => \E e \in chain \ table : LedgerOf(e) < Oldest

(* The processor comes to an end: an unprocessed event is one that has yet to  *)
(* get its row, and not one whose row is there (process_until_empty loops      *)
(* while process_events finds unprocessed events).                             *)
ProcessorEnds == Events(raw \ derived) \cap Events(derived) = {}
=============================================================================
