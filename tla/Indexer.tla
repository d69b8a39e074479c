------------------------------- MODULE Indexer -------------------------------
(* The indexer worker of api/src: two event streams, the confidential token's  *)
(* ("ct", read from the Soroban RPC) and the shielded pool's ("spp", read from *)
(* a bootnode until it hands off, then from the RPC), polled by worker         *)
(* processes into one Postgres database, beside the script that loads the      *)
(* shielded pool's archived history.                                           *)
EXTENDS LedgerPositions, Sequences

CONSTANTS
  StreamOrder,  \* the streams a worker polls, in order: <<"ct", "spp">> as deployed
  Workers,      \* worker processes: one, or two while a deployment overlaps
  StartLedger,  \* deployedAtLedger, deploymentLedger
  MaxLedger,    \* bound: ledgers the chain closes
  Retention,    \* ledgers the RPC keeps
  Malformed,    \* ct events normalizeCtEvent throws on
  MaxCopies,    \* bound: copies of an event's activity rows that are counted
  Backfills,    \* the backfill script runs beside the workers
  DumpSpan      \* ledgers that close with events while the history is being dumped

ASSUME StreamAssumption == StreamOrder \in Seq({"ct", "spp"})
ASSUME StartLedgerAssumption == StartLedger \in Nat \ {0}
ASSUME BoundsAssumption == MaxLedger \in Nat /\ MaxCopies \in Nat \ {0}
ASSUME RetentionAssumption == Retention \in Nat \ {0}
ASSUME DumpSpanAssumption == DumpSpan \in Nat
ASSUME BackfillsAssumption == Backfills => \E i \in DOMAIN StreamOrder : StreamOrder[i] = "spp"

VARIABLES
  tip,       \* the last closed ledger
  chain,     \* the events of each stream on the chain
  table,     \* the events of each stream in the `events` table
  activity,  \* how often the rows of each ct event are in `ct_activity`
  cursors,   \* the `cursors` table: a mode and a position to resume from
  worker,    \* each worker process
  loader     \* the backfill script

vars == <<tip, chain, table, activity, cursors, worker, loader>>

CT == "ct"
SPP == "spp"
Streams == {StreamOrder[i] : i \in DOMAIN StreamOrder}

Positions == FirstOf(1) .. EndOf(MaxLedger)
Between(s, from, to) == {e \in chain[s] : from <= e /\ e < to}

\* ---------------------------------------------------------------------------
\* Cursors, the worker's in-memory state, and the loader's.

Modes == {"none", "plain", "handoff", "rpc"}
Cursor(mode, from) == [mode |-> mode, from |-> from]
NoCursor == Cursor("none", FirstOf(StartLedger))
Cursors == [mode : Modes, from : Nat]

Page(events, next) == [events |-> events, next |-> next]
NoPage == Page({}, NoCursor)

Phases == {"off", "idle", "polling", "fetching", "committing"}
Fresh == [phase |-> "idle", due |-> {}, stream |-> "none", resting |-> {},
          stopping |-> FALSE, read |-> NoCursor, page |-> NoPage]
Off == [Fresh EXCEPT !.phase = "off"]

Unloaded == [step |-> "off", left |-> {}, last |-> 0]

Init ==
  /\ tip = 0
  /\ chain = [s \in Streams |-> {}]
  /\ table = [s \in Streams |-> {}]
  /\ activity = [e \in Positions |-> 0]
  /\ cursors = [s \in Streams |-> NoCursor]
  /\ worker = [w \in Workers |-> Off]
  /\ loader = Unloaded

\* ---------------------------------------------------------------------------
\* The chain and the sources.

(* A ledger closes with some events of each stream. *)
CloseLedger ==
  /\ tip < MaxLedger
  /\ \E n \in [Streams -> 0 .. Width - 1] :
       chain' = [s \in Streams |->
         chain[s] \cup {FirstOf(tip + 1) + i : i \in 0 .. n[s] - 1}]
  /\ tip' = tip + 1
  /\ UNCHANGED <<table, activity, cursors, worker, loader>>

(* The ledgers the RPC answers for; it refuses a token outside them. *)
Retained == {l \in 1 .. tip : l + Retention > tip}

(* Where a page may end: after an event, when the page is full, or at the end  *)
(* of a ledger, when the RPC has scanned that far.                             *)
PageEnds(s, from) ==
  {e + 1 : e \in Between(s, from, FirstOf(tip + 1))}
    \cup {EndOf(l) : l \in {l \in LedgerOf(from) .. tip : from < EndOf(l) \/ l = tip}}

\* A mutation of NextTokens: a full page without a token is taken for the last one.
EagerTokens(end) == {end, FirstOf(tip + 1)}

(* nextResumeTokenFromPage: the page's own token, or the ledger after the tip  *)
(* when the source, having nothing more, returns none. That it returns none    *)
(* only then is its promise ("no further cursor", soroban-events.ts), which    *)
(* nothing in the code checks: NoGap rests on it.                              *)
NextTokens(end) ==
  {end} \cup (IF end = EndOf(tip) THEN {FirstOf(tip + 1)} ELSE {})

RpcPages(s, from, mode) ==
  IF LedgerOf(from) \in Retained
  THEN UNION {{Page(Between(s, from, end), Cursor(mode, next)) : next \in NextTokens(end)} :
                end \in PageEnds(s, from)}
  ELSE {}

(* The bootnode serves a page of the history it has up to some ledger, with a  *)
(* token or, when that is all it has, without one, or it hands off at a ledger *)
(* before which it has nothing after what was asked for. A page without a      *)
(* token leaves the stream with the bootnode.                                  *)
BootnodePages(s, from) ==
  {Page(Between(s, from, e + 1), Cursor("plain", e + 1)) :
      e \in Between(s, from, FirstOf(tip + 1))}
    \cup {Page(Between(s, from, FirstOf(l + 1)), Cursor("plain", FirstOf(l + 1))) :
      l \in LedgerOf(from) .. tip}
    \cup {Page({}, Cursor("handoff", FirstOf(l))) :
      l \in {l \in LedgerOf(from) .. tip + 1 : /\ from <= FirstOf(l)
                                               /\ Between(s, from, FirstOf(l)) = {}}}

\* A mutation of FetchPage: only the page after the handoff gets the prefix.
UnprefixedPage(s, cursor) ==
  CASE s = CT \/ cursor.mode = "rpc" -> RpcPages(s, cursor.from, "plain")
    [] s = SPP /\ cursor.mode = "handoff" -> RpcPages(s, cursor.from, "rpc")
    [] OTHER -> BootnodePages(s, cursor.from)

(* makeRpcSource and makeBootnodeThenRpcSource. *)
FetchPage(s, cursor) ==
  CASE s = CT -> RpcPages(s, cursor.from, "plain")
    [] s = SPP /\ cursor.mode \in {"rpc", "handoff"} -> RpcPages(s, cursor.from, "rpc")
    [] OTHER -> BootnodePages(s, cursor.from)

\* ---------------------------------------------------------------------------
\* The worker's loop: tick, pollStreams, pollStream.

Start(w) ==
  /\ worker[w].phase = "off"
  /\ worker' = [worker EXCEPT ![w] = Fresh]
  /\ UNCHANGED <<tip, chain, table, activity, cursors, loader>>

(* tick: the streams that are not backing off. *)
BeginTick(w) ==
  /\ worker[w].phase = "idle"
  /\ worker[w].resting /= Streams
  /\ worker' = [worker EXCEPT ![w].phase = "polling",
                              ![w].due = Streams \ worker[w].resting]
  /\ UNCHANGED <<tip, chain, table, activity, cursors, loader>>

(* The backoff of a stream, at most BACKOFF_MAX_MS, is over. *)
Wake(w, s) ==
  /\ worker[w].phase /= "off"
  /\ s \in worker[w].resting
  /\ worker' = [worker EXCEPT ![w].resting = @ \ {s}]
  /\ UNCHANGED <<tip, chain, table, activity, cursors, loader>>

Precedes(s, r) ==
  \E i, j \in DOMAIN StreamOrder : i <= j /\ StreamOrder[i] = s /\ StreamOrder[j] = r

(* pollStreams takes the due streams in order, unless shutting down;           *)
(* pollStream reads the stream's cursor.                                       *)
BeginPoll(w, s) ==
  /\ worker[w].phase = "polling"
  /\ s \in worker[w].due /\ \A r \in worker[w].due : Precedes(s, r)
  /\ ~worker[w].stopping
  /\ worker' = [worker EXCEPT ![w].phase = "fetching", ![w].stream = s,
                              ![w].due = @ \ {s}, ![w].read = cursors[s]]
  /\ UNCHANGED <<tip, chain, table, activity, cursors, loader>>

(* The page arrives, outside any transaction. *)
Fetch(w, s) ==
  /\ worker[w].phase = "fetching"
  /\ s = worker[w].stream
  /\ \E page \in FetchPage(s, worker[w].read) :
       worker' = [worker EXCEPT ![w].phase = "committing", ![w].read = NoCursor,
                                ![w].page = page]
  /\ UNCHANGED <<tip, chain, table, activity, cursors, loader>>

PollDone(w, failed) ==
  [worker EXCEPT ![w].phase = "polling", ![w].stream = "none",
                 ![w].resting = @ \cup failed,
                 ![w].read = NoCursor, ![w].page = NoPage]

(* insertCtActivity after normalizeCtEvent, each event on its own: one that    *)
(* throws contributes nothing. The rows have keys of their own: inserting them *)
(* again adds them again.                                                      *)
Normalised(events) == events \ Malformed
InsertCtActivity(events) ==
  [e \in Positions |-> IF e \in Normalised(events) /\ activity[e] < MaxCopies
                       THEN activity[e] + 1 ELSE activity[e]]

\* A mutation of Commit: an event that cannot be normalised rolls its page back.
CommitUnpoisoned(w, s) ==
  /\ worker[w].phase = "committing"
  /\ s = worker[w].stream
  /\ s = CT => worker[w].page.events \cap Malformed = {}
  /\ table' = [table EXCEPT ![s] = @ \cup worker[w].page.events]
  /\ activity' = IF s = CT THEN InsertCtActivity(worker[w].page.events) ELSE activity
  /\ cursors' = [cursors EXCEPT ![s] = worker[w].page.next]
  /\ worker' = PollDone(w, {})
  /\ UNCHANGED <<tip, chain, loader>>

(* One transaction: the events, their activity rows, the cursor. *)
Commit(w, s) ==
  /\ worker[w].phase = "committing"
  /\ s = worker[w].stream
  /\ table' = [table EXCEPT ![s] = @ \cup worker[w].page.events]
  /\ activity' = IF s = CT THEN InsertCtActivity(worker[w].page.events) ELSE activity
  /\ cursors' = [cursors EXCEPT ![s] = worker[w].page.next]
  /\ worker' = PollDone(w, {})
  /\ UNCHANGED <<tip, chain, loader>>

\* A mutation of PollFails: the activity is inserted outside the transaction.
PollFailsLate(w) ==
  /\ worker[w].phase \in {"fetching", "committing"}
  /\ worker' = PollDone(w, {worker[w].stream})
  /\ activity' = IF worker[w].stream = CT THEN InsertCtActivity(worker[w].page.events)
                 ELSE activity
  /\ UNCHANGED <<tip, chain, table, cursors, loader>>

\* A mutation of PollFails: a failing stream ends the tick.
PollFailsAll(w) ==
  /\ worker[w].phase \in {"fetching", "committing"}
  /\ worker' = [worker EXCEPT ![w].phase = "polling", ![w].stream = "none",
                              ![w].due = {}, ![w].resting = @ \cup {worker[w].stream},
                              ![w].read = NoCursor, ![w].page = NoPage]
  /\ UNCHANGED <<tip, chain, table, activity, cursors, loader>>

(* A read, the fetch (refused, unreachable or timed out) or the transaction    *)
(* throws: nothing is stored, the stream is to back off, and the next one is   *)
(* polled all the same. (The code notes the outcome when the tick ends; it is  *)
(* first consulted by the next tick.)                                          *)
PollFails(w) ==
  /\ worker[w].phase \in {"fetching", "committing"}
  /\ worker' = PollDone(w, {worker[w].stream})
  /\ UNCHANGED <<tip, chain, table, activity, cursors, loader>>

(* The tick ends with its last poll, or early when shutting down. *)
EndTick(w) ==
  /\ worker[w].phase = "polling"
  /\ worker[w].due = {} \/ worker[w].stopping
  /\ worker' = [worker EXCEPT
       ![w] = IF worker[w].stopping THEN Off
              ELSE [Fresh EXCEPT !.resting = worker[w].resting]]
  /\ UNCHANGED <<tip, chain, table, activity, cursors, loader>>

(* SIGTERM: an idle worker exits, a busy one after the poll in flight. *)
Shutdown(w) ==
  /\ worker[w].phase /= "off"
  /\ ~worker[w].stopping
  /\ worker' = [worker EXCEPT
       ![w] = IF worker[w].phase = "idle" THEN Off ELSE [worker[w] EXCEPT !.stopping = TRUE]]
  /\ UNCHANGED <<tip, chain, table, activity, cursors, loader>>

(* The process dies; its transaction, if it had one, rolls back. *)
Crash(w) ==
  /\ worker[w].phase /= "off"
  /\ worker' = [worker EXCEPT ![w] = Off]
  /\ UNCHANGED <<tip, chain, table, activity, cursors, loader>>

\* ---------------------------------------------------------------------------
\* The backfill script: load-backfill.ts.

Fixture(l, missed) ==
  [step |-> "loading", left |-> Between(SPP, 0, FirstOf(l + 1)) \ missed, last |-> l]

(* It starts from a fixture that backfill-spp.ts dumped: the history up to the *)
(* last ledger of any of its events, except that the contracts were read one   *)
(* after another, so that an event of an earlier one may be missed if it came  *)
(* while the later ones were read.                                             *)
LoaderStart ==
  /\ Backfills
  /\ loader.step = "off"
  /\ \E l \in 1 .. tip :
       \E missed \in SUBSET Between(SPP, FirstOf(l + 1 - DumpSpan), FirstOf(l + 1)) :
         /\ \E e \in chain[SPP] \ missed : LedgerOf(e) = l
         /\ loader' = Fixture(l, missed)
  /\ UNCHANGED <<tip, chain, table, activity, cursors, worker>>

\* A mutation of LoaderChunk: the newest events first.
LoaderChunkNewest ==
  /\ loader.step = "loading"
  /\ \E e \in loader.left :
       LET chunk == {x \in loader.left : x >= e}
       IN  /\ table' = [table EXCEPT ![SPP] = @ \cup chunk]
           /\ loader' = [loader EXCEPT !.left = @ \ chunk]
  /\ UNCHANGED <<tip, chain, activity, cursors, worker>>

(* loadBackfillEvents: a chunk at a time, in order, each its own statement. *)
LoaderChunk ==
  /\ loader.step = "loading"
  /\ \E e \in loader.left :
       LET chunk == {x \in loader.left : x <= e}
       IN  /\ table' = [table EXCEPT ![SPP] = @ \cup chunk]
           /\ loader' = [loader EXCEPT !.left = @ \ chunk]
  /\ UNCHANGED <<tip, chain, activity, cursors, worker>>

(* initSppCursor reads the cursor, and leaves one in RPC mode alone... *)
LoaderRead ==
  /\ loader.step = "loading"
  /\ loader.left = {}
  /\ loader' = IF cursors[SPP].mode = "rpc" THEN Unloaded
               ELSE [loader EXCEPT !.step = "deciding"]
  /\ UNCHANGED <<tip, chain, table, activity, cursors, worker>>

(* ...and otherwise points it past the fixture, in a statement of its own. *)
LoaderWrite ==
  /\ loader.step = "deciding"
  /\ cursors' = [cursors EXCEPT ![SPP] = Cursor("rpc", FirstOf(loader.last + 1))]
  /\ loader' = Unloaded
  /\ UNCHANGED <<tip, chain, table, activity, worker>>

LoaderDies ==
  /\ loader.step /= "off"
  /\ loader' = Unloaded
  /\ UNCHANGED <<tip, chain, table, activity, cursors, worker>>

\* ---------------------------------------------------------------------------

Stops == \E w \in Workers : Shutdown(w) \/ Crash(w)

Next ==
  \/ CloseLedger
  \/ \E w \in Workers :
       \/ Start(w)
       \/ BeginTick(w)
       \/ PollFails(w)
       \/ EndTick(w)
       \/ Shutdown(w)
       \/ Crash(w)
       \/ \E s \in Streams :
            Wake(w, s) \/ BeginPoll(w, s) \/ Fetch(w, s) \/ Commit(w, s)
  \/ LoaderStart
  \/ LoaderChunk
  \/ LoaderRead
  \/ LoaderWrite
  \/ LoaderDies

Spec == Init /\ [][Next]_vars

(* What the service's scheduling gives: the platform restarts a process that   *)
(* stopped, the loop and its timers go on, a call ends or times out, and a     *)
(* worker is not stopped for ever.                                             *)
FairSpec ==
  /\ Spec
  /\ \A w \in Workers :
       /\ WF_vars(Start(w))
       /\ WF_vars(BeginTick(w))
       /\ WF_vars(\E s \in Streams : BeginPoll(w, s))
       /\ WF_vars(PollFails(w) \/ \E s \in Streams : Fetch(w, s) \/ Commit(w, s))
       /\ WF_vars(EndTick(w))
       /\ \A s \in Streams : WF_vars(Wake(w, s))
  /\ <>[][~Stops]_vars

(* A source that is not down for good: asked again and again, it answers, and  *)
(* the answer is stored.                                                       *)
Heals(s) == \A w \in Workers : SF_vars(Fetch(w, s)) /\ SF_vars(Commit(w, s))

\* ---------------------------------------------------------------------------
\* Properties.

Pages == [events : SUBSET Positions, next : Cursors]
WorkerStates ==
  [phase : Phases, due : SUBSET Streams, stream : Streams \cup {"none"},
   resting : SUBSET Streams, stopping : BOOLEAN, read : Cursors, page : Pages]
LoaderStates ==
  [step : {"off", "loading", "deciding"}, left : SUBSET Positions, last : 0 .. MaxLedger]

(* Every variable stays in its domain; what is stored came from the chain, and *)
(* a worker polls a stream whenever it waits for a page or a transaction.      *)
TypeOK ==
  /\ tip \in 0 .. MaxLedger
  /\ chain \in [Streams -> SUBSET Positions]
  /\ table \in [Streams -> SUBSET Positions]
  /\ activity \in [Positions -> 0 .. MaxCopies]
  /\ cursors \in [Streams -> Cursors]
  /\ worker \in [Workers -> WorkerStates]
  /\ loader \in LoaderStates
  /\ \A s \in Streams : table[s] \subseteq chain[s]
  /\ \A w \in Workers : worker[w].phase \in {"fetching", "committing"} => worker[w].stream \in Streams

(* The history was dumped while no event came: a fixture then misses none.     *)
(* Nothing in the scripts sees to it; README tells what follows without it.    *)
QuietDump == Backfills => DumpSpan = 0

(* The events table has no hole: every event of a stream before the position   *)
(* its cursor resumes from is stored, whatever workers overlap, crash between  *)
(* the fetch and the transaction, or race the backfill script, and however the *)
(* source cuts its pages (pollStream's single transaction, initSppCursor's     *)
(* order of writes). It is so of fixtures from a quiet dump, and of a source   *)
(* whose pages lack a token only at their end.                                 *)
NoGap ==
  \A s \in Streams :
    Between(s, FirstOf(StartLedger), cursors[s].from) \subseteq table[s]

\* The table of a stream as its readers see it, from the stream's first ledger on.
From(events) == {e \in events : e >= FirstOf(StartLedger)}
ShieldedArchive == INSTANCE EventArchive WITH chain <- From(chain[SPP]), table <- From(table[SPP])

(* The table fills in the order of the chain and never loses an event: whoever *)
(* reads it, while workers overlap, fail and repeat pages and the backfill     *)
(* script loads history beside them, finds the events up to some point and     *)
(* none beyond a missing one (listEventsFromLedger, listEventsAfterId), after  *)
(* a quiet dump. It is all that SppSync assumes of the table it is served.     *)
ImplementsArchive == ShieldedArchive!Spec

(* With one worker, an account's activity shows every stored event once:       *)
(* insertCtActivity is not idempotent, so only the transaction it shares with  *)
(* the cursor keeps a crashed or failed poll from adding its rows twice.       *)
ActivityOnce ==
  \A e \in Positions : activity[e] = IF e \in Normalised(table[CT]) THEN 1 ELSE 0

(* The handoff is permanent: once the shielded stream's cursor is in RPC mode, *)
(* no restart, failure or page takes it back to the bootnode, nor backwards    *)
(* (makeBootnodeThenRpcSource, one worker).                                    *)
RpcModeKept ==
  [][cursors[SPP].mode = "rpc" =>
       cursors'[SPP].mode = "rpc" /\ cursors'[SPP].from >= cursors[SPP].from]_cursors

(* Every ct event, a malformed one too, is indexed in the end, if the RPC only *)
(* fails for a while: even if the shielded stream's source fails for ever.     *)
CtKeepsUp == Heals(CT) => \A e \in Positions : e \in chain[CT] ~> e \in table[CT]

(* Every shielded event is indexed in the end once the stream has handed off,  *)
(* even if the ct stream, which is polled first, fails for ever.               *)
SppKeepsUp ==
  Heals(SPP) =>
    \A e \in Positions :
      (e \in chain[SPP] /\ cursors[SPP].mode = "rpc") ~> e \in table[SPP]
=============================================================================
