----------------------------- MODULE PagedReads -----------------------------
(***************************************************************************)
(* Reading a history page by page while it grows.                          *)
(*                                                                         *)
(* Four such reads are in the code.  "api": the clients' read of           *)
(* /contracts/../events, in order of position, which the API's worker and  *)
(* its backfill fill in any order.  "activity": /accounts/../activity,     *)
(* latest ledger first, rows of one ledger in the order of random ids.     *)
(* "archive": the backfill's read of the explorer's archive.  "rpc":       *)
(* getEvents, which scans a bounded range of ledgers for each answer.  The *)
(* last two read the chain, which grows at its end, a ledger at a time.    *)
(* They differ in how a reader knows that there is more.                   *)
(*                                                                         *)
(* A row is its place in the order: a number.  A ledger holds two places.  *)
(***************************************************************************)
EXTENDS Integers, FiniteSets

CONSTANTS
  MaxLedger,   \* bound: ledgers
  Limit,       \* rows of a page
  Window       \* ledgers the RPC scans for one answer

ASSUME ReadsAssumption == MaxLedger \in Nat /\ Limit \in Nat \ {0} /\ Window \in Nat \ {0}

VARIABLES
  rows,     \* the rows there are
  head,     \* the latest ledger
  reader,   \* [source, cursor, got, received, at]
  late      \* history: rows added where the reader had already been

readsVars == <<rows, head, reader, late>>

LedgerOf(place) == (place + 1) \div 2
PlacesOf(ledger) == {2 * ledger - 1, 2 * ledger}
Sources == {"api", "activity", "archive", "rpc"}

\* The events of a contract come in the order of the chain, an account's
\* activity from the latest ledger back.
ChainOrder(a, b) == a < b
LatestFirst(a, b) == a > b
Sooner(source, a, b) == IF source = "activity" THEN LatestFirst(a, b) ELSE ChainOrder(a, b)

\* Without a cursor: before every row there may ever be.
NoCursor(source) == IF source = "activity" THEN 2 * MaxLedger + 1 ELSE 0

\* A reader that begins.
NewReader(source) ==
  [source |-> source, cursor |-> NoCursor(source), got |-> {}, received |-> 0, at |-> "asks"]

ReadsInit ==
  /\ \E source \in Sources : reader = NewReader(source)
  /\ head \in 0 .. MaxLedger
  /\ rows \in SUBSET (1 .. 2 * head)
  /\ late = {}

----------------------------------------------------------------------------
\* The reader has been at this place, or has stopped before it.
Passed(place) ==
  reader.at = "done" \/ ~Sooner(reader.source, reader.cursor, place)

\* The worker or the backfill adds a row: anywhere among the ledgers there are.
Insert(place) ==
  /\ reader.source \in {"api", "activity"}
  /\ place \notin rows
  /\ rows' = rows \cup {place}
  /\ late' = IF Passed(place) THEN late \cup {place} ELSE late
  /\ UNCHANGED <<head, reader>>

\* A ledger closes with its rows.
CloseLedger(new) ==
  /\ head < MaxLedger
  /\ head' = head + 1
  /\ new \subseteq PlacesOf(head + 1)
  /\ rows' = rows \cup new
  /\ late' = late \cup {place \in new : Passed(place)}
  /\ UNCHANGED reader

\* A page that cannot be fetched ends the read with an error; a caller that
\* tries again begins at the start.
BeginsAgain ==
  /\ reader' = NewReader(reader.source)
  /\ late' = {}
  /\ UNCHANGED <<rows, head>>

----------------------------------------------------------------------------
(* What one answer holds. *)

Asks(source) == reader.source = source /\ reader.at = "asks"

Ahead == {place \in rows : Sooner(reader.source, reader.cursor, place)}

\* The first n of a set of rows, in the reader's order.
FirstOf(set, n) ==
  {a \in set : Cardinality({b \in set : Sooner(reader.source, b, a)}) < n}

LastOf(set) == CHOOSE a \in set : \A b \in set \ {a} : Sooner(reader.source, b, a)

\* paginate: the query asks for one row more than a page.
ProbeFound(rest) == Cardinality(FirstOf(rest, Limit + 1)) > Limit

CursorAtProbe(rest) == LastOf(FirstOf(rest, Limit + 1))   \* a mutation of the next
\* The cursor names the last row of the page, not the row that was the probe.
NextCursor(rest) == LastOf(FirstOf(rest, Limit))

\* The archive sends no probe: a full page is taken for a sign of more.
FullPage(page) == Cardinality(page) = Limit

\* The loop of a client: the rows are kept, and the next page is asked for
\* until an answer brings no cursor.
Receives(page, more, cursor) ==
  /\ reader' = [reader EXCEPT
       !.got = @ \cup page,
       !.received = @ + Cardinality(page),
       !.cursor = IF more THEN cursor ELSE @,
       !.at = IF more THEN "asks" ELSE "done"]
  /\ UNCHANGED <<rows, head, late>>

----------------------------------------------------------------------------
(* The four reads. *)

Page(rest) ==
  LET more == ProbeFound(rest)
  IN  Receives(FirstOf(rest, Limit), more, IF more THEN NextCursor(rest) ELSE reader.cursor)

\* GET /contracts/:contractId/events
EventsPage == Asks("api") /\ Page(Ahead)

\* GET /accounts/:address/activity
ActivityPage == Asks("activity") /\ Page(Ahead)

\* fetchAllArchiveEvents
ArchivePage ==
  /\ Asks("archive")
  /\ LET page == FirstOf(Ahead, Limit)
     IN  Receives(page, FullPage(page), IF FullPage(page) THEN LastOf(page) ELSE reader.cursor)

\* The end of the ledgers that one answer of the RPC scans.
Scanned == LET last == LedgerOf(reader.cursor) + Window IN IF last < head THEN last ELSE head

ShortPageEnds(page, cursor) == Cardinality(page) < Limit   \* a mutation of the next
\* A short page is no sign of the end: the reader stops when the cursor is in the
\* latest ledger.
ScanEnds(page, cursor) == LedgerOf(cursor) >= head

\* One answer of getEvents.  A full page ends at its last row, any other at the
\* end of the scan.
Scan ==
  /\ Asks("rpc")
  /\ LET page == FirstOf({place \in Ahead : LedgerOf(place) <= Scanned}, Limit)
         cursor == IF Cardinality(page) = Limit THEN LastOf(page) ELSE 2 * Scanned
     IN  reader' = [reader EXCEPT
           !.got = @ \cup page,
           !.received = @ + Cardinality(page),
           !.cursor = cursor,
           !.at = IF ScanEnds(page, cursor) THEN "done" ELSE "asks"]
  /\ UNCHANGED <<rows, head, late>>

ReadsNext ==
  \/ \E place \in 1 .. 2 * head : Insert(place)
  \/ \E new \in SUBSET PlacesOf(head + 1) : CloseLedger(new)
  \/ EventsPage
  \/ ActivityPage
  \/ ArchivePage
  \/ Scan
  \/ BeginsAgain

ReadsSpec == ReadsInit /\ [][ReadsNext]_readsVars

----------------------------------------------------------------------------
\* A cursor can be trusted: the reader has every row at or behind it but those
\* that were added there after it had passed.
NothingBehind ==
  \A place \in rows \ late :
    ~Sooner(reader.source, reader.cursor, place) => place \in reader.got

\* A row that the RPC's read may leave for the next one: beyond a full page that
\* ended in the latest ledger, at the cursor the read returns.
LeftForNext(place) ==
  /\ reader.source = "rpc"
  /\ reader.cursor < place /\ LedgerOf(place) = LedgerOf(reader.cursor)

\* A read that ends has every row there was when it asked for its last page, and
\* no row twice.  The RPC's read, too, has every row of the ledgers before the one
\* it ended in: it does not take a short page for the last.
ReadComplete ==
  reader.at = "done" =>
    /\ reader.received = Cardinality(reader.got)
    /\ \A place \in rows \ late : place \in reader.got \/ LeftForNext(place)
=============================================================================
