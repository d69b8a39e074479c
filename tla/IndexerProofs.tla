---------------------------- MODULE IndexerProofs ----------------------------
(***************************************************************************)
(* The indexer worker, for any number of workers and ledgers, any window   *)
(* of the RPC and any place where a source may cut its pages.              *)
(***************************************************************************)
EXTENDS Indexer, TLAPS

----------------------------------------------------------------------------
\* Positions.

(* A ledger has room for its events, its end and the next ledger's first.    *)
LEMMA PositionTypes ==
    ASSUME NEW l \in Nat
    PROVE  /\ FirstOf(l) \in Nat /\ EndOf(l) \in Nat
           /\ FirstOf(l) < EndOf(l) /\ EndOf(l) = FirstOf(l + 1) - 1
           /\ FirstOf(l) + Width = FirstOf(l + 1)
BY WidthAssumption DEF FirstOf, EndOf

(* Positions are numbers.                                                    *)
LEMMA PositionsAreNatural == Positions \subseteq Nat
BY PositionTypes, BoundsAssumption DEF Positions

(* A later ledger begins later.                                              *)
LEMMA FirstMonotone ==
    ASSUME NEW l \in Nat, NEW m \in Nat, l <= m
    PROVE  FirstOf(l) <= FirstOf(m)
<1>1. PICK d \in Nat : m = l + d
      OBVIOUS
<1>2. m * Width = l * Width + d * Width
      BY <1>1, WidthAssumption
<1>3. d * Width \in Nat
      BY WidthAssumption
<1> QED  BY <1>2, <1>3, WidthAssumption DEF FirstOf

(* Every position is of a ledger.                                            *)
LEMMA LedgerOfType ==
    ASSUME NEW pos \in Nat
    PROVE  LedgerOf(pos) \in Nat
BY WidthAssumption DEF LedgerOf

\* No event stands at the end of a ledger.
LEMMA EndsAreFree ==
    ASSUME NEW l \in Nat, NEW m \in Nat, NEW i \in 0 .. Width - 2
    PROVE  FirstOf(l) + i # EndOf(m)
<1>1. CASE l <= m
      <2>1. FirstOf(l) <= FirstOf(m)
            BY <1>1, FirstMonotone
      <2>2. CASE l = m
            BY <2>2, PositionTypes, WidthAssumption
      <2>3. CASE l < m
            <3>1. FirstOf(l + 1) <= FirstOf(m)
                  BY <2>3, FirstMonotone
            <3> QED  BY <3>1, PositionTypes, WidthAssumption
      <2> QED  BY <1>1, <2>2, <2>3
<1>2. CASE m < l
      <2>1. FirstOf(m + 1) <= FirstOf(l)
            BY <1>2, FirstMonotone
      <2> QED  BY <2>1, PositionTypes, WidthAssumption
<1> QED  BY <1>1, <1>2

----------------------------------------------------------------------------
(***************************************************************************)
(* The inductive invariant.  A cursor, wherever it is kept (in the         *)
(* database, with a worker that has read it, in a page that has arrived,   *)
(* with the backfill script), stands for a promise: the events before it   *)
(* are in the table, or will be in the same transaction.  The promise must *)
(* not be broken by the events of a ledger that closes, so no cursor goes  *)
(* further than the first ledger to come.                                  *)
(***************************************************************************)

Start0 == FirstOf(StartLedger)

\* A cursor ahead of the chain is the stream's first.
Possible(from) == from <= FirstOf(tip + 1) \/ from = Start0

\* No event before the position from is missing from the given ones; a fixture
\* that misses some breaks the promise for every cursor there is.
Holds(s, from, events) == QuietDump => Between(s, Start0, from) \subseteq events

ChainShape ==
    \A s \in Streams : \A e \in chain[s] :
        /\ e < FirstOf(tip + 1)
        /\ \A l \in Nat : e # EndOf(l)

CursorsKeep ==
    \A s \in Streams :
        Possible(cursors[s].from) /\ Holds(s, cursors[s].from, table[s])

ReadsKeep ==
    \A w \in Workers : worker[w].phase = "fetching" =>
        LET s == worker[w].stream
        IN  Possible(worker[w].read.from) /\ Holds(s, worker[w].read.from, table[s])

PagesKeep ==
    \A w \in Workers : worker[w].phase = "committing" =>
        LET s == worker[w].stream
            page == worker[w].page
        IN  /\ Possible(page.next.from)
            /\ Holds(s, page.next.from, table[s] \cup page.events)
            /\ page.events \subseteq chain[s]

LoaderKeeps ==
    loader.step # "off" =>
        /\ SPP \in Streams
        /\ loader.last \in 1 .. tip
        /\ loader.left \subseteq chain[SPP]
        /\ Holds(SPP, FirstOf(loader.last + 1), table[SPP] \cup loader.left)
        /\ loader.step = "deciding" => loader.left = {}

IInv == TypeOK /\ ChainShape /\ CursorsKeep /\ ReadsKeep /\ PagesKeep /\ LoaderKeeps

(* A page has the events between the cursor it was asked with and the one it  *)
(* comes with, and the latter is not ahead of the chain.                      *)
LEMMA PagesAreWhole ==
    ASSUME TypeOK, ChainShape, NEW s \in Streams, NEW cursor \in Cursors,
           NEW page \in FetchPage(s, cursor)
    PROVE  /\ page.events \subseteq chain[s]
           /\ page \in Pages
           /\ page.next.from <= FirstOf(tip + 1)
           /\ Between(s, cursor.from, page.next.from) \subseteq page.events
<1> DEFINE from == cursor.from
<1>1. /\ tip \in Nat /\ from \in Nat /\ chain[s] \subseteq Positions
      /\ chain[s] \subseteq Nat
      <2>1. Positions \subseteq Nat
            BY PositionsAreNatural
      <2>2. tip \in Nat /\ chain[s] \subseteq Positions
            BY BoundsAssumption DEF TypeOK
      <2> QED  BY <2>1, <2>2 DEF Cursors
<1>2. FirstOf(tip + 1) \in Nat /\ EndOf(tip) = FirstOf(tip + 1) - 1
      BY <1>1, PositionTypes
<1>3. ASSUME NEW mode \in Modes, page \in RpcPages(s, from, mode)
      PROVE  /\ page.events \subseteq chain[s] /\ page \in Pages
             /\ page.next.from <= FirstOf(tip + 1)
             /\ Between(s, from, page.next.from) \subseteq page.events
      <2>1. PICK end \in PageEnds(s, from) : \E next \in NextTokens(end) :
                    page = Page(Between(s, from, end), Cursor(mode, next))
            BY <1>3 DEF RpcPages
      <2>2. PICK next \in NextTokens(end) :
                    page = Page(Between(s, from, end), Cursor(mode, next))
            BY <2>1
      <2>3. end \in Nat /\ end <= FirstOf(tip + 1)
            <3>1. CASE \E e \in Between(s, from, FirstOf(tip + 1)) : end = e + 1
                  BY <3>1, <1>1, <1>2 DEF Between
            <3>2. CASE \E l \in LedgerOf(from) .. tip : end = EndOf(l)
                  <4>1. PICK l \in LedgerOf(from) .. tip : end = EndOf(l)
                        BY <3>2
                  <4>2. l \in Nat /\ l + 1 <= tip + 1
                        BY <4>1, <1>1, LedgerOfType
                  <4>3. FirstOf(l + 1) <= FirstOf(tip + 1)
                        BY <4>2, <1>1, FirstMonotone
                  <4> QED  BY <4>1, <4>2, <4>3, <1>2, PositionTypes
            <3> QED  BY <2>1, <3>1, <3>2 DEF PageEnds
      <2>4. /\ next \in Nat /\ next <= FirstOf(tip + 1)
            /\ Between(s, from, next) \subseteq Between(s, from, end)
            <3>1. CASE next = end
                  BY <3>1, <2>3
            <3>2. CASE end = EndOf(tip) /\ next = FirstOf(tip + 1)
                  BY <3>2, <1>1, <1>2 DEF Between, ChainShape
            <3> QED  BY <2>2, <3>1, <3>2 DEF NextTokens
      <2>5. Between(s, from, end) \subseteq chain[s]
            BY DEF Between
      <2> QED  BY <2>2, <2>4, <2>5, <1>1, <1>3 DEF Page, Cursor, Pages, Cursors
<1>4. ASSUME page \in BootnodePages(s, from)
      PROVE  /\ page.events \subseteq chain[s] /\ page \in Pages
             /\ page.next.from <= FirstOf(tip + 1)
             /\ Between(s, from, page.next.from) \subseteq page.events
      <2>1. CASE \E e \in Between(s, from, FirstOf(tip + 1)) :
                    page = Page(Between(s, from, e + 1), Cursor("plain", e + 1))
            <3>1. PICK e \in Between(s, from, FirstOf(tip + 1)) :
                    page = Page(Between(s, from, e + 1), Cursor("plain", e + 1))
                  BY <2>1
            <3>2. e + 1 \in Nat /\ e + 1 <= FirstOf(tip + 1)
                  BY <3>1, <1>1, <1>2 DEF Between
            <3>3. Between(s, from, e + 1) \subseteq chain[s]
                  BY DEF Between
            <3> QED  BY <3>1, <3>2, <3>3, <1>1 DEF Page, Cursor, Pages, Cursors, Modes
      <2>2. CASE \E l \in LedgerOf(from) .. tip + 1 :
                    /\ Between(s, from, FirstOf(l)) = {}
                    /\ page = Page({}, Cursor("handoff", FirstOf(l)))
            <3>1. PICK l \in LedgerOf(from) .. tip + 1 :
                    /\ Between(s, from, FirstOf(l)) = {}
                    /\ page = Page({}, Cursor("handoff", FirstOf(l)))
                  BY <2>2
            <3>2. l \in Nat /\ l <= tip + 1
                  BY <3>1, <1>1, LedgerOfType
            <3>3. FirstOf(l) \in Nat /\ FirstOf(l) <= FirstOf(tip + 1)
                  BY <3>2, <1>1, FirstMonotone, PositionTypes
            <3> QED  BY <3>1, <3>3 DEF Page, Cursor, Pages, Cursors, Modes
      <2>3. CASE \E l \in LedgerOf(from) .. tip :
                    page = Page(Between(s, from, FirstOf(l + 1)), Cursor("plain", FirstOf(l + 1)))
            <3>1. PICK l \in LedgerOf(from) .. tip :
                    page = Page(Between(s, from, FirstOf(l + 1)), Cursor("plain", FirstOf(l + 1)))
                  BY <2>3
            <3>2. l \in Nat /\ l + 1 <= tip + 1
                  BY <3>1, <1>1, LedgerOfType
            <3>3. FirstOf(l + 1) \in Nat /\ FirstOf(l + 1) <= FirstOf(tip + 1)
                  BY <3>2, <1>1, FirstMonotone, PositionTypes
            <3>4. Between(s, from, FirstOf(l + 1)) \subseteq chain[s]
                  BY DEF Between
            <3> QED  BY <3>1, <3>3, <3>4, <1>1 DEF Page, Cursor, Pages, Cursors, Modes
      <2> QED  BY <1>4, <2>1, <2>2, <2>3 DEF BootnodePages
<1>5. "plain" \in Modes /\ "rpc" \in Modes
      BY DEF Modes
<1> QED  BY <1>3, <1>4, <1>5 DEF FetchPage

(* Events are on the chain before the cursors that pass them: a closing       *)
(* ledger breaks no promise.                                                  *)
LEMMA ClosingKeeps ==
    ASSUME IInv, CloseLedger
    PROVE  IInv'
<1> DEFINE new(s) == chain'[s] \ chain[s]
<1>1. /\ tip \in Nat /\ tip' = tip + 1 /\ tip' \in 0 .. MaxLedger
      /\ StartLedger \in Nat
      BY BoundsAssumption, StartLedgerAssumption DEF IInv, TypeOK, CloseLedger
<1>2. /\ FirstOf(tip + 1) \in Nat /\ FirstOf(tip' + 1) \in Nat
      /\ FirstOf(tip' + 1) = FirstOf(tip + 1) + Width
      /\ Start0 \in Nat
      BY <1>1, PositionTypes DEF Start0
<1>3. ASSUME NEW s \in Streams, NEW i \in 0 .. Width - 2
      PROVE  /\ FirstOf(tip + 1) + i \in Positions
             /\ FirstOf(tip + 1) + i < FirstOf(tip' + 1)
      <2>1. FirstOf(1) <= FirstOf(tip + 1) /\ FirstOf(tip' + 1) <= FirstOf(MaxLedger + 1)
            BY <1>1, FirstMonotone, BoundsAssumption
      <2>2. /\ FirstOf(1) \in Nat
            /\ EndOf(MaxLedger) = FirstOf(MaxLedger + 1) - 1
            /\ FirstOf(MaxLedger + 1) \in Nat
            BY PositionTypes, BoundsAssumption
      <2> QED  BY <2>1, <2>2, <1>2, WidthAssumption DEF Positions
<1>4. PICK n \in [Streams -> 0 .. Width - 1] :
         chain' = [s \in Streams |->
           chain[s] \cup {FirstOf(tip + 1) + i : i \in 0 .. n[s] - 1}]
      BY DEF CloseLedger
<1>5. ASSUME NEW s \in Streams
      PROVE  /\ chain[s] \subseteq chain'[s]
             /\ \A e \in chain'[s] \ chain[s] :
                  \E i \in 0 .. Width - 2 : e = FirstOf(tip + 1) + i
      <2>1. n[s] \in 0 .. Width - 1
            BY <1>4
      <2>2. 0 .. n[s] - 1 \subseteq 0 .. Width - 2
            BY <2>1, WidthAssumption
      <2> QED  BY <1>4, <2>2
<1>6. UNCHANGED <<table, activity, cursors, worker, loader>>
      BY DEF CloseLedger
<1>7. /\ chain' \in [Streams -> SUBSET Positions]
      /\ \A s \in Streams : table[s] \subseteq chain'[s]
      <2>1. ASSUME NEW s \in Streams
            PROVE  chain'[s] \subseteq Positions /\ table[s] \subseteq chain'[s]
            BY <1>3, <1>5 DEF IInv, TypeOK
      <2> QED  BY <2>1, <1>4
<1>8. TypeOK'
      BY <1>1, <1>6, <1>7 DEF IInv, TypeOK
<1>9. ChainShape'
      <2>1. ASSUME NEW s \in Streams, NEW e \in chain'[s]
            PROVE  e < FirstOf(tip' + 1) /\ \A l \in Nat : e # EndOf(l)
            <3>1. CASE e \in chain[s]
                  <4>1. e \in Nat
                        BY <3>1, PositionTypes, BoundsAssumption DEF IInv, TypeOK, Positions
                  <4> QED  BY <3>1, <4>1, <1>2, WidthAssumption DEF IInv, ChainShape
            <3>2. CASE e \notin chain[s]
                  <4>1. PICK i \in 0 .. Width - 2 : e = FirstOf(tip + 1) + i
                        BY <3>2, <1>5
                  <4> QED  BY <4>1, <1>1, <1>3, EndsAreFree
            <3> QED  BY <3>1, <3>2
      <2> QED  BY <2>1 DEF ChainShape
<1>10. ASSUME NEW s \in Streams, NEW from \in Nat, Possible(from)
       PROVE  Possible(from)' /\ Between(s, Start0, from)' = Between(s, Start0, from)
      <2>1. FirstOf(tip + 1) <= FirstOf(tip' + 1)
            BY <1>2, WidthAssumption
      <2>2. Possible(from)'
            BY <1>10, <1>2, <2>1 DEF Possible, Start0
      <2>3. ASSUME NEW e \in chain'[s] \ chain[s], Start0 <= e, e < from
            PROVE  FALSE
            <3>1. PICK i \in 0 .. Width - 2 : e = FirstOf(tip + 1) + i
                  BY <1>5
            <3> QED  BY <3>1, <2>3, <1>10, <1>2, WidthAssumption DEF Possible
      <2> QED  BY <2>2, <2>3, <1>5 DEF Between, Start0
<1>11. CursorsKeep'
      BY <1>6, <1>10 DEF IInv, TypeOK, Cursors, CursorsKeep, Holds
<1>12. ReadsKeep'
      <2>1. ASSUME NEW w \in Workers, worker[w].phase = "fetching"
            PROVE  worker[w].stream \in Streams /\ worker[w].read.from \in Nat
            BY <2>1 DEF IInv, TypeOK, WorkerStates, Cursors
      <2> QED  BY <2>1, <1>6, <1>10 DEF IInv, ReadsKeep, Holds
<1>13. PagesKeep'
      <2>1. ASSUME NEW w \in Workers, worker[w].phase = "committing"
            PROVE  worker[w].stream \in Streams /\ worker[w].page.next.from \in Nat
            BY <2>1 DEF IInv, TypeOK, WorkerStates, Pages, Cursors
      <2>2. \A s \in Streams : chain[s] \subseteq chain'[s]
            BY <1>5
      <2> QED  BY <2>1, <2>2, <1>6, <1>10 DEF IInv, PagesKeep, Holds
<1>14. LoaderKeeps'
      <2> SUFFICES ASSUME loader.step # "off"
                   PROVE  LoaderKeeps'
          BY <1>6 DEF LoaderKeeps
      <2>1. /\ SPP \in Streams /\ loader.last \in 1 .. tip
            BY DEF IInv, LoaderKeeps
      <2>2. /\ FirstOf(loader.last + 1) \in Nat
            /\ FirstOf(loader.last + 1) <= FirstOf(tip + 1)
            <3>1. /\ loader.last + 1 \in Nat /\ tip + 1 \in Nat
                  /\ loader.last + 1 <= tip + 1
                  BY <2>1, <1>1
            <3> QED  BY <3>1, FirstMonotone, PositionTypes
      <2>3. Between(SPP, Start0, FirstOf(loader.last + 1))'
              = Between(SPP, Start0, FirstOf(loader.last + 1))
            BY <2>1, <2>2, <1>6, <1>10 DEF Possible
      <2> QED  BY <2>1, <2>3, <1>1, <1>5, <1>6 DEF IInv, LoaderKeeps, Holds
<1> QED  BY <1>8, <1>9, <1>11, <1>12, <1>13, <1>14 DEF IInv

----------------------------------------------------------------------------
\* Steps that only change what a worker has in memory.

(* What a worker's memory must keep, whatever the step.                       *)
Keeps(u) ==
    /\ u \in WorkerStates
    /\ u.phase \in {"fetching", "committing"} => u.stream \in Streams
    /\ u.phase = "fetching" =>
         Possible(u.read.from) /\ Holds(u.stream, u.read.from, table[u.stream])
    /\ u.phase = "committing" =>
         /\ Possible(u.page.next.from)
         /\ Holds(u.stream, u.page.next.from, table[u.stream] \cup u.page.events)
         /\ u.page.events \subseteq chain[u.stream]

(* What the invariant says of one worker.                                    *)
LEMMA WorkersKeep ==
    ASSUME IInv, NEW w \in Workers
    PROVE  Keeps(worker[w])
BY DEF IInv, TypeOK, ReadsKeep, PagesKeep, Keeps

(* A step that only changes what one worker has in memory.                   *)
LEMMA MemoryStepKeeps ==
    ASSUME IInv, NEW w \in Workers, NEW u, Keeps(u), worker' = [worker EXCEPT ![w] = u],
           UNCHANGED <<tip, chain, table, activity, cursors, loader>>
    PROVE  IInv'
<1>1. \A v \in Workers : worker'[v] = IF v = w THEN u ELSE worker[v]
      BY DEF IInv, TypeOK
<1>2. \A v \in Workers : Keeps(worker'[v])
      BY <1>1, WorkersKeep
<1>3. worker' \in [Workers -> WorkerStates]
      BY <1>2 DEF IInv, TypeOK, Keeps
<1>4. TypeOK'
      BY <1>2, <1>3 DEF IInv, TypeOK, Keeps
<1>5. ReadsKeep' /\ PagesKeep'
      BY <1>2 DEF ReadsKeep, PagesKeep, Keeps, Possible, Holds, Between, Start0
<1>6. ChainShape' /\ CursorsKeep' /\ LoaderKeeps'
      BY DEF IInv, ChainShape, CursorsKeep, LoaderKeeps, Possible, Holds, Between, Start0
<1> QED  BY <1>4, <1>5, <1>6 DEF IInv

(* The cursor before the first poll is a cursor.                             *)
LEMMA FirstCursor == NoCursor \in Cursors
BY PositionTypes, StartLedgerAssumption DEF NoCursor, Cursor, Cursors, Modes

(* A worker that starts, or is off, keeps nothing.                           *)
LEMMA FreshKeeps == Keeps(Fresh) /\ Keeps(Off)
<1>1. NoPage \in Pages
      BY FirstCursor DEF NoPage, Page, Pages
<1> QED  BY <1>1, FirstCursor DEF Fresh, Off, Keeps, WorkerStates, Phases

(* A worker that is not waiting for anything keeps nothing.                   *)
LEMMA IdleKeeps ==
    ASSUME NEW u \in WorkerStates, u.phase \notin {"fetching", "committing"}
    PROVE  Keeps(u)
BY DEF Keeps

(* A poll that fails forgets what it read (poll).                            *)
LEMMA PollFailsKeeps ==
    ASSUME IInv, NEW w \in Workers, PollFails(w)
    PROVE  IInv'
<1> DEFINE u == [worker[w] EXCEPT !.phase = "polling", !.stream = "none",
                                  !.resting = @ \cup {worker[w].stream},
                                  !.read = NoCursor, !.page = NoPage]
<1>1. worker[w] \in WorkerStates /\ worker[w].stream \in Streams
      BY DEF IInv, TypeOK, PollFails
<1>2. NoPage \in Pages
      BY FirstCursor DEF NoPage, Page, Pages
<1>3. u \in WorkerStates /\ u.phase = "polling"
      BY <1>1, <1>2, FirstCursor DEF WorkerStates, Phases
<1>4. worker' = [worker EXCEPT ![w] = u]
      BY DEF IInv, TypeOK, PollFails, PollDone
<1> QED  BY <1>3, <1>4, IdleKeeps, MemoryStepKeeps DEF PollFails

(* A poll reads a cursor, and so keeps its promise.                          *)
LEMMA BeginPollKeeps ==
    ASSUME IInv, NEW w \in Workers, NEW s \in Streams, BeginPoll(w, s)
    PROVE  IInv'
<1> DEFINE u == [worker[w] EXCEPT !.phase = "fetching", !.stream = s, !.due = @ \ {s},
                                  !.read = cursors[s]]
<1>1. worker[w] \in WorkerStates /\ cursors[s] \in Cursors
      BY DEF IInv, TypeOK
<1>2. u \in WorkerStates /\ u.phase = "fetching" /\ u.stream = s /\ u.read = cursors[s]
      BY <1>1 DEF WorkerStates, Phases
<1>3. Keeps(u)
      BY <1>2 DEF IInv, CursorsKeep, Keeps
<1>4. worker' = [worker EXCEPT ![w] = u]
      BY DEF IInv, TypeOK, BeginPoll
<1> QED  BY <1>3, <1>4, MemoryStepKeeps DEF BeginPoll

(* A page that arrives keeps the promise of the cursor it was asked with.    *)
LEMMA FetchKeeps ==
    ASSUME IInv, NEW w \in Workers, NEW s \in Streams, Fetch(w, s)
    PROVE  IInv'
<1>1. PICK page \in FetchPage(s, worker[w].read) :
         worker' = [worker EXCEPT ![w].phase = "committing", ![w].read = NoCursor,
                                  ![w].page = page]
      BY DEF Fetch
<1> DEFINE u == [worker[w] EXCEPT !.phase = "committing", !.read = NoCursor,
                                  !.page = page]
<1>2. /\ worker[w] \in WorkerStates /\ worker[w].read \in Cursors
      /\ worker[w].stream = s /\ worker[w].phase = "fetching"
      BY DEF IInv, TypeOK, WorkerStates, Fetch
<1>3. /\ page.events \subseteq chain[s] /\ page \in Pages
      /\ page.next.from <= FirstOf(tip + 1)
      /\ Between(s, worker[w].read.from, page.next.from) \subseteq page.events
      BY <1>2, PagesAreWhole DEF IInv
<1>4. u \in WorkerStates /\ u.phase = "committing" /\ u.stream = s /\ u.page = page
      BY <1>2, <1>3, FirstCursor DEF WorkerStates, Phases
<1>5. Holds(s, worker[w].read.from, table[s])
      BY <1>2 DEF IInv, ReadsKeep
<1>6. Holds(s, page.next.from, table[s] \cup page.events)
      <2>1. chain[s] \subseteq Nat
            BY PositionsAreNatural DEF IInv, TypeOK
      <2>2. worker[w].read.from \in Nat /\ page.next.from \in Nat
            BY <1>2, <1>3 DEF Pages, Cursors
      <2> QED  BY <1>3, <1>5, <2>1, <2>2 DEF Holds, Between
<1>7. Keeps(u)
      BY <1>3, <1>4, <1>6 DEF Keeps, Possible
<1>8. worker' = [worker EXCEPT ![w] = u]
      BY <1>1 DEF IInv, TypeOK
<1> QED  BY <1>7, <1>8, MemoryStepKeeps DEF Fetch

----------------------------------------------------------------------------
\* Steps that write the table.

(* The page's events and its cursor go in together.                           *)
LEMMA CommitKeeps ==
    ASSUME IInv, NEW w \in Workers, NEW s \in Streams, Commit(w, s)
    PROVE  IInv'
<1> DEFINE u == [worker[w] EXCEPT !.phase = "polling", !.stream = "none",
                                  !.resting = @ \cup {}, !.read = NoCursor,
                                  !.page = NoPage]
           page == worker[w].page
<1>1. /\ worker[w] \in WorkerStates /\ s = worker[w].stream
      /\ worker[w].phase = "committing" /\ page \in Pages
      BY DEF IInv, TypeOK, Commit, WorkerStates
<1>2. NoPage \in Pages
      BY FirstCursor DEF NoPage, Page, Pages
<1>3. u \in WorkerStates /\ u.phase = "polling"
      BY <1>1, <1>2, FirstCursor DEF WorkerStates, Phases
<1>4. /\ worker' = [worker EXCEPT ![w] = u]
      /\ table' = [table EXCEPT ![s] = @ \cup page.events]
      /\ cursors' = [cursors EXCEPT ![s] = page.next]
      /\ UNCHANGED <<tip, chain, loader>>
      BY DEF IInv, TypeOK, Commit, PollDone
<1>5. /\ \A v \in Workers : worker'[v] = IF v = w THEN u ELSE worker[v]
      /\ \A r \in Streams : table'[r] = IF r = s THEN table[r] \cup page.events ELSE table[r]
      /\ \A r \in Streams : cursors'[r] = IF r = s THEN page.next ELSE cursors[r]
      BY <1>4 DEF IInv, TypeOK
<1>6. /\ Possible(page.next.from) /\ Holds(s, page.next.from, table[s] \cup page.events)
      /\ page.events \subseteq chain[s]
      BY <1>1 DEF IInv, PagesKeep
<1>7. activity' \in [Positions -> 0 .. MaxCopies]
      BY BoundsAssumption DEF IInv, TypeOK, Commit, InsertCtActivity
<1>8. TypeOK'
      <2>1. worker' \in [Workers -> WorkerStates]
            BY <1>3, <1>4 DEF IInv, TypeOK
      <2>2. cursors' \in [Streams -> Cursors]
            BY <1>1, <1>4 DEF IInv, TypeOK, Pages
      <2>3. /\ table' \in [Streams -> SUBSET Positions]
            /\ \A r \in Streams : table'[r] \subseteq chain'[r]
            BY <1>4, <1>5, <1>6 DEF IInv, TypeOK
      <2>4. \A v \in Workers : worker'[v].phase \in {"fetching", "committing"} =>
                                 worker'[v].stream \in Streams
            BY <1>3, <1>5 DEF IInv, TypeOK
      <2> QED  BY <1>4, <1>7, <2>1, <2>2, <2>3, <2>4 DEF IInv, TypeOK
<1>9. ChainShape'
      <2>1. UNCHANGED <<tip, chain>> /\ ChainShape
            BY <1>4 DEF IInv
      <2> QED  BY <2>1 DEF ChainShape
<1>10. CursorsKeep'
      <2>1. UNCHANGED <<tip, chain>>
            BY <1>4
      <2> SUFFICES ASSUME NEW r \in Streams
                   PROVE  Possible(cursors[r].from)' /\ Holds(r, cursors[r].from, table[r])'
          BY DEF CursorsKeep
      <2>2. CASE r = s
            BY <1>5, <1>6, <2>1, <2>2 DEF Possible, Holds, Between, Start0
      <2>3. CASE r # s
            <3>1. Possible(cursors[r].from) /\ Holds(r, cursors[r].from, table[r])
                  BY DEF IInv, CursorsKeep
            <3>2. cursors'[r] = cursors[r] /\ table'[r] = table[r]
                  BY <1>5, <2>3
            <3> QED  BY <2>1, <3>1, <3>2 DEF Possible, Holds, Between, Start0
      <2> QED  BY <2>2, <2>3
<1>11. ReadsKeep'
      <2> SUFFICES ASSUME NEW v \in Workers, worker'[v].phase = "fetching"
                   PROVE  LET r == worker[v].stream IN
                          /\ worker'[v] = worker[v]
                          /\ Possible(worker[v].read.from)'
                          /\ Holds(r, worker[v].read.from, table[r])'
          BY DEF ReadsKeep
      <2>1. worker'[v] = worker[v] /\ worker[v].stream \in Streams
            BY <1>3, <1>5 DEF IInv, TypeOK
      <2> QED  BY <1>4, <1>5, <2>1
               DEF IInv, ReadsKeep, Possible, Holds, Between, Start0
<1>12. PagesKeep'
      <2> SUFFICES ASSUME NEW v \in Workers, worker'[v].phase = "committing"
                   PROVE  LET r == worker[v].stream IN
                          /\ worker'[v] = worker[v]
                          /\ Possible(worker[v].page.next.from)'
                          /\ Holds(r, worker[v].page.next.from,
                                   table[r] \cup worker[v].page.events)'
                          /\ (worker[v].page.events \subseteq chain[r])'
          BY DEF PagesKeep
      <2>1. worker'[v] = worker[v] /\ worker[v].stream \in Streams
            BY <1>3, <1>5 DEF IInv, TypeOK
      <2> QED  BY <1>4, <1>5, <2>1
               DEF IInv, PagesKeep, Possible, Holds, Between, Start0
<1>13. LoaderKeeps'
      BY <1>4, <1>5 DEF IInv, LoaderKeeps, Holds, Between, Start0
<1> QED  BY <1>8, <1>9, <1>10, <1>11, <1>12, <1>13 DEF IInv

(* A step of the backfill script that leaves the cursors alone: it may move   *)
(* events from the fixture to the table.                                      *)
LEMMA LoadingKeeps ==
    ASSUME IInv, table' \in [Streams -> SUBSET Positions],
           \A r \in Streams : table[r] \subseteq table'[r] /\ table'[r] \subseteq chain[r],
           loader' \in LoaderStates, LoaderKeeps',
           UNCHANGED <<tip, chain, activity, cursors, worker>>
    PROVE  IInv'
<1>1. TypeOK'
      BY DEF IInv, TypeOK
<1>2. ChainShape'
      BY DEF IInv, ChainShape
<1>3. CursorsKeep'
      BY DEF IInv, CursorsKeep, Possible, Holds, Between, Start0
<1>4. ReadsKeep' /\ PagesKeep'
      <2>1. \A w \in Workers : worker[w].phase \in {"fetching", "committing"} =>
                                worker[w].stream \in Streams
            BY DEF IInv, TypeOK
      <2> QED  BY <2>1
               DEF IInv, ReadsKeep, PagesKeep, Possible, Holds, Between, Start0
<1> QED  BY <1>1, <1>2, <1>3, <1>4 DEF IInv

(* A quiet dump misses nothing.                                              *)
LEMMA QuietlyDumped ==
    ASSUME QuietDump, Backfills, NEW l \in Nat, chain[SPP] \subseteq Nat,
           NEW missed \in SUBSET Between(SPP, FirstOf(l + 1 - DumpSpan), FirstOf(l + 1))
    PROVE  missed = {}
<1>1. l + 1 - DumpSpan = l + 1 /\ FirstOf(l + 1) \in Nat
      BY PositionTypes DEF QuietDump
<1>2. Between(SPP, FirstOf(l + 1 - DumpSpan), FirstOf(l + 1)) = {}
      BY <1>1 DEF Between
<1> QED  BY <1>2

(* The fixture of a quiet dump holds every event up to its ledger.           *)
LEMMA LoaderStartKeeps ==
    ASSUME IInv, LoaderStart
    PROVE  IInv'
<1>1. SPP \in Streams
      BY BackfillsAssumption DEF LoaderStart, Streams, SPP
<1>2. PICK l \in 1 .. tip :
         \E missed \in SUBSET Between(SPP, FirstOf(l + 1 - DumpSpan), FirstOf(l + 1)) :
            loader' = Fixture(l, missed)
      BY DEF LoaderStart
<1>3. PICK missed \in SUBSET Between(SPP, FirstOf(l + 1 - DumpSpan), FirstOf(l + 1)) :
         loader' = Fixture(l, missed)
      BY <1>2
<1>4. /\ tip \in Nat /\ tip <= MaxLedger /\ Start0 \in Nat
      /\ chain[SPP] \subseteq Positions /\ chain[SPP] \subseteq Nat
      <2>1. tip \in 0 .. MaxLedger /\ chain[SPP] \subseteq Positions
            BY <1>1 DEF IInv, TypeOK
      <2>2. Start0 \in Nat
            BY StartLedgerAssumption, PositionTypes DEF Start0
      <2>3. tip \in Nat /\ tip <= MaxLedger
            BY <2>1, BoundsAssumption
      <2>4. chain[SPP] \subseteq Nat
            BY <2>1, PositionsAreNatural
      <2> QED  BY <2>1, <2>2, <2>3, <2>4
<1>5. loader'.left \subseteq chain[SPP] /\ loader'.last = l /\ loader'.step = "loading"
      BY <1>3 DEF Fixture, Between
<1>6. loader' \in LoaderStates
      BY <1>3, <1>4, BoundsAssumption DEF Fixture, Between, LoaderStates
<1>7. QuietDump => Between(SPP, Start0, FirstOf(l + 1)) \subseteq loader'.left
      <2> SUFFICES ASSUME QuietDump
                   PROVE  Between(SPP, Start0, FirstOf(l + 1)) \subseteq loader'.left
          OBVIOUS
      <2>1. missed = {}
            BY <1>3, <1>4, QuietlyDumped DEF LoaderStart
      <2>2. loader'.left = Between(SPP, 0, FirstOf(l + 1))
            BY <1>3, <2>1 DEF Fixture
      <2> QED  BY <1>4, <2>2 DEF Between
<1>8. UNCHANGED <<tip, chain, table, activity, cursors, worker>>
      BY DEF LoaderStart
<1>9. LoaderKeeps'
      BY <1>1, <1>5, <1>7, <1>8 DEF LoaderKeeps, Holds, Between, Start0
<1>10. /\ table' \in [Streams -> SUBSET Positions]
      /\ \A r \in Streams : table[r] \subseteq table'[r] /\ table'[r] \subseteq chain[r]
      BY <1>8 DEF IInv, TypeOK
<1> QED  BY <1>6, <1>8, <1>9, <1>10, LoadingKeeps

(* A chunk moves from the fixture to the table: nothing is lost on the way.  *)
LEMMA LoaderChunkKeeps ==
    ASSUME IInv, LoaderChunk
    PROVE  IInv'
<1>1. PICK e \in loader.left :
         /\ table' = [table EXCEPT ![SPP] = @ \cup {x \in loader.left : x <= e}]
         /\ loader' = [loader EXCEPT !.left = @ \ {x \in loader.left : x <= e}]
      BY DEF LoaderChunk
<1> DEFINE chunk == {x \in loader.left : x <= e}
<1>2. /\ SPP \in Streams /\ loader.left \subseteq chain[SPP] /\ loader \in LoaderStates
      /\ loader.step = "loading"
      BY DEF IInv, TypeOK, LoaderKeeps, LoaderChunk
<1>3. loader' \in LoaderStates
      BY <1>1, <1>2 DEF LoaderStates
<1>4. UNCHANGED <<tip, chain, activity, cursors, worker>>
      BY DEF LoaderChunk
<1>5. table'[SPP] = table[SPP] \cup chunk
      BY <1>1, <1>2 DEF IInv, TypeOK
<1>6. /\ loader'.left = loader.left \ chunk /\ loader'.step = "loading"
      /\ loader'.last = loader.last
      BY <1>1, <1>2 DEF LoaderStates
<1>7. table'[SPP] \cup loader'.left = table[SPP] \cup loader.left
      BY <1>5, <1>6
<1>8. LoaderKeeps'
      BY <1>2, <1>4, <1>6, <1>7 DEF IInv, LoaderKeeps, Holds, Between, Start0
<1>9. /\ table' \in [Streams -> SUBSET Positions]
      /\ \A r \in Streams : table[r] \subseteq table'[r] /\ table'[r] \subseteq chain[r]
      BY <1>1, <1>2 DEF IInv, TypeOK
<1> QED  BY <1>3, <1>4, <1>8, <1>9, LoadingKeeps

(* The backfill script reads the cursor, or stops.                           *)
LEMMA LoaderEndsKeeps ==
    ASSUME IInv, LoaderRead \/ LoaderDies
    PROVE  IInv'
<1>1. SPP \in Streams /\ loader \in LoaderStates
      BY DEF IInv, TypeOK, LoaderKeeps, LoaderRead, LoaderDies
<1>2. UNCHANGED <<tip, chain, table, activity, cursors, worker>>
      BY DEF LoaderRead, LoaderDies
<1>3. \/ loader' = Unloaded
      \/ loader' = [loader EXCEPT !.step = "deciding"] /\ loader.step = "loading"
         /\ loader.left = {}
      BY DEF LoaderRead, LoaderDies
<1>4. loader' \in LoaderStates
      BY <1>1, <1>3, BoundsAssumption DEF LoaderStates, Unloaded
<1>5. LoaderKeeps'
      BY <1>1, <1>2, <1>3
         DEF IInv, LoaderKeeps, LoaderStates, Unloaded, Holds, Between, Start0
<1>6. /\ table' \in [Streams -> SUBSET Positions]
      /\ \A r \in Streams : table[r] \subseteq table'[r] /\ table'[r] \subseteq chain[r]
      BY <1>2 DEF IInv, TypeOK
<1> QED  BY <1>2, <1>4, <1>5, <1>6, LoadingKeeps

(* The cursor is moved past the fixture only when the whole of it is in.      *)
LEMMA LoaderWriteKeeps ==
    ASSUME IInv, LoaderWrite
    PROVE  IInv'
<1> DEFINE from == FirstOf(loader.last + 1)
<1>1. /\ SPP \in Streams /\ loader.last \in 1 .. tip /\ loader.left = {}
      /\ Holds(SPP, from, table[SPP])
      BY DEF IInv, LoaderKeeps, LoaderWrite
<1>2. from \in Nat /\ from <= FirstOf(tip + 1)
      <2>1. /\ loader.last + 1 \in Nat /\ tip + 1 \in Nat /\ loader.last + 1 <= tip + 1
            BY <1>1, BoundsAssumption DEF IInv, TypeOK
      <2> QED  BY <2>1, FirstMonotone, PositionTypes
<1>3. /\ UNCHANGED <<tip, chain, table, activity, worker>> /\ loader' = Unloaded
      /\ cursors' = [cursors EXCEPT ![SPP] = Cursor("rpc", from)]
      BY DEF LoaderWrite
<1>4. Cursor("rpc", from) \in Cursors /\ Cursor("rpc", from).from = from
      BY <1>2 DEF Cursor, Cursors, Modes
<1>5. TypeOK'
      <2>1. cursors' \in [Streams -> Cursors]
            BY <1>3, <1>4 DEF IInv, TypeOK
      <2>2. loader' \in LoaderStates
            BY <1>3, BoundsAssumption DEF LoaderStates, Unloaded
      <2> QED  BY <1>3, <2>1, <2>2 DEF IInv, TypeOK
<1>6. CursorsKeep'
      <2> SUFFICES ASSUME NEW s \in Streams
                   PROVE  Possible(cursors[s].from)' /\ Holds(s, cursors[s].from, table[s])'
          BY DEF CursorsKeep
      <2>1. CASE s = SPP
            <3>1. cursors'[s].from = from
                  BY <1>1, <1>3, <1>4, <2>1 DEF IInv, TypeOK
            <3> QED  BY <1>1, <1>2, <1>3, <2>1, <3>1 DEF Possible, Holds, Between, Start0
      <2>2. CASE s # SPP
            <3>1. cursors'[s] = cursors[s]
                  BY <1>3, <2>2 DEF IInv, TypeOK
            <3> QED  BY <1>3, <3>1
                     DEF IInv, CursorsKeep, Possible, Holds, Between, Start0
      <2> QED  BY <2>1, <2>2
<1>7. ReadsKeep' /\ PagesKeep' /\ ChainShape' /\ LoaderKeeps'
      BY <1>3 DEF IInv, ReadsKeep, PagesKeep, ChainShape, LoaderKeeps, Possible, Holds,
                  Between, Start0, Unloaded
<1> QED  BY <1>5, <1>6, <1>7 DEF IInv

----------------------------------------------------------------------------
(***************************************************************************)
(* The theorems.                                                           *)
(***************************************************************************)

(* The promises hold of empty tables.                                        *)
LEMMA InitKeeps == Init => IInv
<1> SUFFICES ASSUME Init
             PROVE  IInv
    OBVIOUS
<1>1. worker \in [Workers -> WorkerStates] /\ \A w \in Workers : worker[w].phase = "off"
      BY FreshKeeps DEF Init, Keeps, Off, Fresh
<1>2. cursors \in [Streams -> Cursors]
      BY FirstCursor DEF Init
<1>3. TypeOK
      BY <1>1, <1>2, BoundsAssumption DEF Init, TypeOK, LoaderStates, Unloaded
<1>4. CursorsKeep
      BY DEF Init, CursorsKeep, Possible, Holds, Between, Start0, NoCursor, Cursor
<1> QED  BY <1>1, <1>3, <1>4
         DEF Init, IInv, ChainShape, ReadsKeep, PagesKeep, LoaderKeeps, Unloaded

(* What only schedules a worker's polls keeps what the worker keeps.          *)
LEMMA SchedulingKeeps ==
    ASSUME IInv, NEW w \in Workers,
           \/ Start(w) \/ BeginTick(w) \/ EndTick(w) \/ Shutdown(w) \/ Crash(w)
           \/ \E s \in Streams : Wake(w, s)
    PROVE  IInv'
<1>1. worker[w] \in WorkerStates /\ Keeps(worker[w]) /\ Keeps(Fresh) /\ Keeps(Off)
      BY WorkersKeep, FreshKeeps DEF IInv, TypeOK
<1>2. CASE Start(w)
      BY <1>1, <1>2, MemoryStepKeeps DEF Start
<1>3. CASE BeginTick(w)
      <2> DEFINE u == [worker[w] EXCEPT !.phase = "polling",
                                        !.due = Streams \ worker[w].resting]
      <2>1. u \in WorkerStates /\ u.phase = "polling"
            BY <1>1 DEF WorkerStates, Phases
      <2>2. worker' = [worker EXCEPT ![w] = u]
            BY <1>3 DEF IInv, TypeOK, BeginTick
      <2> QED  BY <1>3, <2>1, <2>2, IdleKeeps, MemoryStepKeeps DEF BeginTick
<1>4. CASE EndTick(w)
      <2> DEFINE u == [Fresh EXCEPT !.resting = worker[w].resting]
      <2>1. u \in WorkerStates /\ u.phase = "idle"
            BY <1>1, FreshKeeps DEF Keeps, WorkerStates, Fresh
      <2>2. Keeps(u)
            BY <2>1, IdleKeeps
      <2> QED  BY <1>1, <1>4, <2>2, MemoryStepKeeps DEF EndTick
<1>5. CASE Shutdown(w)
      <2> DEFINE u == [worker[w] EXCEPT !.stopping = TRUE]
      <2>1. Keeps(u)
            BY <1>1 DEF Keeps, WorkerStates
      <2> QED  BY <1>1, <1>5, <2>1, MemoryStepKeeps DEF Shutdown
<1>6. CASE Crash(w)
      BY <1>1, <1>6, MemoryStepKeeps DEF Crash
<1>7. ASSUME NEW s \in Streams, Wake(w, s)
      PROVE  IInv'
      <2> DEFINE u == [worker[w] EXCEPT !.resting = @ \ {s}]
      <2>1. Keeps(u)
            BY <1>1 DEF Keeps, WorkerStates
      <2>2. worker' = [worker EXCEPT ![w] = u]
            BY <1>7 DEF IInv, TypeOK, Wake
      <2> QED  BY <1>7, <2>1, <2>2, MemoryStepKeeps DEF Wake
<1> QED  BY <1>2, <1>3, <1>4, <1>5, <1>6, <1>7

(* Every step keeps the promises.                                            *)
LEMMA StepKeeps == IInv /\ [Next]_vars => IInv'
<1> SUFFICES ASSUME IInv, [Next]_vars
             PROVE  IInv'
    OBVIOUS
<1>1. CASE UNCHANGED vars
      BY <1>1 DEF vars, IInv, TypeOK, ChainShape, CursorsKeep, ReadsKeep, PagesKeep,
                  LoaderKeeps, Possible, Holds, Between, Start0
<1>2. CASE CloseLedger
      BY <1>2, ClosingKeeps
<1>3. ASSUME NEW w \in Workers,
             \/ Start(w) \/ BeginTick(w) \/ EndTick(w) \/ Shutdown(w) \/ Crash(w)
             \/ \E s \in Streams : Wake(w, s)
      PROVE  IInv'
      BY <1>3, SchedulingKeeps
<1>4. ASSUME NEW w \in Workers, PollFails(w)
      PROVE  IInv'
      BY <1>4, PollFailsKeeps
<1>5. ASSUME NEW w \in Workers, NEW s \in Streams,
             BeginPoll(w, s) \/ Fetch(w, s) \/ Commit(w, s)
      PROVE  IInv'
      BY <1>5, BeginPollKeeps, FetchKeeps, CommitKeeps
<1>6. CASE LoaderStart \/ LoaderChunk
      BY <1>6, LoaderStartKeeps, LoaderChunkKeeps
<1>7. CASE LoaderRead \/ LoaderWrite \/ LoaderDies
      BY <1>7, LoaderEndsKeeps, LoaderWriteKeeps
<1> QED  BY <1>1, <1>2, <1>3, <1>4, <1>5, <1>6, <1>7 DEF Next

(* The promises hold in every reachable state.                                *)
THEOREM CursorsKeepTheirPromise == Spec => []IInv
BY InitKeeps, StepKeeps, PTL DEF Spec

(* What the workers and the backfill script store is well formed, and came    *)
(* from the chain.                                                            *)
THEOREM TypeCorrect == Spec => []TypeOK
<1>1. IInv => TypeOK
      BY DEF IInv
<1> QED  BY <1>1, CursorsKeepTheirPromise, PTL

(* No event before a stream's cursor is missing from the table, with any      *)
(* number of workers and the backfill script at once, if the script's fixture *)
(* was dumped while no event came (pollStream, initSppCursor).                *)
THEOREM TableHasNoGap ==
    ASSUME QuietDump PROVE Spec => []NoGap
<1>1. IInv => NoGap
      BY DEF IInv, CursorsKeep, Holds, Start0, NoGap
<1> QED  BY <1>1, CursorsKeepTheirPromise, PTL

----------------------------------------------------------------------------
(***************************************************************************)
(* The order in which the table fills.  What is stored, what a worker is   *)
(* about to store and what the backfill script has left to store leave out *)
(* no event before one they have: a page begins where a promise was kept,  *)
(* and ends where its source cut it, with nothing missing in between.      *)
(***************************************************************************)

\* With an event, every earlier one of the stream.
Whole(s, events) ==
    \A e \in events : \A f \in chain[s] : Start0 <= f /\ f < e => f \in events

TablesWhole == \A s \in Streams : Whole(s, table[s])

PagesWhole ==
    \A w \in Workers : worker[w].phase = "committing" =>
        Whole(worker[w].stream, table[worker[w].stream] \cup worker[w].page.events)

LoaderWhole == loader.step # "off" => Whole(SPP, table[SPP] \cup loader.left)

OrderInv == IInv /\ TablesWhole /\ PagesWhole /\ LoaderWhole

(* Two sets that leave nothing out leave nothing out together.               *)
LEMMA WholeTogether ==
    ASSUME NEW s, NEW a, NEW b, Whole(s, a), Whole(s, b)
    PROVE  Whole(s, a \cup b)
BY DEF Whole

(* Positions of a stream are numbers.                                        *)
LEMMA ChainOfNumbers ==
    ASSUME TypeOK, NEW s \in Streams
    PROVE  chain[s] \subseteq Nat /\ table[s] \subseteq Nat /\ Start0 \in Nat
<1>1. chain[s] \subseteq Positions /\ table[s] \subseteq Positions
      BY DEF TypeOK
<1> QED  BY <1>1, PositionsAreNatural, StartLedgerAssumption, PositionTypes DEF Start0

(* A ledger that closes adds events after all there are.                     *)
LEMMA ClosingAddsLater ==
    ASSUME IInv, CloseLedger, NEW s \in Streams
    PROVE  /\ chain[s] \subseteq chain'[s]
           /\ \A f \in chain'[s] \ chain[s] : f \in Nat /\ \A e \in chain[s] : e < f
<1>1. PICK n \in [Streams -> 0 .. Width - 1] :
         chain' = [r \in Streams |->
           chain[r] \cup {FirstOf(tip + 1) + i : i \in 0 .. n[r] - 1}]
      BY DEF CloseLedger
<1>2. chain'[s] = chain[s] \cup {FirstOf(tip + 1) + i : i \in 0 .. n[s] - 1}
      BY <1>1
<1>3. tip + 1 \in Nat
      BY BoundsAssumption DEF IInv, TypeOK
<1>4. FirstOf(tip + 1) \in Nat /\ chain[s] \subseteq Nat
      BY <1>3, PositionTypes, ChainOfNumbers DEF IInv
<1>5. ASSUME NEW f \in chain'[s] \ chain[s]
      PROVE  f \in Nat /\ \A e \in chain[s] : e < f
      <2>1. PICK i \in 0 .. n[s] - 1 : f = FirstOf(tip + 1) + i
            BY <1>2
      <2>2. n[s] \in 0 .. Width - 1
            BY <1>1
      <2>3. i \in Nat /\ f \in Nat /\ FirstOf(tip + 1) <= f
            BY <1>4, <2>1, <2>2, WidthAssumption
      <2>4. ASSUME NEW e \in chain[s]
            PROVE  e < f
            <3>1. e \in Nat /\ e < FirstOf(tip + 1)
                  BY <1>4 DEF IInv, ChainShape
            <3> QED  BY <1>4, <2>3, <3>1
      <2> QED  BY <2>3, <2>4
<1> QED  BY <1>2, <1>5

(* Events that leave none out go on leaving none out as the chain grows.     *)
LEMMA WholeAsItGrows ==
    ASSUME IInv, CloseLedger, NEW s \in Streams, NEW events, events \subseteq chain[s],
           Whole(s, events)
    PROVE  Whole(s, events)'
<1> SUFFICES ASSUME NEW e \in events, NEW f \in chain'[s], Start0 <= f, f < e
             PROVE  f \in events
    BY DEF Whole, Start0
<1>1. f \in chain[s]
      <2> SUFFICES ASSUME f \notin chain[s]
                   PROVE  FALSE
          OBVIOUS
      <2>1. f \in Nat /\ e \in chain[s] /\ e < f /\ e \in Nat
            BY ClosingAddsLater, ChainOfNumbers DEF IInv
      <2> QED  BY <2>1
<1> QED  BY <1>1 DEF Whole

(* A page has every event from the cursor it was asked with to its last one. *)
LEMMA PagesLeaveNothingOut ==
    ASSUME TypeOK, NEW s \in Streams, NEW cursor \in Cursors,
           NEW page \in FetchPage(s, cursor)
    PROVE  \A e \in page.events : \A f \in chain[s] :
              cursor.from <= f /\ f < e => f \in page.events
<1> DEFINE from == cursor.from
<1>1. from \in Nat /\ chain[s] \subseteq Nat
      BY ChainOfNumbers DEF Cursors
<1>2. page.events = {} \/ \E end \in Nat : page.events = Between(s, from, end)
      <2>1. ASSUME NEW mode, page \in RpcPages(s, from, mode)
            PROVE  \E end \in Nat : page.events = Between(s, from, end)
            <3>1. PICK end \in PageEnds(s, from) : \E next \in NextTokens(end) :
                     page = Page(Between(s, from, end), Cursor(mode, next))
                  BY <2>1 DEF RpcPages
            <3>2. page.events = Between(s, from, end)
                  BY <3>1 DEF Page
            <3>3. end \in Nat
                  <4>1. CASE \E e \in Between(s, from, FirstOf(tip + 1)) : end = e + 1
                        BY <4>1, <1>1 DEF Between
                  <4>2. CASE \E l \in LedgerOf(from) .. tip : end = EndOf(l)
                        <5>1. PICK l \in LedgerOf(from) .. tip : end = EndOf(l)
                              BY <4>2
                        <5>2. LedgerOf(from) \in Nat /\ l \in Nat
                              BY <1>1, <5>1, LedgerOfType
                        <5> QED  BY <5>1, <5>2, PositionTypes
                  <4> QED  BY <3>1, <4>1, <4>2 DEF PageEnds
            <3> QED  BY <3>2, <3>3
      <2>2. ASSUME page \in BootnodePages(s, from)
            PROVE  page.events = {} \/ \E end \in Nat : page.events = Between(s, from, end)
            <3>1. CASE \E e \in Between(s, from, FirstOf(tip + 1)) :
                          page = Page(Between(s, from, e + 1), Cursor("plain", e + 1))
                  <4>1. PICK e \in Between(s, from, FirstOf(tip + 1)) :
                          page = Page(Between(s, from, e + 1), Cursor("plain", e + 1))
                        BY <3>1
                  <4>2. e + 1 \in Nat
                        BY <1>1 DEF Between
                  <4> QED  BY <4>1, <4>2 DEF Page
            <3>2. CASE \E l \in LedgerOf(from) .. tip + 1 :
                          page = Page({}, Cursor("handoff", FirstOf(l)))
                  BY <3>2 DEF Page
            <3>3. CASE \E l \in LedgerOf(from) .. tip :
                          page = Page(Between(s, from, FirstOf(l + 1)),
                                      Cursor("plain", FirstOf(l + 1)))
                  <4>1. PICK l \in LedgerOf(from) .. tip :
                          page = Page(Between(s, from, FirstOf(l + 1)),
                                      Cursor("plain", FirstOf(l + 1)))
                        BY <3>3
                  <4>2. l \in Nat
                        BY <1>1, <4>1, LedgerOfType
                  <4>3. FirstOf(l + 1) \in Nat
                        BY <4>2, PositionTypes
                  <4> QED  BY <4>1, <4>3 DEF Page
            <3> QED  BY <2>2, <3>1, <3>2, <3>3 DEF BootnodePages
      <2> QED  BY <2>1, <2>2 DEF FetchPage
<1>3. ASSUME NEW e \in page.events, NEW f \in chain[s], from <= f, f < e
      PROVE  f \in page.events
      <2>1. PICK end \in Nat : page.events = Between(s, from, end)
            BY <1>2, <1>3
      <2>2. e \in Nat /\ e < end /\ f \in Nat
            BY <1>1, <1>3, <2>1 DEF Between
      <2>3. f < end
            BY <1>3, <2>2
      <2> QED  BY <1>3, <2>1, <2>3 DEF Between
<1> QED  BY <1>3

(* A closing ledger.                                                         *)
LEMMA ClosingKeepsOrder ==
    ASSUME OrderInv, CloseLedger
    PROVE  TablesWhole' /\ PagesWhole' /\ LoaderWhole'
<1>1. IInv /\ UNCHANGED <<table, worker, loader>>
      BY DEF OrderInv, CloseLedger
<1>2. TablesWhole'
      <2>1. ASSUME NEW s \in Streams
            PROVE  Whole(s, table[s])'
            <3>1. table[s] \subseteq chain[s] /\ Whole(s, table[s])
                  BY <1>1 DEF OrderInv, TablesWhole, IInv, TypeOK
            <3> QED  BY <1>1, <3>1, WholeAsItGrows DEF Whole, Start0
      <2> QED  BY <2>1 DEF TablesWhole
<1>3. PagesWhole'
      <2>1. ASSUME NEW w \in Workers, worker'[w].phase = "committing"
            PROVE  Whole(worker[w].stream,
                         table[worker[w].stream] \cup worker[w].page.events)'
            <3> DEFINE s == worker[w].stream
                       events == table[s] \cup worker[w].page.events
            <3>1. s \in Streams /\ events \subseteq chain[s] /\ Whole(s, events)
                  BY <1>1, <2>1 DEF OrderInv, PagesWhole, IInv, TypeOK, PagesKeep
            <3>2. Whole(s, events)'
                  BY <1>1, <3>1, WholeAsItGrows DEF Whole, Start0
            <3> QED  BY <1>1, <3>2
      <2> QED  BY <2>1 DEF PagesWhole
<1>4. LoaderWhole'
      <2>1. ASSUME loader'.step # "off"
            PROVE  Whole(SPP, table[SPP] \cup loader.left)'
            <3> DEFINE events == table[SPP] \cup loader.left
            <3>1. SPP \in Streams /\ events \subseteq chain[SPP] /\ Whole(SPP, events)
                  BY <1>1, <2>1 DEF OrderInv, LoaderWhole, IInv, TypeOK, LoaderKeeps
            <3>2. Whole(SPP, events)'
                  BY <1>1, <3>1, WholeAsItGrows DEF Whole, Start0
            <3> QED  BY <1>1, <3>2
      <2> QED  BY <2>1 DEF LoaderWhole
<1> QED  BY <1>2, <1>3, <1>4

\* What the order says of one worker, given what is in the tables.
PageWhole(u, tb) ==
    u.phase = "committing" => Whole(u.stream, tb[u.stream] \cup u.page.events)

(* What leaves nothing out with a set does so with a larger one.             *)
LEMMA WholeWithMore ==
    ASSUME NEW s, NEW a, NEW b, NEW more, a \subseteq b, Whole(s, b), Whole(s, a \cup more)
    PROVE  Whole(s, b \cup more)
<1>1. b \cup (a \cup more) = b \cup more
      OBVIOUS
<1>2. Whole(s, b \cup (a \cup more))
      BY WholeTogether
<1> QED  BY <1>1, <1>2

(* A step that leaves the chain alone and adds events to the tables: a page  *)
(* or a fixture that left nothing out goes on leaving nothing out.           *)
LEMMA StoringKeepsOrder ==
    ASSUME OrderInv, UNCHANGED chain,
           \A s \in Streams : table[s] \subseteq table'[s] /\ Whole(s, table'[s]),
           \A w \in Workers : \/ worker'[w].phase # "committing"
                              \/ worker'[w].stream \in Streams /\ PageWhole(worker'[w], table),
           \/ loader'.step = "off"
           \/ SPP \in Streams /\ Whole(SPP, table'[SPP] \cup loader'.left)
    PROVE  TablesWhole' /\ PagesWhole' /\ LoaderWhole'
<1>1. TablesWhole'
      <2>1. \A s \in Streams : Whole(s, table'[s])
            OBVIOUS
      <2> QED  BY <2>1 DEF TablesWhole, Whole, Start0
<1>2. PagesWhole'
      <2>1. ASSUME NEW w \in Workers, worker'[w].phase = "committing"
            PROVE  Whole(worker'[w].stream,
                         table'[worker'[w].stream] \cup worker'[w].page.events)
            <3>1. worker'[w].stream \in Streams /\ PageWhole(worker'[w], table)
                  BY <2>1
            <3>2. Whole(worker'[w].stream,
                        table[worker'[w].stream] \cup worker'[w].page.events)
                  BY <2>1, <3>1 DEF PageWhole
            <3> QED  BY <3>1, <3>2, WholeWithMore
      <2> QED  BY <2>1 DEF PagesWhole, Whole, Start0
<1>3. LoaderWhole'
      <2>1. loader'.step # "off" => Whole(SPP, table'[SPP] \cup loader'.left)
            OBVIOUS
      <2> QED  BY <2>1 DEF LoaderWhole, Whole, Start0
<1> QED  BY <1>1, <1>2, <1>3

(* What the order says of the workers, before a step.                        *)
LEMMA PagesAreInOrder ==
    ASSUME OrderInv, NEW w \in Workers
    PROVE  /\ worker[w] \in WorkerStates
           /\ worker[w].phase = "committing" => worker[w].stream \in Streams
           /\ PageWhole(worker[w], table)
BY DEF OrderInv, PagesWhole, PageWhole, IInv, TypeOK

(* A step in a worker's memory, with whatever page it has then.              *)
LEMMA MemoryStepKeepsOrder ==
    ASSUME OrderInv, NEW w \in Workers, NEW u, worker' = [worker EXCEPT ![w] = u],
           u.phase # "committing" \/ (u.stream \in Streams /\ PageWhole(u, table)),
           UNCHANGED <<chain, table, loader>>
    PROVE  TablesWhole' /\ PagesWhole' /\ LoaderWhole'
<1>1. \A v \in Workers : worker'[v] = IF v = w THEN u ELSE worker[v]
      BY DEF OrderInv, IInv, TypeOK
<1>2. \A v \in Workers : \/ worker'[v].phase # "committing"
                         \/ worker'[v].stream \in Streams /\ PageWhole(worker'[v], table)
      BY <1>1, PagesAreInOrder
<1>3. \A s \in Streams : table[s] \subseteq table'[s] /\ Whole(s, table'[s])
      BY DEF OrderInv, TablesWhole
<1>4. \/ loader'.step = "off"
      \/ SPP \in Streams /\ Whole(SPP, table'[SPP] \cup loader'.left)
      BY DEF OrderInv, LoaderWhole, IInv, LoaderKeeps
<1> QED  BY <1>2, <1>3, <1>4, StoringKeepsOrder

(* A page arrives.                                                           *)
LEMMA FetchKeepsOrder ==
    ASSUME QuietDump, OrderInv, NEW w \in Workers, NEW s \in Streams, Fetch(w, s)
    PROVE  TablesWhole' /\ PagesWhole' /\ LoaderWhole'
<1>1. PICK page \in FetchPage(s, worker[w].read) :
         worker' = [worker EXCEPT ![w].phase = "committing", ![w].read = NoCursor,
                                  ![w].page = page]
      BY DEF Fetch
<1> DEFINE u == [worker[w] EXCEPT !.phase = "committing", !.read = NoCursor,
                                  !.page = page]
           from == worker[w].read.from
<1>2. /\ worker[w] \in WorkerStates /\ worker[w].read \in Cursors
      /\ worker[w].stream = s /\ worker[w].phase = "fetching" /\ TypeOK
      BY DEF OrderInv, IInv, TypeOK, WorkerStates, Fetch
<1>3. u.phase = "committing" /\ u.stream = s /\ u.page = page
      BY <1>2 DEF WorkerStates
<1>4. /\ Holds(s, from, table[s]) /\ Whole(s, table[s]) /\ page.events \subseteq chain[s]
      BY <1>2, PagesAreWhole DEF OrderInv, IInv, ReadsKeep, TablesWhole
<1>5. \A e \in page.events : \A f \in chain[s] : from <= f /\ f < e => f \in page.events
      BY <1>2, PagesLeaveNothingOut
<1>6. from \in Nat /\ chain[s] \subseteq Nat
      BY <1>2, ChainOfNumbers DEF Cursors
<1>7. Whole(s, table[s] \cup page.events)
      <2> SUFFICES ASSUME NEW e \in table[s] \cup page.events, NEW f \in chain[s],
                          Start0 <= f, f < e
                   PROVE  f \in table[s] \cup page.events
          BY DEF Whole
      <2>1. CASE e \in table[s]
            BY <1>4, <2>1 DEF Whole
      <2>2. CASE e \in page.events /\ from <= f
            BY <1>5, <2>2
      <2>3. CASE f < from
            BY <1>4, <2>3 DEF Holds, Between
      <2> QED  BY <1>6, <2>1, <2>2, <2>3
<1>8. worker' = [worker EXCEPT ![w] = u]
      BY <1>1 DEF OrderInv, IInv, TypeOK
<1>9. PageWhole(u, table)
      BY <1>3, <1>7 DEF PageWhole
<1> HIDE DEF u
<1> QED  BY <1>3, <1>8, <1>9, MemoryStepKeepsOrder DEF Fetch

(* A poll that begins is about to fetch, and holds no page yet.              *)
LEMMA PollFetches ==
    ASSUME OrderInv, NEW w \in Workers, NEW s \in Streams, BeginPoll(w, s)
    PROVE  \E u \in WorkerStates : u.phase = "fetching" /\ worker' = [worker EXCEPT ![w] = u]
<1> DEFINE u == [worker[w] EXCEPT !.phase = "fetching", !.stream = s, !.due = @ \ {s},
                                  !.read = cursors[s]]
<1>1. worker[w] \in WorkerStates /\ cursors[s] \in Cursors
      BY DEF OrderInv, IInv, TypeOK
<1>2. u \in WorkerStates /\ u.phase = "fetching"
      BY <1>1 DEF WorkerStates, Phases
<1>3. worker' = [worker EXCEPT ![w] = u]
      BY DEF OrderInv, IInv, TypeOK, BeginPoll
<1> HIDE DEF u
<1> QED  BY <1>2, <1>3

(* The other steps of a worker that store nothing.                           *)
LEMMA QuietStepKeepsOrder ==
    ASSUME OrderInv, NEW w \in Workers,
           \/ Start(w) \/ BeginTick(w) \/ EndTick(w) \/ Shutdown(w) \/ Crash(w)
           \/ PollFails(w)
           \/ \E s \in Streams : Wake(w, s) \/ BeginPoll(w, s)
    PROVE  TablesWhole' /\ PagesWhole' /\ LoaderWhole'
<1> DEFINE u == worker'[w]
<1>1. worker[w] \in WorkerStates /\ PageWhole(worker[w], table)
      /\ (worker[w].phase = "committing" => worker[w].stream \in Streams)
      /\ Fresh.phase = "idle" /\ Off.phase = "off"
      BY PagesAreInOrder DEF Fresh, Off
<1>2. UNCHANGED <<chain, table, loader>>
      BY DEF Start, BeginTick, EndTick, Shutdown, Crash, PollFails, Wake, BeginPoll
<1>3. /\ worker' = [worker EXCEPT ![w] = u]
      /\ \/ u.phase # "committing"
         \/ /\ u.phase = worker[w].phase /\ u.stream = worker[w].stream
            /\ u.page = worker[w].page
      <2>1. worker \in [Workers -> WorkerStates]
            BY DEF OrderInv, IInv, TypeOK
      <2>2. CASE Start(w) \/ Crash(w)
            BY <2>1, <2>2, <1>1 DEF Start, Crash
      <2>3. CASE BeginTick(w)
            BY <2>1, <2>3 DEF BeginTick, WorkerStates
      <2>4. CASE EndTick(w)
            BY <2>1, <2>4, <1>1 DEF EndTick, Fresh
      <2>5. CASE Shutdown(w)
            BY <2>1, <2>5, <1>1 DEF Shutdown, WorkerStates
      <2>6. CASE PollFails(w)
            BY <2>1, <2>6 DEF PollFails, PollDone, WorkerStates
      <2>7. CASE \E s \in Streams : Wake(w, s)
            BY <2>1, <2>7 DEF Wake, WorkerStates
      <2>8. CASE \E s \in Streams : BeginPoll(w, s)
        <3>1. PICK v \in WorkerStates : v.phase = "fetching" /\ worker' = [worker EXCEPT ![w] = v]
              BY <2>8, PollFetches
        <3>2. u = v
              BY <2>1, <3>1
        <3> QED  BY <3>1, <3>2
      <2> QED  BY <2>2, <2>3, <2>4, <2>5, <2>6, <2>7, <2>8
<1>4. u.phase # "committing" \/ (u.stream \in Streams /\ PageWhole(u, table))
      BY <1>1, <1>3 DEF PageWhole
<1> HIDE DEF u
<1> QED  BY <1>2, <1>3, <1>4, MemoryStepKeepsOrder

(* A transaction stores a page that leaves nothing out.                      *)
LEMMA CommitKeepsOrder ==
    ASSUME OrderInv, NEW w \in Workers, NEW s \in Streams, Commit(w, s)
    PROVE  TablesWhole' /\ PagesWhole' /\ LoaderWhole'
<1> DEFINE events == worker[w].page.events
<1>1. /\ worker[w] \in WorkerStates /\ s = worker[w].stream /\ worker[w].phase = "committing"
      /\ Whole(s, table[s] \cup events)
      BY PagesAreInOrder DEF Commit, PageWhole
<1>2. \A r \in Streams : table'[r] = IF r = s THEN table[r] \cup events ELSE table[r]
      BY DEF OrderInv, IInv, TypeOK, Commit
<1>3. \A v \in Workers : v # w => worker'[v] = worker[v]
      BY DEF OrderInv, IInv, TypeOK, Commit, PollDone
<1>4. worker'[w].phase = "polling"
      BY <1>1 DEF OrderInv, IInv, TypeOK, Commit, PollDone, WorkerStates
<1>5. \A r \in Streams : table[r] \subseteq table'[r] /\ Whole(r, table'[r])
      <2> HIDE DEF events
      <2> QED  BY <1>1, <1>2 DEF OrderInv, TablesWhole
<1>6. \A v \in Workers : \/ worker'[v].phase # "committing"
                         \/ worker'[v].stream \in Streams /\ PageWhole(worker'[v], table)
      BY <1>3, <1>4, PagesAreInOrder
<1>7. \/ loader'.step = "off"
      \/ SPP \in Streams /\ Whole(SPP, table'[SPP] \cup loader'.left)
      <2>1. \/ loader'.step = "off"
            \/ SPP \in Streams /\ Whole(SPP, table[SPP] \cup loader'.left)
            BY DEF OrderInv, LoaderWhole, IInv, LoaderKeeps, Commit
      <2> QED  BY <1>5, <2>1, WholeWithMore
<1>8. UNCHANGED chain
      BY DEF Commit
<1> QED  BY <1>5, <1>6, <1>7, <1>8, StoringKeepsOrder

(* The backfill script loads its fixture from the first event on.            *)
LEMMA LoaderKeepsOrder ==
    ASSUME QuietDump, OrderInv,
           LoaderStart \/ LoaderChunk \/ LoaderRead \/ LoaderWrite \/ LoaderDies
    PROVE  TablesWhole' /\ PagesWhole' /\ LoaderWhole'
<1>1. UNCHANGED <<chain, worker>>
      BY DEF LoaderStart, LoaderChunk, LoaderRead, LoaderWrite, LoaderDies
<1>2. \A v \in Workers : \/ worker'[v].phase # "committing"
                         \/ worker'[v].stream \in Streams /\ PageWhole(worker'[v], table)
      BY <1>1, PagesAreInOrder
<1>3. SPP \in Streams /\ loader \in LoaderStates
      BY BackfillsAssumption
         DEF OrderInv, IInv, TypeOK, LoaderKeeps, LoaderStart, LoaderChunk, LoaderRead,
             LoaderWrite, LoaderDies, Streams, SPP
<1>4. chain[SPP] \subseteq Nat /\ table[SPP] \subseteq chain[SPP] /\ Whole(SPP, table[SPP])
      BY <1>3, ChainOfNumbers DEF OrderInv, TablesWhole, IInv, TypeOK
<1>5. CASE LoaderStart
      <2>1. PICK l \in 1 .. tip :
               \E missed \in SUBSET Between(SPP, FirstOf(l + 1 - DumpSpan), FirstOf(l + 1)) :
                  loader' = Fixture(l, missed)
            BY <1>5 DEF LoaderStart
      <2>2. PICK missed \in SUBSET Between(SPP, FirstOf(l + 1 - DumpSpan), FirstOf(l + 1)) :
               loader' = Fixture(l, missed)
            BY <2>1
      <2>3. l \in Nat
            BY <2>1, BoundsAssumption DEF OrderInv, IInv, TypeOK
      <2>4. loader'.left = Between(SPP, 0, FirstOf(l + 1))
            <3>1. missed = {}
                  BY <1>4, <1>5, <2>2, <2>3, QuietlyDumped DEF LoaderStart
            <3> QED  BY <2>2, <3>1 DEF Fixture
      <2>5. FirstOf(l + 1) \in Nat
            BY <2>3, PositionTypes
      <2>6. Whole(SPP, loader'.left)
            <3> SUFFICES ASSUME NEW e \in loader'.left, NEW f \in chain[SPP], f < e
                         PROVE  f \in loader'.left
                BY DEF Whole
            <3>1. e \in Nat /\ f \in Nat /\ e < FirstOf(l + 1)
                  BY <1>4, <2>4 DEF Between
            <3>2. 0 <= f /\ f < FirstOf(l + 1)
                  BY <2>5, <3>1
            <3> QED  BY <2>4, <3>2 DEF Between
      <2>7. Whole(SPP, table'[SPP] \cup loader'.left)
            BY <1>4, <1>5, <2>6, WholeTogether DEF LoaderStart
      <2>8. \A s \in Streams : table[s] \subseteq table'[s] /\ Whole(s, table'[s])
            BY <1>5 DEF OrderInv, TablesWhole, LoaderStart
      <2> QED  BY <1>1, <1>2, <1>3, <2>7, <2>8, StoringKeepsOrder
<1>6. CASE LoaderChunk
      <2>1. PICK last \in loader.left :
               /\ table' = [table EXCEPT ![SPP] = @ \cup {x \in loader.left : x <= last}]
               /\ loader' = [loader EXCEPT !.left = @ \ {x \in loader.left : x <= last}]
            BY <1>6 DEF LoaderChunk
      <2> DEFINE chunk == {x \in loader.left : x <= last}
      <2>2. /\ \A s \in Streams : table'[s] = IF s = SPP THEN table[s] \cup chunk ELSE table[s]
            /\ loader'.left = loader.left \ chunk
            BY <1>3, <2>1 DEF OrderInv, IInv, TypeOK, LoaderStates
      <2>3. /\ loader.left \subseteq chain[SPP]
            /\ Whole(SPP, table[SPP] \cup loader.left)
            BY <1>6 DEF OrderInv, LoaderWhole, IInv, LoaderKeeps, LoaderChunk
      <2>4. Whole(SPP, table[SPP] \cup chunk)
            <3> SUFFICES ASSUME NEW e \in table[SPP] \cup chunk, NEW f \in chain[SPP],
                                Start0 <= f, f < e
                         PROVE  f \in table[SPP] \cup chunk
                BY DEF Whole
            <3>1. CASE e \in table[SPP]
                  BY <1>4, <3>1 DEF Whole
            <3>2. CASE e \in chunk
                  <4>1. f \in table[SPP] \cup loader.left
                        BY <2>3, <3>2 DEF Whole
                  <4>2. e \in Nat /\ f \in Nat /\ last \in Nat /\ e <= last
                        BY <1>4, <2>3, <3>2
                  <4>3. f <= last
                        BY <4>2
                  <4> QED  BY <4>1, <4>3
            <3> QED  BY <3>1, <3>2
      <2>5. \A s \in Streams : table[s] \subseteq table'[s] /\ Whole(s, table'[s])
            <3> HIDE DEF chunk
            <3> QED  BY <2>2, <2>4 DEF OrderInv, TablesWhole
      <2>6. Whole(SPP, table'[SPP] \cup loader'.left)
            <3>1. table'[SPP] \cup loader'.left = table[SPP] \cup loader.left
                  BY <1>3, <2>2
            <3> QED  BY <2>3, <3>1
      <2> QED  BY <1>1, <1>2, <1>3, <2>5, <2>6, StoringKeepsOrder
<1>7. CASE LoaderRead \/ LoaderWrite \/ LoaderDies
      <2>1. loader'.step = "off" \/ (loader'.left = loader.left /\ loader.step # "off")
            BY <1>3, <1>7 DEF LoaderRead, LoaderWrite, LoaderDies, Unloaded, LoaderStates
      <2>2. \/ loader'.step = "off"
            \/ SPP \in Streams /\ Whole(SPP, table'[SPP] \cup loader'.left)
            BY <1>3, <1>7, <2>1 DEF OrderInv, LoaderWhole, LoaderRead, LoaderWrite, LoaderDies
      <2>3. \A s \in Streams : table[s] \subseteq table'[s] /\ Whole(s, table'[s])
            BY <1>7 DEF OrderInv, TablesWhole, LoaderRead, LoaderWrite, LoaderDies
      <2> QED  BY <1>1, <1>2, <2>2, <2>3, StoringKeepsOrder
<1> QED  BY <1>5, <1>6, <1>7

(* Every step keeps the order.                                               *)
LEMMA StepKeepsOrder ==
    ASSUME QuietDump PROVE OrderInv /\ [Next]_vars => OrderInv'
<1> SUFFICES ASSUME OrderInv, [Next]_vars
             PROVE  OrderInv'
    OBVIOUS
<1>1. IInv'
      BY StepKeeps DEF OrderInv
<1>2. CASE UNCHANGED vars
      BY <1>1, <1>2 DEF vars, OrderInv, TablesWhole, PagesWhole, LoaderWhole, Whole, Start0
<1>3. CASE CloseLedger
      BY <1>1, <1>3, ClosingKeepsOrder DEF OrderInv
<1>4. ASSUME NEW w \in Workers,
             \/ Start(w) \/ BeginTick(w) \/ EndTick(w) \/ Shutdown(w) \/ Crash(w)
             \/ PollFails(w)
             \/ \E s \in Streams : Wake(w, s) \/ BeginPoll(w, s)
      PROVE  OrderInv'
      BY <1>1, <1>4, QuietStepKeepsOrder DEF OrderInv
<1>5. ASSUME NEW w \in Workers, NEW s \in Streams, Fetch(w, s) \/ Commit(w, s)
      PROVE  OrderInv'
      BY <1>1, <1>5, FetchKeepsOrder, CommitKeepsOrder DEF OrderInv
<1>6. CASE LoaderStart \/ LoaderChunk \/ LoaderRead \/ LoaderWrite \/ LoaderDies
      BY <1>1, <1>6, LoaderKeepsOrder DEF OrderInv
<1> QED  BY <1>2, <1>3, <1>4, <1>5, <1>6 DEF Next

(* Empty tables are in order.                                                *)
LEMMA InitInOrder == Init => OrderInv
<1> SUFFICES ASSUME Init
             PROVE  OrderInv
    OBVIOUS
<1>1. IInv
      BY InitKeeps
<1>2. TablesWhole
      BY DEF Init, TablesWhole, Whole
<1>3. PagesWhole
      BY DEF Init, PagesWhole, Off, Fresh
<1>4. LoaderWhole
      BY DEF Init, LoaderWhole, Unloaded
<1> QED  BY <1>1, <1>2, <1>3, <1>4 DEF OrderInv

(* The tables are filled in the order of the chain, whatever overlaps, if a  *)
(* fixture was dumped while no event came.                                   *)
THEOREM TablesFillInOrder ==
    ASSUME QuietDump PROVE Spec => []TablesWhole
<1>1. OrderInv => TablesWhole
      BY DEF OrderInv
<1> QED  BY <1>1, InitInOrder, StepKeepsOrder, PTL DEF Spec

----------------------------------------------------------------------------
(***************************************************************************)
(* The abstract archive.  A ledger that closes extends the chain; whatever *)
(* else happens stores the next events, or none.                           *)
(***************************************************************************)

(* No step takes an event from a table.                                      *)
LEMMA TablesGrow ==
    ASSUME IInv, [Next]_vars
    PROVE  \/ CloseLedger
           \/ UNCHANGED chain /\ \A s \in Streams : table[s] \subseteq table'[s]
<1>1. CASE UNCHANGED vars
      BY <1>1 DEF vars
<1>2. ASSUME NEW w \in Workers,
             \/ Start(w) \/ BeginTick(w) \/ EndTick(w) \/ Shutdown(w) \/ Crash(w)
             \/ PollFails(w)
             \/ \E s \in Streams : Wake(w, s) \/ BeginPoll(w, s) \/ Fetch(w, s)
      PROVE  UNCHANGED <<chain, table>>
      BY <1>2 DEF Start, BeginTick, EndTick, Shutdown, Crash, PollFails, Wake, BeginPoll, Fetch
<1>3. ASSUME NEW w \in Workers, NEW s \in Streams, Commit(w, s)
      PROVE  UNCHANGED chain /\ \A r \in Streams : table[r] \subseteq table'[r]
      BY <1>3 DEF Commit, IInv, TypeOK
<1>4. CASE LoaderChunk
      BY <1>4 DEF LoaderChunk, IInv, TypeOK
<1>5. CASE LoaderStart \/ LoaderRead \/ LoaderWrite \/ LoaderDies
      BY <1>5 DEF LoaderStart, LoaderRead, LoaderWrite, LoaderDies
<1> QED  BY <1>1, <1>2, <1>3, <1>4, <1>5 DEF Next

(* A step of the indexer is a step of the archive of each stream.            *)
LEMMA StreamSteps ==
    ASSUME OrderInv, OrderInv', [Next]_vars, NEW s \in Streams
    PROVE  \/ /\ From(chain[s]) \subseteq From(chain'[s])
              /\ \A f \in From(chain'[s]) \ From(chain[s]) : \A e \in From(chain[s]) : e < f
              /\ From(table'[s]) = From(table[s])
           \/ /\ From(table[s]) \subseteq From(table'[s])
              /\ From(table'[s]) \subseteq From(chain[s])
              /\ \A e \in From(table'[s]) : \A f \in From(chain[s]) :
                   f < e => f \in From(table'[s])
              /\ From(chain'[s]) = From(chain[s])
<1>1. CASE CloseLedger
      <2>1. /\ chain[s] \subseteq chain'[s]
            /\ \A f \in chain'[s] \ chain[s] : f \in Nat /\ \A e \in chain[s] : e < f
            BY <1>1, ClosingAddsLater DEF OrderInv
      <2>2. table' = table
            BY <1>1 DEF CloseLedger
      <2> QED  BY <2>1, <2>2 DEF From
<1>2. CASE UNCHANGED chain /\ \A r \in Streams : table[r] \subseteq table'[r]
      <2>1. table'[s] \subseteq chain[s] /\ chain[s] \subseteq Nat
            BY <1>2, ChainOfNumbers DEF OrderInv, IInv, TypeOK
      <2>2. \A e \in table'[s] : \A f \in chain[s] : Start0 <= f /\ f < e => f \in table'[s]
            BY <1>2 DEF OrderInv, TablesWhole, Whole, Start0
      <2>3. FirstOf(StartLedger) \in Nat
            BY StartLedgerAssumption, PositionTypes
      <2>4. \A e \in From(table'[s]) : \A f \in From(chain[s]) :
               f < e => f \in From(table'[s])
            BY <2>1, <2>2, <2>3 DEF From, Start0
      <2> QED  BY <1>2, <2>1, <2>4 DEF From
<1> QED  BY <1>1, <1>2, TablesGrow DEF OrderInv

(* The indexer, all of it, is the archive that the wallet's sync relies on,  *)
(* if a fixture was dumped while no event came.                              *)
THEOREM IndexerImplementsArchive ==
    ASSUME SPP \in Streams, QuietDump PROVE Spec => ImplementsArchive
<1>1. Init => ShieldedArchive!Init
      BY DEF Init, ShieldedArchive!Init, From
<1>2. OrderInv /\ OrderInv' /\ [Next]_vars
        => [ShieldedArchive!Extend \/ ShieldedArchive!Store]_(ShieldedArchive!archiveVars)
      <2> SUFFICES ASSUME OrderInv, OrderInv', [Next]_vars
                   PROVE  ShieldedArchive!Extend \/ ShieldedArchive!Store
          OBVIOUS
      <2> QED  BY StreamSteps
               DEF ShieldedArchive!Extend, ShieldedArchive!Store, ShieldedArchive!Unbroken
<1> QED  BY <1>1, <1>2, InitInOrder, StepKeepsOrder, PTL
         DEF Spec, ImplementsArchive, ShieldedArchive!Spec

----------------------------------------------------------------------------
(***************************************************************************)
(* One worker, and no backfill script beside it.  The stream's cursor then *)
(* only moves when the worker that read it commits: what it read is still  *)
(* there, its page begins there, and nothing past it is in the table.  So  *)
(* no event is committed twice, and no cursor goes back.                   *)
(***************************************************************************)

OneWorker(w) == Workers = {w} /\ ~Backfills

\* A page of the stream that begins at the cursor.
Follows(s, cursor, page) ==
    /\ cursor.from <= page.next.from
    /\ \A e \in page.events : cursor.from <= e /\ e < page.next.from
    /\ s = SPP /\ cursor.mode = "rpc" => page.next.mode = "rpc"

OneKeeps(u, cs) ==
    /\ u.phase = "fetching" => u.read = cs[u.stream]
    /\ u.phase = "committing" => Follows(u.stream, cs[u.stream], u.page)

\* No event past a stream's cursor is in the table.
TableBehind(tb, cs) == \A s \in Streams : \A e \in tb[s] : e < cs[s].from

OneInv(w) ==
    /\ IInv
    /\ OneKeeps(worker[w], cursors)
    /\ TableBehind(table, cursors)
    /\ loader.step = "off"
    /\ CT \in Streams => ActivityOnce

\* A position is not past the end of its ledger.
LEMMA NotPastItsLedger ==
    ASSUME NEW pos \in Nat
    PROVE  pos <= EndOf(LedgerOf(pos))
<1>1. LedgerOf(pos) \in Nat /\ pos < FirstOf(LedgerOf(pos) + 1)
      BY WidthAssumption, SMTT(60) DEF LedgerOf, FirstOf
<1>2. EndOf(LedgerOf(pos)) = FirstOf(LedgerOf(pos) + 1) - 1 /\ FirstOf(LedgerOf(pos) + 1) \in Nat
      BY <1>1, PositionTypes
<1> QED  BY <1>1, <1>2

(* Every page of a source follows the cursor it was asked with.               *)
LEMMA PagesFollow ==
    ASSUME IInv, NEW s \in Streams, NEW cursor \in Cursors, NEW page \in FetchPage(s, cursor)
    PROVE  Follows(s, cursor, page)
<1> DEFINE from == cursor.from
<1>1. /\ tip \in Nat /\ from \in Nat /\ chain[s] \subseteq Nat
      <2>1. tip \in Nat /\ chain[s] \subseteq Positions
            BY BoundsAssumption DEF IInv, TypeOK
      <2> QED  BY <2>1, PositionsAreNatural DEF Cursors
<1>2. FirstOf(tip + 1) \in Nat /\ EndOf(tip) = FirstOf(tip + 1) - 1
      BY <1>1, PositionTypes
<1>3. ASSUME NEW mode \in {"plain", "rpc"}, page \in RpcPages(s, from, mode)
      PROVE  /\ from <= page.next.from /\ page.next.mode = mode
             /\ \A e \in page.events : from <= e /\ e < page.next.from
      <2>1. PICK end \in PageEnds(s, from) : \E next \in NextTokens(end) :
                    page = Page(Between(s, from, end), Cursor(mode, next))
            BY <1>3 DEF RpcPages
      <2>2. PICK next \in NextTokens(end) :
                    page = Page(Between(s, from, end), Cursor(mode, next))
            BY <2>1
      <2>3. end \in Nat /\ from <= end
            <3>1. CASE \E e \in Between(s, from, FirstOf(tip + 1)) : end = e + 1
                  BY <3>1, <1>1 DEF Between
            <3>2. CASE \E l \in LedgerOf(from) .. tip : end = EndOf(l)
                  <4>1. PICK l \in LedgerOf(from) .. tip : end = EndOf(l)
                        BY <3>2
                  <4>2. LedgerOf(from) \in Nat /\ l \in Nat /\ LedgerOf(from) <= l
                        BY <1>1, <4>1, LedgerOfType
                  <4>3. /\ from <= EndOf(LedgerOf(from)) /\ end \in Nat
                        /\ EndOf(LedgerOf(from)) \in Nat
                        BY <1>1, <4>1, <4>2, NotPastItsLedger, PositionTypes
                  <4>4. EndOf(LedgerOf(from)) <= EndOf(l)
                        <5> DEFINE a == LedgerOf(from) + 1
                                   b == l + 1
                        <5>1. a \in Nat /\ b \in Nat /\ a <= b
                              BY <4>2
                        <5>2. FirstOf(a) <= FirstOf(b) /\ FirstOf(a) \in Nat /\ FirstOf(b) \in Nat
                              <6> HIDE DEF a, b
                              <6> QED  BY <5>1, FirstMonotone, PositionTypes
                        <5>3. /\ EndOf(LedgerOf(from)) = FirstOf(a) - 1
                              /\ EndOf(l) = FirstOf(b) - 1
                              BY <4>2, PositionTypes
                        <5> HIDE DEF a, b
                        <5> QED  BY <5>2, <5>3
                  <4> QED  BY <1>1, <4>1, <4>3, <4>4
            <3> QED  BY <2>1, <3>1, <3>2 DEF PageEnds
      <2>4. next \in Nat /\ end <= next
            BY <1>2, <2>2, <2>3 DEF NextTokens
      <2>5. page.events = Between(s, from, end) /\ page.next.from = next /\ page.next.mode = mode
            BY <2>2 DEF Page, Cursor
      <2>6. ASSUME NEW e \in page.events
            PROVE  from <= e /\ e < page.next.from
            <3>1. e \in Nat /\ from <= e /\ e < end
                  BY <1>1, <2>5 DEF Between
            <3> QED  BY <2>3, <2>4, <2>5, <3>1
      <2> QED  BY <1>1, <2>3, <2>4, <2>5, <2>6
<1>4. ASSUME page \in BootnodePages(s, from)
      PROVE  /\ from <= page.next.from
             /\ \A e \in page.events : from <= e /\ e < page.next.from
      <2>1. CASE \E e \in Between(s, from, FirstOf(tip + 1)) :
                   page = Page(Between(s, from, e + 1), Cursor("plain", e + 1))
            <3>1. PICK e \in Between(s, from, FirstOf(tip + 1)) :
                    page = Page(Between(s, from, e + 1), Cursor("plain", e + 1))
                  BY <2>1
            <3>2. /\ page.events = Between(s, from, e + 1) /\ page.next.from = e + 1
                  /\ e \in Nat /\ from <= e
                  BY <1>1, <3>1 DEF Page, Cursor, Between
            <3> QED  BY <1>1, <3>2 DEF Between
      <2>2. CASE \E l \in LedgerOf(from) .. tip + 1 :
                   from <= FirstOf(l) /\ page = Page({}, Cursor("handoff", FirstOf(l)))
            BY <2>2 DEF Page, Cursor
      <2>3. CASE \E l \in LedgerOf(from) .. tip :
                   page = Page(Between(s, from, FirstOf(l + 1)), Cursor("plain", FirstOf(l + 1)))
            <3>1. PICK l \in LedgerOf(from) .. tip :
                   page = Page(Between(s, from, FirstOf(l + 1)), Cursor("plain", FirstOf(l + 1)))
                  BY <2>3
            <3>2. /\ LedgerOf(from) \in Nat /\ l \in Nat /\ LedgerOf(from) + 1 <= l + 1
                  BY <1>1, <3>1, LedgerOfType
            <3>3. /\ FirstOf(LedgerOf(from) + 1) <= FirstOf(l + 1)
                  /\ FirstOf(LedgerOf(from) + 1) \in Nat /\ FirstOf(l + 1) \in Nat
                  BY <3>2, FirstMonotone, PositionTypes
            <3>4. from <= EndOf(LedgerOf(from)) /\ EndOf(LedgerOf(from)) = FirstOf(LedgerOf(from) + 1) - 1
                  BY <1>1, <3>2, NotPastItsLedger, PositionTypes
            <3>5. from <= FirstOf(l + 1)
                  BY <1>1, <3>3, <3>4
            <3>6. /\ page.events = Between(s, from, FirstOf(l + 1))
                  /\ page.next.from = FirstOf(l + 1)
                  BY <3>1 DEF Page, Cursor
            <3> QED  BY <3>5, <3>6 DEF Between
      <2> QED  BY <1>4, <2>1, <2>2, <2>3 DEF BootnodePages
<1>5. CASE s = CT
      <2>1. page \in RpcPages(s, from, "plain")
            BY <1>5 DEF FetchPage, CT, SPP
      <2> QED  BY <1>3, <1>5, <2>1 DEF Follows, CT, SPP
<1>6. CASE s = SPP /\ cursor.mode \in {"rpc", "handoff"}
      <2>1. page \in RpcPages(s, from, "rpc")
            BY <1>6 DEF FetchPage, CT, SPP
      <2> QED  BY <1>3, <1>6, <2>1 DEF Follows
<1>7. CASE s # CT /\ ~ (s = SPP /\ cursor.mode \in {"rpc", "handoff"})
      <2>1. page \in BootnodePages(s, from)
            BY <1>7 DEF FetchPage
      <2> QED  BY <1>4, <1>7, <2>1 DEF Follows
<1> QED  BY <1>5, <1>6, <1>7

(* A step that only changes what the worker has in memory.                    *)
LEMMA OneMemoryStep ==
    ASSUME NEW w, OneWorker(w), OneInv(w), IInv', NEW u, OneKeeps(u, cursors),
           worker' = [worker EXCEPT ![w] = u],
           UNCHANGED <<tip, chain, table, activity, cursors, loader>>
    PROVE  OneInv(w)'
<1>1. worker'[w] = u
      BY DEF OneWorker, OneInv, IInv, TypeOK
<1>2. OneKeeps(worker'[w], cursors')
      BY <1>1
<1>3. ActivityOnce => ActivityOnce'
      BY DEF ActivityOnce, Normalised
<1> QED  BY <1>2, <1>3 DEF OneInv

(* What only schedules the worker's polls keeps what it read.                 *)
LEMMA OneScheduling ==
    ASSUME NEW w, OneWorker(w), OneInv(w), IInv',
           \/ Start(w) \/ BeginTick(w) \/ EndTick(w) \/ Shutdown(w) \/ Crash(w) \/ PollFails(w)
           \/ \E s \in Streams : Wake(w, s)
    PROVE  OneInv(w)'
<1>1. /\ worker[w] \in WorkerStates /\ OneKeeps(worker[w], cursors)
      /\ worker \in [Workers -> WorkerStates] /\ w \in Workers
      BY DEF OneWorker, OneInv, IInv, TypeOK
<1>2. /\ UNCHANGED <<tip, chain, table, activity, cursors, loader>>
      BY DEF Start, BeginTick, EndTick, Shutdown, Crash, PollFails, Wake
<1>3. ASSUME NEW u, u.phase \notin {"fetching", "committing"}
      PROVE  OneKeeps(u, cursors)
      BY <1>3 DEF OneKeeps
<1>4. Fresh.phase = "idle" /\ Off.phase = "off"
      BY DEF Fresh, Off
<1>5. \E u : OneKeeps(u, cursors) /\ worker' = [worker EXCEPT ![w] = u]
      <2>1. CASE Start(w)
            BY <1>3, <1>4, <2>1 DEF Start
      <2>2. CASE BeginTick(w)
            <3> DEFINE u == [worker[w] EXCEPT !.phase = "polling",
                                              !.due = Streams \ worker[w].resting]
            <3>1. u.phase = "polling"
                  BY <1>1 DEF WorkerStates
            <3>2. worker' = [worker EXCEPT ![w] = u]
                  BY <1>1, <2>2 DEF BeginTick
            <3> HIDE DEF u
            <3> QED  BY <1>3, <3>1, <3>2
      <2>3. CASE EndTick(w)
            <3> DEFINE u == [Fresh EXCEPT !.resting = worker[w].resting]
            <3>1. u.phase = "idle"
                  BY DEF Fresh
            <3>2. worker' = [worker EXCEPT ![w] = Off] \/ worker' = [worker EXCEPT ![w] = u]
                  BY <2>3 DEF EndTick
            <3> HIDE DEF u
            <3> QED  BY <1>3, <1>4, <3>1, <3>2
      <2>4. CASE Shutdown(w)
            <3> DEFINE u == [worker[w] EXCEPT !.stopping = TRUE]
            <3>1. OneKeeps(u, cursors)
                  BY <1>1 DEF OneKeeps, WorkerStates
            <3>2. worker' = [worker EXCEPT ![w] = Off] \/ worker' = [worker EXCEPT ![w] = u]
                  BY <2>4 DEF Shutdown
            <3> HIDE DEF u
            <3> QED  BY <1>3, <1>4, <3>1, <3>2
      <2>5. CASE Crash(w)
            BY <1>3, <1>4, <2>5 DEF Crash
      <2>6. CASE PollFails(w)
            <3> DEFINE u == [worker[w] EXCEPT !.phase = "polling", !.stream = "none",
                               !.resting = @ \cup {worker[w].stream},
                               !.read = NoCursor, !.page = NoPage]
            <3>1. u.phase = "polling"
                  BY <1>1 DEF WorkerStates
            <3>2. worker' = [worker EXCEPT ![w] = u]
                  BY <1>1, <2>6 DEF PollFails, PollDone
            <3> HIDE DEF u
            <3> QED  BY <1>3, <3>1, <3>2
      <2>7. ASSUME NEW s \in Streams, Wake(w, s)
            PROVE  \E u : OneKeeps(u, cursors) /\ worker' = [worker EXCEPT ![w] = u]
            <3> DEFINE u == [worker[w] EXCEPT !.resting = @ \ {s}]
            <3>1. OneKeeps(u, cursors)
                  BY <1>1 DEF OneKeeps, WorkerStates
            <3>2. worker' = [worker EXCEPT ![w] = u]
                  BY <1>1, <2>7 DEF Wake
            <3> HIDE DEF u
            <3> QED  BY <3>1, <3>2
      <2> QED  BY <2>1, <2>2, <2>3, <2>4, <2>5, <2>6, <2>7
<1> QED  BY <1>2, <1>5, OneMemoryStep

(* A poll reads the cursor that is there, and a page that begins at it.       *)
LEMMA OnePoll ==
    ASSUME NEW w, OneWorker(w), OneInv(w), IInv', NEW s \in Streams,
           BeginPoll(w, s) \/ Fetch(w, s)
    PROVE  OneInv(w)'
<1>1. /\ worker[w] \in WorkerStates /\ OneKeeps(worker[w], cursors)
      /\ worker \in [Workers -> WorkerStates] /\ w \in Workers /\ IInv
      BY DEF OneWorker, OneInv, IInv, TypeOK
<1>2. /\ UNCHANGED <<tip, chain, table, activity, cursors, loader>>
      BY DEF BeginPoll, Fetch
<1>3. CASE BeginPoll(w, s)
      <2> DEFINE u == [worker[w] EXCEPT !.phase = "fetching", !.stream = s,
                                        !.due = @ \ {s}, !.read = cursors[s]]
      <2>1. u.phase = "fetching" /\ u.stream = s /\ u.read = cursors[s]
            BY <1>1 DEF WorkerStates
      <2>2. worker' = [worker EXCEPT ![w] = u]
            BY <1>1, <1>3 DEF BeginPoll
      <2> HIDE DEF u
      <2> QED  BY <1>2, <2>1, <2>2, OneMemoryStep DEF OneKeeps
<1>4. CASE Fetch(w, s)
      <2>1. PICK page \in FetchPage(s, worker[w].read) :
               worker' = [worker EXCEPT ![w].phase = "committing", ![w].read = NoCursor,
                                        ![w].page = page]
            BY <1>4 DEF Fetch
      <2>2. s = worker[w].stream /\ worker[w].read = cursors[s] /\ worker[w].read \in Cursors
            BY <1>1, <1>4 DEF Fetch, OneKeeps, WorkerStates
      <2>3. Follows(s, cursors[s], page)
            BY <1>1, <2>1, <2>2, PagesFollow
      <2> DEFINE u == [worker[w] EXCEPT !.phase = "committing", !.read = NoCursor, !.page = page]
      <2>4. u.phase = "committing" /\ u.stream = s /\ u.page = page
            BY <1>1, <2>2 DEF WorkerStates
      <2>5. worker' = [worker EXCEPT ![w] = u]
            BY <1>1, <2>1
      <2> HIDE DEF u
      <2> QED  BY <1>2, <2>3, <2>4, <2>5, OneMemoryStep DEF OneKeeps
<1> QED  BY <1>3, <1>4

(* The one transaction: events that were not in the table, once each, and a   *)
(* cursor past them.                                                          *)
LEMMA OneCommit ==
    ASSUME NEW w, OneWorker(w), OneInv(w), IInv', NEW s \in Streams, Commit(w, s)
    PROVE  OneInv(w)'
<1> DEFINE page == worker[w].page
<1>1. /\ worker[w] \in WorkerStates /\ OneKeeps(worker[w], cursors)
      /\ worker \in [Workers -> WorkerStates] /\ w \in Workers
      /\ cursors \in [Streams -> Cursors] /\ table \in [Streams -> SUBSET Positions]
      /\ activity \in [Positions -> 0 .. MaxCopies]
      BY DEF OneWorker, OneInv, IInv, TypeOK
<1>2. Follows(s, cursors[s], page) /\ page \in Pages
      BY <1>1 DEF Commit, OneKeeps, WorkerStates
<1>3. /\ table' = [table EXCEPT ![s] = @ \cup page.events]
      /\ cursors' = [cursors EXCEPT ![s] = page.next]
      /\ activity' = IF s = CT THEN InsertCtActivity(page.events) ELSE activity
      /\ UNCHANGED <<tip, chain, loader>>
      BY DEF Commit
<1>4. worker'[w].phase = "polling"
      BY <1>1 DEF Commit, PollDone, WorkerStates
<1> HIDE DEF page
<1>5. \A r \in Streams : /\ table'[r] = IF r = s THEN table[r] \cup page.events ELSE table[r]
                         /\ cursors'[r] = IF r = s THEN page.next ELSE cursors[r]
      BY <1>1, <1>3
<1>6. OneKeeps(worker'[w], cursors')
      BY <1>4 DEF OneKeeps
<1>7. TableBehind(table', cursors')
      <2> SUFFICES ASSUME NEW r \in Streams, NEW e \in table'[r]
                   PROVE  e < cursors'[r].from
          BY DEF TableBehind
      <2>1. \A x \in table[r] : x \in Nat /\ x < cursors[r].from
            BY <1>1, PositionsAreNatural DEF OneInv, TableBehind
      <2>2. CASE r = s
            <3>1. /\ cursors[s].from \in Nat /\ page.next.from \in Nat
                  /\ cursors[s].from <= page.next.from
                  BY <1>1, <1>2 DEF Follows, Cursors, Pages
            <3>2. CASE e \in table[s]
                  <4>1. e \in Nat /\ e < cursors[s].from
                        BY <2>1, <2>2, <3>2
                  <4>2. cursors'[r].from = page.next.from
                        BY <1>5, <2>2
                  <4> QED  BY <3>1, <4>1, <4>2
            <3>3. CASE e \in page.events
                  BY <1>2, <1>5, <2>2, <3>3 DEF Follows
            <3> QED  BY <1>5, <2>2, <3>2, <3>3
      <2>3. CASE r # s
            BY <1>5, <2>1, <2>3
      <2> QED  BY <2>2, <2>3
<1>8. CT \in Streams => ActivityOnce'
      <2> SUFFICES ASSUME CT \in Streams, NEW e \in Positions
                   PROVE  activity'[e] = IF e \in Normalised(table'[CT]) THEN 1 ELSE 0
          BY DEF ActivityOnce
      <2>1. activity[e] = IF e \in Normalised(table[CT]) THEN 1 ELSE 0
            BY DEF OneInv, ActivityOnce
      <2>2. CASE s # CT
            BY <1>3, <1>5, <2>1, <2>2
      <2>3. CASE s = CT
            <3>1. e \in page.events => e \notin table[CT]
                  <4> SUFFICES ASSUME e \in page.events, e \in table[CT]
                               PROVE  FALSE
                      OBVIOUS
                  <4>1. cursors[s].from <= e /\ e < cursors[s].from
                        BY <1>2, <2>3 DEF Follows, OneInv, TableBehind
                  <4>2. e \in Nat /\ cursors[s].from \in Nat
                        BY <1>1, PositionsAreNatural DEF Cursors
                  <4> QED  BY <4>1, <4>2
            <3>2. activity'[e] = IF e \in Normalised(page.events) /\ activity[e] < MaxCopies
                                 THEN activity[e] + 1 ELSE activity[e]
                  BY <1>3, <2>3 DEF InsertCtActivity
            <3>3. CASE e \in Normalised(page.events)
                  <4>1. activity[e] = 0
                        BY <2>1, <3>1, <3>3 DEF Normalised
                  <4>2. activity'[e] = 1
                        BY <3>2, <3>3, <4>1, BoundsAssumption
                  <4> QED  BY <1>5, <2>3, <3>3, <4>2 DEF Normalised
            <3>4. CASE e \notin Normalised(page.events)
                  BY <1>5, <2>1, <2>3, <3>2, <3>4 DEF Normalised
            <3> QED  BY <3>3, <3>4
      <2> QED  BY <2>2, <2>3
<1> QED  BY <1>3, <1>6, <1>7, <1>8 DEF OneInv

(* Every step of the one worker keeps the invariant.                          *)
LEMMA OneStep ==
    ASSUME NEW w, OneWorker(w), OneInv(w), [Next]_vars
    PROVE  OneInv(w)'
<1>1. IInv'
      BY StepKeeps DEF OneInv
<1>2. CASE UNCHANGED vars \/ CloseLedger
      <2>1. UNCHANGED <<table, activity, cursors, worker, loader>>
            BY <1>2 DEF vars, CloseLedger
      <2> QED  BY <1>1, <2>1 DEF OneInv, ActivityOnce, Normalised
<1>3. CASE LoaderStart \/ LoaderChunk \/ LoaderRead \/ LoaderWrite \/ LoaderDies
      BY <1>3 DEF OneWorker, OneInv, LoaderStart, LoaderChunk, LoaderRead, LoaderWrite, LoaderDies
<1>4. ASSUME NEW v \in Workers,
             \/ Start(v) \/ BeginTick(v) \/ EndTick(v) \/ Shutdown(v) \/ Crash(v) \/ PollFails(v)
             \/ \E s \in Streams : Wake(v, s)
      PROVE  OneInv(w)'
      <2>1. v = w
            BY DEF OneWorker
      <2> QED  BY <1>1, <1>4, <2>1, OneScheduling
<1>5. ASSUME NEW v \in Workers, NEW s \in Streams,
             BeginPoll(v, s) \/ Fetch(v, s) \/ Commit(v, s)
      PROVE  OneInv(w)'
      <2>1. v = w
            BY DEF OneWorker
      <2> QED  BY <1>1, <1>5, <2>1, OnePoll, OneCommit
<1> QED  BY <1>2, <1>3, <1>4, <1>5 DEF Next

(* The first state keeps it: no worker runs and no table has a row.           *)
LEMMA OneBegins ==
    ASSUME NEW w, OneWorker(w), Init
    PROVE  OneInv(w)
<1>1. worker[w].phase = "off"
      BY DEF OneWorker, Init, Off, Fresh
<1>2. \A s \in Streams : table[s] = {}
      BY DEF Init
<1>3. CT \in Streams => ActivityOnce
      BY <1>2 DEF Init, ActivityOnce, Normalised
<1>4. loader.step = "off"
      BY DEF Init, Unloaded
<1> QED  BY <1>1, <1>2, <1>3, <1>4, InitKeeps DEF OneInv, OneKeeps, TableBehind

(* With one worker, every stored event's activity is there once, however the  *)
(* worker crashes, fails and starts again (insertCtActivity).                 *)
THEOREM ActivityIsThereOnce ==
    ASSUME NEW w, OneWorker(w), CT \in Streams
    PROVE  Spec => []ActivityOnce
<1>1. Init => OneInv(w)
      BY OneBegins
<1>2. OneInv(w) /\ [Next]_vars => OneInv(w)'
      BY OneStep
<1>3. OneInv(w) => ActivityOnce
      BY DEF OneInv
<1> QED  BY <1>1, <1>2, <1>3, PTL DEF Spec

(* With one worker, the handoff is permanent and the cursor after it never    *)
(* goes back (makeBootnodeThenRpcSource).                                     *)
THEOREM HandoffIsPermanent ==
    ASSUME NEW w, OneWorker(w), SPP \in Streams
    PROVE  Spec => RpcModeKept
<1>1. Init => OneInv(w)
      BY OneBegins
<1>2. OneInv(w) /\ [Next]_vars => OneInv(w)'
      BY OneStep
<1>3. OneInv(w) /\ [Next]_vars =>
        [cursors[SPP].mode = "rpc" =>
           cursors'[SPP].mode = "rpc" /\ cursors'[SPP].from >= cursors[SPP].from]_cursors
      <2> SUFFICES ASSUME OneInv(w), [Next]_vars, cursors[SPP].mode = "rpc", cursors' # cursors
                   PROVE  cursors'[SPP].mode = "rpc" /\ cursors'[SPP].from >= cursors[SPP].from
          OBVIOUS
      <2>1. PICK s \in Streams : Commit(w, s)
            <3>1. ~ LoaderWrite
                  BY DEF OneInv, LoaderWrite
            <3>2. \E v \in Workers, s \in Streams : Commit(v, s)
                  BY <3>1 DEF Next, vars, CloseLedger, Start, BeginTick, PollFails, EndTick, Shutdown,
                              Crash, Wake, BeginPoll, Fetch, LoaderStart, LoaderChunk,
                              LoaderRead, LoaderDies
            <3> QED  BY <3>2 DEF OneWorker
      <2>2. /\ cursors \in [Streams -> Cursors]
            /\ cursors' = [cursors EXCEPT ![s] = worker[w].page.next]
            BY <2>1 DEF Commit, OneInv, IInv, TypeOK
      <2>3. Follows(s, cursors[s], worker[w].page)
            BY <2>1 DEF Commit, OneInv, OneKeeps
      <2>4. CASE s = SPP
            <3>1. cursors'[SPP] = worker[w].page.next
                  BY <2>2, <2>4
            <3> QED  BY <2>3, <2>4, <3>1 DEF Follows
      <2>5. CASE s # SPP
            <3>1. cursors'[SPP] = cursors[SPP] /\ cursors[SPP].from \in Nat
                  BY <2>2, <2>5 DEF Cursors
            <3> QED  BY <3>1
      <2> QED  BY <2>4, <2>5
<1> QED  BY <1>1, <1>2, <1>3, PTL DEF Spec, RpcModeKept
=============================================================================
