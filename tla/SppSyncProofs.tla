----------------------------- MODULE SppSyncProofs -----------------------------
(***************************************************************************)
(* The shielded wallet's sync, for any number of syncs on one storage, any *)
(* page sizes, any lag of the archive and of the RPC's events, and an RPC  *)
(* that scans the ledgers it keeps for one answer.                         *)
(***************************************************************************)
EXTENDS SppSync, PositionLemmas, FiniteSetTheorems

\* The RPC does not stop short of its newest ledger (indexer.rs takes an empty
\* page for the end of the chain; the run spp_scan shows what happens if it is not).
ScansItsWindow == ScanWindow >= Retention

----------------------------------------------------------------------------
(* FirstRows: what a source's answer takes of the rows there are. *)

(* The first rows are all the rows, or leave none out before the last of them. *)
LEMMA FirstRowsArePrefix ==
  ASSUME NEW rows, IsFiniteSet(rows), rows \subseteq Nat, NEW limit \in Nat \ {0}
  PROVE  /\ FirstRows(rows, limit) \subseteq rows
         /\ \A e \in rows, f \in FirstRows(rows, limit) : e <= f => e \in FirstRows(rows, limit)
         /\ rows # {} => FirstRows(rows, limit) # {}
         /\ Cardinality(FirstRows(rows, limit)) < limit => FirstRows(rows, limit) = rows
PROOF
  <1> DEFINE before(e) == {x \in rows : x < e}
             first == FirstRows(rows, limit)
  <1>1. first \subseteq rows /\ \A e \in rows : e \in first <=> Cardinality(before(e)) < limit
    BY DEF FirstRows
  <1>2. \A e \in rows : IsFiniteSet(before(e)) /\ Cardinality(before(e)) \in Nat
    <2>1. \A e \in rows : before(e) \subseteq rows
      OBVIOUS
    <2> QED BY <2>1, FS_Subset, FS_CardinalityType
  <1>3. IsFiniteSet(first) /\ Cardinality(first) \in Nat
    BY <1>1, FS_Subset, FS_CardinalityType
  <1> HIDE DEF first
  <1>4. ASSUME NEW e \in rows, NEW f \in first, e <= f
        PROVE  e \in first
    <2>1. before(e) \subseteq before(f)
      <3>1. ASSUME NEW x \in rows, x < e
            PROVE  x < f
        <4>1. x \in Nat /\ e \in Nat /\ f \in Nat
          BY <1>1
        <4> QED BY <1>4, <3>1, <4>1
      <3> QED BY <3>1
    <2>2. f \in rows
      BY <1>1
    <2>3. Cardinality(before(e)) <= Cardinality(before(f))
      BY <1>2, <2>1, <2>2, FS_Subset
    <2>4. Cardinality(before(f)) < limit
      BY <1>1, <2>2
    <2>5. Cardinality(before(e)) < limit
      <3> HIDE DEF before
      <3> QED BY <1>2, <2>2, <2>3, <2>4
    <2> QED BY <1>1, <2>5
  <1>5. ASSUME rows # {}
        PROVE  first # {}
    <2>1. PICK e \in rows : \A x \in rows : e <= x
      BY <1>5, SmallestNat
    <2>2. before(e) = {}
      <3>1. ASSUME NEW x \in rows, x < e
            PROVE  FALSE
        <4>1. x \in Nat /\ e \in Nat /\ e <= x
          BY <2>1
        <4> QED BY <3>1, <4>1
      <3> QED BY <3>1
    <2>3. Cardinality(before(e)) = 0
      BY <2>2, FS_EmptySet
    <2>4. e \in first
      <3> HIDE DEF before
      <3> QED BY <1>1, <2>3
    <2> QED BY <2>4
  <1>6. ASSUME Cardinality(first) < limit, rows # first
        PROVE  FALSE
    <2>1. rows \ first # {} /\ rows \ first \subseteq Nat
      BY <1>1, <1>6
    <2>2. PICK e \in rows \ first : \A x \in rows \ first : e <= x
      BY <2>1, SmallestNat
    <2>3. before(e) \subseteq first
      <3>1. ASSUME NEW x \in rows, x < e, x \notin first
            PROVE  FALSE
        <4>1. x \in Nat /\ e \in Nat /\ e <= x
          BY <2>1, <2>2, <3>1
        <4> QED BY <3>1, <4>1
      <3> QED BY <3>1
    <2>4. Cardinality(before(e)) <= Cardinality(first)
      BY <1>3, <2>3, FS_Subset
    <2>5. ~ (Cardinality(before(e)) < limit)
      <3> HIDE DEF before
      <3> QED BY <1>1, <2>2
    <2> HIDE DEF before
    <2>6. Cardinality(before(e)) \in Nat
      BY <1>2, <2>2
    <2> QED BY <1>3, <1>6, <2>4, <2>5, <2>6
  <1> QED BY <1>1, <1>4, <1>5, <1>6 DEF first

\* And there are at most limit of them.
LEMMA FirstRowsAreFew ==
  ASSUME NEW n \in Nat, NEW rows, rows \subseteq 0 .. n, NEW limit \in Nat \ {0}
  PROVE  Cardinality(FirstRows(rows, limit)) <= limit
PROOF
  <1> DEFINE first == FirstRows(rows, limit)
             last == Max(first)
             before == {x \in rows : x < last}
  <1>1. IsFiniteSet(rows)
    <2>1. IsFiniteSet(0 .. n)
      BY FS_Interval
    <2> QED BY <2>1, FS_Subset
  <1>2. first \subseteq rows /\ first \subseteq 0 .. n /\ IsFiniteSet(first)
    BY <1>1, FS_Subset DEF FirstRows
  <1>3. CASE first = {}
    BY <1>3, FS_EmptySet
  <1>4. CASE first # {}
    <2>1. last \in first /\ \A e \in first : e <= last
      <3> HIDE DEF first
      <3> QED BY <1>2, <1>4, LargestNat
    <2>2. Cardinality(before) < limit
      BY <2>1 DEF FirstRows
    <2> HIDE DEF first, last
    <2>3. first \ {last} \subseteq before
      <3>1. ASSUME NEW e \in first, e # last
            PROVE  e < last
        <4>1. e \in 0 .. n /\ last \in 0 .. n /\ e <= last
          BY <1>2, <2>1
        <4> QED BY <3>1, <4>1
      <3> QED BY <1>2, <3>1
    <2>4. IsFiniteSet(before)
      BY <1>1, FS_Subset
    <2> HIDE DEF before
    <2>5. Cardinality(first \ {last}) <= Cardinality(before)
      BY <2>3, <2>4, FS_Subset
    <2>6. /\ Cardinality(first \ {last}) = Cardinality(first) - 1
          /\ Cardinality(first) \in Nat /\ Cardinality(before) \in Nat
      BY <1>2, <2>1, <2>4, FS_RemoveElement, FS_CardinalityType
    <2> QED BY <2>2, <2>5, <2>6 DEF first
  <1> QED BY <1>3, <1>4

----------------------------------------------------------------------------
(***************************************************************************)
(* The inductive invariant.  A position that is kept anywhere, in the      *)
(* metadata, in a round's cursor and start, or in a page whose events are  *)
(* on their way, is a promise: the events before it are stored, or are     *)
(* with it.  It is no promise about ledgers to come, which is what lets    *)
(* the chain grow, and nothing is ever removed from the storage, which is  *)
(* what lets other syncs do as they like in between.                       *)
(***************************************************************************)

\* What a cursor says has been read.
Reach(cursor) == IF cursor.source = "bootnode" THEN cursor.at + 1 ELSE cursor.at

\* The events before the position are among those seen.
Kept(pos, seen, events, last) ==
  pos \in Nat /\ pos <= FirstOf(last + 1) /\ \A e \in events : e < pos => e \in seen

\* The events up to the end of the ledger are among those seen, but for some of the
\* ledgers that were torn.
CaughtUp(ledger, seen, events, last, tears) ==
  /\ ledger \in 0 .. last
  /\ \A e \in events : LedgerOf(e) <= ledger => LedgerOf(e) \in tears \/ e \in seen

\* A page, given what is stored with it.
PageKept(page, seen, events, last, tears) ==
  /\ page.events \subseteq events
  /\ Progress(page) \in 0 .. last
  /\ Kept(FirstOf(Progress(page)), seen, events, last)
  /\ Kept(Reach(page.next), seen, events, last)
  /\ FullyIndexed(page) => CaughtUp(Progress(page), seen, events, last, tears)

\* A sync.
SyncKept(s, seen, events, last, tears) ==
  /\ s.phase \in {"fetching", "saving", "saved"} => Kept(FirstOf(s.start), seen, events, last)
  /\ s.phase = "fetching" => Kept(Reach(s.cursor), seen, events, last)
  /\ s.phase \in {"saving", "saved"} =>
       PageKept(s.page, seen \cup s.page.events, events, last, tears)
  /\ s.phase = "saved" => s.page.events \subseteq seen

ChainBelow == \A e \in chain : e < FirstOf(tip + 1)

\* The table leaves out no event before one it has.
TableInOrder == Api!Unbroken(table)

MetaKept ==
  /\ Kept(FirstOf(meta.resume), Events(raw), chain, tip)
  /\ Kept(Reach(meta.cursor), Events(raw), chain, tip)
  /\ CaughtUp(meta.full, Events(raw), chain, tip, torn)

TasksKept == \A t \in Tasks : SyncKept(task[t], Events(raw), chain, tip, torn)

SyncInv == TypeOK /\ ChainBelow /\ TableInOrder /\ MetaKept /\ TasksKept

\* A promise is kept as more is stored and as later ledgers close.
LEMMA KeptGrows ==
  ASSUME NEW last \in Nat, NEW later \in Nat, last <= later,
         NEW seen, NEW more, seen \subseteq more,
         NEW events, NEW grown, \A e \in grown : e \in events \/ (e \in Nat /\ e >= FirstOf(last + 1))
  PROVE  \A pos : Kept(pos, seen, events, last) => Kept(pos, more, grown, later)
PROOF
  <1> TAKE pos
  <1> HAVE Kept(pos, seen, events, last)
  <1>1. pos \in Nat /\ pos <= FirstOf(last + 1) /\ \A e \in events : e < pos => e \in seen
    BY DEF Kept
  <1>2. FirstOf(last + 1) <= FirstOf(later + 1)
    BY FirstOfMonotone
  <1>3. FirstOf(last + 1) \in Nat /\ FirstOf(later + 1) \in Nat
    BY FirstOfType
  <1>4. ASSUME NEW e \in grown, e < pos
        PROVE  e \in more
    <2>1. CASE e \in events
      BY <1>1, <1>4, <2>1
    <2>2. CASE e \in Nat /\ e >= FirstOf(last + 1)
      BY <1>1, <1>3, <1>4, <2>2
    <2> QED BY <2>1, <2>2
  <1> QED BY <1>1, <1>2, <1>3, <1>4 DEF Kept

\* An earlier position promises less.
LEMMA KeptBefore ==
  ASSUME NEW last \in Nat, NEW seen, NEW events, events \subseteq Nat,
         NEW pos, Kept(pos, seen, events, last), NEW earlier \in Nat, earlier <= pos
  PROVE  Kept(earlier, seen, events, last)
PROOF
  <1>1. pos \in Nat /\ pos <= FirstOf(last + 1) /\ FirstOf(last + 1) \in Nat
    BY FirstOfType DEF Kept
  <1>2. earlier <= FirstOf(last + 1)
    BY <1>1
  <1>3. ASSUME NEW e \in events, e < earlier
        PROVE  e \in seen
    <2>1. e \in Nat /\ e < pos
      BY <1>1, <1>3
    <2> QED BY <2>1 DEF Kept
  <1> QED BY <1>2, <1>3 DEF Kept

\* Nor does a ledger that was caught up to gain an event, or a torn one heal.
LEMMA CaughtUpGrows ==
  ASSUME NEW last \in Nat, NEW later \in Nat, last <= later,
         NEW seen, NEW more, seen \subseteq more, NEW tears, NEW rents, tears \subseteq rents,
         NEW events, NEW grown, \A e \in grown : e \in events \/ (e \in Nat /\ e >= FirstOf(last + 1))
  PROVE  \A ledger : CaughtUp(ledger, seen, events, last, tears)
                       => CaughtUp(ledger, more, grown, later, rents)
PROOF
  <1> TAKE ledger
  <1> HAVE CaughtUp(ledger, seen, events, last, tears)
  <1>1. ledger \in 0 .. last /\ ledger \in 0 .. later /\ ledger \in Nat
    BY DEF CaughtUp
  <1>2. ASSUME NEW e \in grown, LedgerOf(e) <= ledger
        PROVE  LedgerOf(e) \in rents \/ e \in more
    <2>1. CASE e \in events
      BY <1>2, <2>1 DEF CaughtUp
    <2>2. CASE e \in Nat /\ e >= FirstOf(last + 1)
      <3>1. LedgerOf(e) \in Nat /\ FirstOf(last + 1) \in Nat
        BY <2>2, Division, FirstOfType
      <3>2. LedgerOf(e) <= last
        BY <1>1, <1>2, <3>1
      <3>3. e < FirstOf(last + 1)
        BY <2>2, <3>2, LedgerIsAtMost
      <3> QED BY <2>2, <3>1, <3>3
    <2> QED BY <2>1, <2>2
  <1> QED BY <1>1, <1>2 DEF CaughtUp

(* What a tab's sync promises survives more stored events and later ones. *)
LEMMA SyncKeptGrows ==
  ASSUME NEW last \in Nat, NEW later \in Nat, last <= later,
         NEW seen, NEW more, seen \subseteq more, NEW tears, NEW rents, tears \subseteq rents,
         NEW events, NEW grown, events \subseteq grown,
         \A e \in grown : e \in events \/ (e \in Nat /\ e >= FirstOf(last + 1)),
         NEW s, SyncKept(s, seen, events, last, tears)
  PROVE  SyncKept(s, more, grown, later, rents)
PROOF
  <1>1. \A pos : Kept(pos, seen, events, last) => Kept(pos, more, grown, later)
    BY KeptGrows
  <1>2. seen \cup s.page.events \subseteq more \cup s.page.events
    OBVIOUS
  <1>3. \A pos : Kept(pos, seen \cup s.page.events, events, last)
                   => Kept(pos, more \cup s.page.events, grown, later)
    BY <1>2, KeptGrows
  <1>4. \A ledger : CaughtUp(ledger, seen \cup s.page.events, events, last, tears)
                      => CaughtUp(ledger, more \cup s.page.events, grown, later, rents)
    BY <1>2, CaughtUpGrows
  <1>5. s.phase \in {"saving", "saved"} =>
          PageKept(s.page, more \cup s.page.events, grown, later, rents)
    <2> HAVE s.phase \in {"saving", "saved"}
    <2>1. PageKept(s.page, seen \cup s.page.events, events, last, tears)
      BY DEF SyncKept
    <2>2. Progress(s.page) \in 0 .. last => Progress(s.page) \in 0 .. later
      OBVIOUS
    <2> QED BY <1>3, <1>4, <2>1, <2>2 DEF PageKept
  <1> QED BY <1>1, <1>5 DEF SyncKept

----------------------------------------------------------------------------
(* The pages that arrive. *)

\* The chain and the ledgers, as facts that the lemmas below need.
LEMMA ChainFacts ==
  ASSUME SyncInv
  PROVE  /\ tip \in Nat /\ tip <= MaxLedger /\ table \subseteq chain
         /\ chain \subseteq Nat /\ IsFiniteSet(chain) /\ chain \subseteq Positions
         /\ \A e \in chain : FirstOf(StartLedger) <= e /\ LedgerOf(e) \in 0 .. tip
         /\ FirstOf(tip + 1) \in Nat
         /\ meta.resume \in 0 .. tip /\ meta.full \in 0 .. tip /\ meta.cursor \in Cursors
PROOF
  <1>1. /\ tip \in Nat /\ tip <= MaxLedger
        /\ MaxLedger \in Nat /\ StartLedger \in Nat
        /\ chain \subseteq Positions /\ table \subseteq chain
        /\ meta.resume \in 0 .. tip /\ meta.full \in 0 .. tip /\ meta.cursor \in Cursors
    BY SyncAssumption DEF SyncInv, TypeOK
  <1>2. FirstOf(StartLedger) \in Nat /\ EndOf(MaxLedger) \in Nat /\ FirstOf(tip + 1) \in Nat
    BY <1>1, FirstOfType
  <1>3. Positions \subseteq Nat /\ \A e \in Positions : FirstOf(StartLedger) <= e
    BY <1>2 DEF Positions
  <1>4. IsFiniteSet(chain)
    <2>1. IsFiniteSet(Positions)
      BY <1>2, FS_Interval DEF Positions
    <2> QED BY <1>1, <2>1, FS_Subset
  <1>5. ASSUME NEW e \in chain
        PROVE  LedgerOf(e) \in 0 .. tip
    <2>1. e \in Nat /\ e < FirstOf(tip + 1)
      BY <1>1, <1>3 DEF SyncInv, ChainBelow
    <2>2. LedgerOf(e) \in Nat /\ LedgerOf(e) <= tip
      BY <1>1, <2>1, Division, LedgerIsAtMost
    <2> QED BY <1>1, <2>2
  <1> QED BY <1>1, <1>2, <1>3, <1>4, <1>5

\* Of the events of a source, those from a position on.
IsFrom(ahead, from, source) == ahead \subseteq source /\ \A e \in source : e \in ahead <=> from <= e

\* The first rows of those from a position that is kept, out of events that leave out
\* none before one of them: with these rows, the events up to the last are kept.
LEMMA RowsKept ==
  ASSUME SyncInv, NEW from, Kept(from, Events(raw), chain, tip),
         NEW source, source \subseteq chain,
         Api!Unbroken(source), NEW ahead, IsFrom(ahead, from, source),
         NEW rows, rows = FirstRows(ahead, PageSize)
  PROVE  /\ rows \subseteq ahead
         /\ Cardinality(rows) <= PageSize /\ Cardinality(rows) \in Nat
         /\ Cardinality(rows) < PageSize => rows = ahead
         /\ rows # {} => /\ Max(rows) \in rows
                         /\ \A e \in rows : e <= Max(rows)
                         /\ Kept(Max(rows) + 1, Events(raw) \cup rows, chain, tip)
PROOF
  <1> DEFINE end == FirstOf(tip + 1)
  <1>0. /\ ahead \subseteq source /\ \A e \in source : e \in ahead <=> from <= e
        /\ \A e \in source : \A f \in chain : f < e => f \in source
    BY DEF IsFrom, Api!Unbroken
  <1>1. /\ chain \subseteq Nat /\ end \in Nat /\ PageSize \in Nat \ {0}
        /\ from \in Nat /\ \A e \in chain : e < end
    BY ChainFacts, SyncAssumption DEF Kept, SyncInv, ChainBelow
  <1> HIDE DEF end
  <1>2. ahead \subseteq 0 .. end /\ IsFiniteSet(ahead) /\ ahead \subseteq Nat
    <2>1. \A e \in ahead : e \in 0 .. end
      BY <1>0, <1>1
    <2>2. IsFiniteSet(0 .. end)
      BY <1>1, FS_Interval
    <2> QED BY <1>0, <1>1, <2>1, <2>2, FS_Subset
  <1>4. /\ rows \subseteq ahead
        /\ \A e \in ahead, f \in rows : e <= f => e \in rows
        /\ Cardinality(rows) < PageSize => rows = ahead
    BY <1>1, <1>2, FirstRowsArePrefix
  <1>5. Cardinality(rows) <= PageSize
    BY <1>1, <1>2, FirstRowsAreFew
  <1>6. Cardinality(rows) \in Nat
    BY <1>2, <1>4, FS_Subset, FS_CardinalityType
  <1>7. ASSUME rows # {}
        PROVE  /\ Max(rows) \in rows
               /\ \A e \in rows : e <= Max(rows)
               /\ Kept(Max(rows) + 1, Events(raw) \cup rows, chain, tip)
    <2> DEFINE last == Max(rows)
    <2>1. last \in rows /\ \A e \in rows : e <= last
      BY <1>1, <1>2, <1>4, <1>7, LargestNat
    <2> HIDE DEF last
    <2>2. last \in source /\ last \in Nat /\ last < end
      BY <1>0, <1>1, <1>2, <1>4, <2>1
    <2>3. ASSUME NEW e \in chain, e < last + 1
          PROVE  e \in Events(raw) \cup rows
      <3>1. e \in Nat /\ e <= last
        BY <1>1, <2>2, <2>3
      <3>2. CASE e < from
        BY <3>2 DEF Kept
      <3>3. CASE ~ (e < from)
        <4>1. e \in source
          BY <1>0, <2>2, <3>1
        <4>2. e \in ahead
          BY <1>0, <1>1, <3>1, <3>3, <4>1
        <4> QED BY <1>4, <2>1, <3>1, <4>2
      <3> QED BY <3>2, <3>3
    <2>4. last + 1 \in Nat /\ last + 1 <= end
      BY <1>1, <2>2
    <2> QED BY <2>1, <2>3, <2>4 DEF Kept, last, end
  <1> QED BY <1>4, <1>5, <1>6, <1>7

\* A ledger whose events are all kept is caught up to.
LEMMA KeptIsCaughtUp ==
  ASSUME SyncInv, NEW ledger \in 0 .. tip, NEW seen,
         Kept(FirstOf(ledger + 1), seen, chain, tip)
  PROVE  \A tears : CaughtUp(ledger, seen, chain, tip, tears)
PROOF
  <1>1. ASSUME NEW e \in chain, LedgerOf(e) <= ledger
        PROVE  e \in seen
    <2>1. e \in Nat /\ ledger \in Nat
      BY ChainFacts
    <2>2. e < FirstOf(ledger + 1)
      BY <1>1, <2>1, LedgerIsAtMost
    <2> QED BY <2>2 DEF Kept
  <1> QED BY <1>1 DEF CaughtUp

\* Where a page that is not empty says to resume, its last row's ledger, and what is
\* kept up to that row.
LEMMA LastRowKept ==
  ASSUME SyncInv, NEW page, page.events # {}, page.events \subseteq chain,
         Max(page.events) \in page.events, NEW seen,
         Kept(Max(page.events) + 1, seen, chain, tip)
  PROVE  /\ Progress(page) = LedgerOf(Max(page.events)) /\ Progress(page) \in 0 .. tip
         /\ Kept(FirstOf(Progress(page)), seen, chain, tip)
PROOF
  <1> DEFINE last == Max(page.events)
  <1>1. last \in Nat /\ LedgerOf(last) \in 0 .. tip /\ chain \subseteq Nat /\ tip \in Nat
    BY ChainFacts
  <1>2. Progress(page) = LedgerOf(last)
    BY DEF Progress
  <1>3. Kept(last + 1, seen, chain, tip)
    OBVIOUS
  <1> HIDE DEF last
  <1>4. FirstOf(LedgerOf(last)) \in Nat /\ FirstOf(LedgerOf(last)) <= last + 1
    BY <1>1, Division, FirstOfType
  <1>5. Kept(FirstOf(LedgerOf(last)), seen, chain, tip)
    BY <1>1, <1>3, <1>4, KeptBefore
  <1> QED BY <1>1, <1>2, <1>5 DEF last

\* An RPC that scans the ledgers it keeps reaches its newest one.
LEMMA RpcScansAll ==
  ASSUME SyncInv, ScansItsWindow, NEW from \in Nat,
         NEW newest \in 0 .. tip, LedgerOf(from) \in Oldest .. newest
  PROVE  LET page == RpcPage(from, newest)
         IN  /\ page.events = FirstRows({e \in chain : from <= e /\ e < FirstOf(newest + 1)}, PageSize)
             /\ page.next = Cursor("rpc", IF Cardinality(page.events) = PageSize
                                          THEN Max(page.events) + 1 ELSE EndOf(newest))
             /\ page.latest = newest
             /\ page = [events |-> page.events, next |-> page.next, latest |-> page.latest]
PROOF
  <1> DEFINE last == Min({newest, LedgerOf(from) + ScanWindow - 1})
             scanned == LedgerOf(from) + ScanWindow - 1
  <1>1. /\ tip \in Nat /\ newest \in Nat /\ newest <= tip
        /\ ScanWindow \in Nat /\ Retention \in Nat /\ ScanWindow >= Retention
    BY ChainFacts, SyncAssumption DEF ScansItsWindow
  <1>2. /\ LedgerOf(from) \in Nat /\ LedgerOf(from) >= Oldest
        /\ Oldest >= 1 /\ Oldest + Retention > tip
    BY <1>1, Division, SyncAssumption DEF Oldest
  <1>3. scanned \in Int /\ newest \in Int /\ newest <= scanned
    BY <1>1, <1>2 DEF Oldest
  <1>4. last = Min({newest, scanned})
    OBVIOUS
  <1> HIDE DEF scanned, last
  <1>5. Min({newest, scanned}) \in {newest, scanned} /\ Min({newest, scanned}) <= newest
        /\ Min({newest, scanned}) <= scanned
    BY <1>3, SmallerOfTwo
  <1>6. last = newest
    BY <1>3, <1>4, <1>5
  <1> QED BY <1>6 DEF RpcPage, Page, last

\* Its page keeps what it says.
LEMMA RpcPageKept ==
  ASSUME SyncInv, ScansItsWindow, NEW from, Kept(from, Events(raw), chain, tip),
         NEW newest \in 0 .. tip, LedgerOf(from) \in Oldest .. newest
  PROVE  LET page == RpcPage(from, newest)
         IN  /\ page \in Pages /\ page.events \subseteq chain
             /\ PageKept(page, Events(raw) \cup page.events, chain, tip, torn)
PROOF
  <1> DEFINE page == RpcPage(from, newest)
             source == {e \in chain : e < FirstOf(newest + 1)}
             seen == Events(raw) \cup page.events
             found == {e \in chain : from <= e /\ e < FirstOf(newest + 1)}
  <1>1. /\ tip \in Nat /\ newest \in Nat /\ newest <= tip
        /\ chain \subseteq Nat /\ chain \subseteq Positions
        /\ from \in Nat /\ PageSize \in Nat \ {0}
    BY ChainFacts, SyncAssumption DEF Kept
  <1>2. /\ page.events = FirstRows(found, PageSize)
        /\ page.next = Cursor("rpc", IF Cardinality(page.events) = PageSize
                                     THEN Max(page.events) + 1 ELSE EndOf(newest))
        /\ page.latest = newest
        /\ page = [events |-> page.events, next |-> page.next, latest |-> page.latest]
    BY <1>1, RpcScansAll
  <1> HIDE DEF page
  <1>3. /\ Reach(page.next) = page.next.at
        /\ page.next.at = IF Cardinality(page.events) = PageSize
                          THEN Max(page.events) + 1 ELSE EndOf(newest)
        /\ page.next = [source |-> "rpc", at |-> page.next.at]
    BY <1>2 DEF Cursor, Reach
  <1>4. /\ FirstOf(newest + 1) \in Nat /\ EndOf(newest) \in Nat /\ FirstOf(newest) \in Nat
        /\ EndOf(newest) <= FirstOf(newest + 1) /\ FirstOf(newest) <= FirstOf(newest + 1)
        /\ FirstOf(newest + 1) <= FirstOf(tip + 1)
    <2>1. newest + 1 \in Nat /\ tip + 1 \in Nat /\ newest + 1 <= tip + 1
      BY <1>1
    <2>2. FirstOf(newest + 1) <= FirstOf(tip + 1)
      BY <2>1, FirstOfMonotone
    <2> QED BY <1>1, <2>1, <2>2, FirstOfType
  <1>5. /\ page.events \subseteq found
        /\ Cardinality(page.events) <= PageSize /\ Cardinality(page.events) \in Nat
        /\ Cardinality(page.events) < PageSize => page.events = found
        /\ page.events # {} => /\ Max(page.events) \in page.events
                               /\ Kept(Max(page.events) + 1, Events(raw) \cup page.events, chain, tip)
    <2>1. Api!Unbroken(source)
      BY <1>1, <1>4 DEF Api!Unbroken
    <2>2. source \subseteq chain /\ IsFrom(found, from, source)
      BY DEF IsFrom
    <2> HIDE DEF source, found
    <2> QED BY <1>2, <2>1, <2>2, RowsKept
  <1>6. page.events \subseteq chain
    BY <1>5
  \* A page that is not full has all the rows up to the newest ledger's end.
  <1>7. ASSUME Cardinality(page.events) < PageSize
        PROVE  Kept(FirstOf(newest + 1), seen, chain, tip)
    <2>1. ASSUME NEW e \in chain, e < FirstOf(newest + 1)
          PROVE  e \in seen
      <3>1. CASE e < from
        BY <3>1 DEF Kept
      <3>2. CASE ~ (e < from)
        BY <1>1, <1>5, <1>7, <2>1, <3>2
      <3> QED BY <3>1, <3>2
    <2> HIDE DEF seen
    <2> QED BY <1>4, <2>1 DEF Kept
  <1>8. page.events = {} => Cardinality(page.events) < PageSize
    BY <1>1, FS_EmptySet
  <1>9. Kept(Reach(page.next), seen, chain, tip)
    <2>1. CASE Cardinality(page.events) = PageSize
      BY <1>1, <1>3, <1>5, <1>8, <2>1
    <2>2. CASE Cardinality(page.events) # PageSize
      <3>1. Kept(FirstOf(newest + 1), seen, chain, tip)
        BY <1>1, <1>5, <1>7, <2>2
      <3> HIDE DEF seen
      <3> QED BY <1>1, <1>3, <1>4, <2>2, <3>1, KeptBefore
    <2> QED BY <2>1, <2>2
  <1>10. /\ Progress(page) \in 0 .. newest
         /\ Kept(FirstOf(Progress(page)), seen, chain, tip)
    <2>1. CASE page.events = {}
      <3>1. Progress(page) = newest
        BY <1>2, <2>1 DEF Progress
      <3>2. Kept(FirstOf(newest + 1), seen, chain, tip)
        BY <1>7, <1>8, <2>1
      <3> HIDE DEF seen
      <3>3. Kept(FirstOf(newest), seen, chain, tip)
        BY <1>1, <1>4, <3>2, KeptBefore
      <3> QED BY <1>1, <3>1, <3>3
    <2>2. CASE page.events # {}
      <3> DEFINE last == Max(page.events)
      <3>1. last \in Nat /\ last < FirstOf(newest + 1) /\ last \in page.events
        BY <1>1, <1>5, <2>2
      <3>2. Kept(last + 1, seen, chain, tip)
        BY <1>5, <2>2
      <3> HIDE DEF seen
      <3>3. /\ Progress(page) = LedgerOf(last) /\ Progress(page) \in 0 .. tip
            /\ Kept(FirstOf(Progress(page)), seen, chain, tip)
        BY <1>6, <2>2, <3>1, <3>2, LastRowKept
      <3> HIDE DEF last
      <3>4. LedgerOf(last) <= newest
        BY <1>1, <3>1, LedgerIsAtMost
      <3> QED BY <1>1, <3>3, <3>4
    <2> QED BY <2>1, <2>2
  <1>11. ASSUME FullyIndexed(page)
         PROVE  CaughtUp(Progress(page), seen, chain, tip, torn)
    <2>1. Kept(FirstOf(newest + 1), seen, chain, tip)
      BY <1>7, <1>8, <1>11 DEF FullyIndexed
    <2>2. Progress(page) \in 0 .. tip /\ Progress(page) + 1 \in Nat /\ newest + 1 \in Nat
          /\ Progress(page) + 1 <= newest + 1
      BY <1>1, <1>10
    <2>3. FirstOf(Progress(page) + 1) \in Nat /\ FirstOf(Progress(page) + 1) <= FirstOf(newest + 1)
      BY <2>2, FirstOfType, FirstOfMonotone
    <2> HIDE DEF seen
    <2>4. Kept(FirstOf(Progress(page) + 1), seen, chain, tip)
      BY <1>1, <2>1, <2>3, KeptBefore
    <2> QED BY <2>2, <2>4, KeptIsCaughtUp
  <1>12. PageKept(page, seen, chain, tip, torn)
    <2>1. Progress(page) \in 0 .. tip
      BY <1>1, <1>10
    <2> HIDE DEF seen
    <2> QED BY <1>6, <1>9, <1>10, <1>11, <2>1 DEF PageKept
  <1>13. page \in Pages
    <2>1. page.next.at \in Nat
      BY <1>3, <1>9 DEF Kept
    <2> QED BY <1>1, <1>2, <1>3, <1>6, <2>1 DEF Pages, Cursors, Sources
  <1> QED BY <1>6, <1>12, <1>13 DEF page

\* The bootnode's rows are the table's.  A page of them that is taken for the last has
\* every row the table has; what the table lacks is of the RPC's latest ledger, and
\* that ledger is torn.
LEMMA BootnodePageKept ==
  ASSUME SyncInv, NEW from, Kept(from, Events(raw), chain, tip),
         NEW ahead, IsFrom(ahead, from, table),
         NEW rows, rows # {}, rows = FirstRows(ahead, PageSize),
         NEW tears, Torn(rows) \subseteq tears
  PROVE  LET page == BootnodePage(rows)
         IN  /\ page \in Pages /\ page.events \subseteq chain
             /\ PageKept(page, Events(raw) \cup page.events, chain, tip, tears)
PROOF
  <1> DEFINE page == BootnodePage(rows)
             seen == Events(raw) \cup rows
             last == Max(rows)
  <1>1. /\ tip \in Nat /\ table \subseteq chain
        /\ chain \subseteq Nat /\ chain \subseteq Positions
        /\ \A e \in chain : LedgerOf(e) \in 0 .. tip
        /\ from \in Nat
    BY ChainFacts DEF Kept
  <1>2. /\ page.events = rows /\ page.latest = tip
        /\ page.next = [source |-> "bootnode", at |-> Max(rows)]
        /\ page = [events |-> page.events, next |-> page.next, latest |-> page.latest]
    BY DEF BootnodePage, Page, Cursor
  <1>3. \A e \in table : \A f \in chain : f < e => f \in table
    BY DEF SyncInv, TableInOrder, Api!Unbroken
  <1> HIDE DEF page
  <1>4. /\ rows \subseteq table
        /\ Cardinality(rows) < PageSize => rows = ahead
        /\ last \in rows /\ \A e \in rows : e <= last
        /\ Kept(last + 1, seen, chain, tip)
    <2>1. table \subseteq chain
      BY <1>1
    <2> HIDE DEF last, seen
    <2>2. Api!Unbroken(table)
      BY DEF SyncInv, TableInOrder
    <2>3. /\ rows \subseteq ahead
          /\ Cardinality(rows) < PageSize => rows = ahead
          /\ Max(rows) \in rows /\ \A e \in rows : e <= Max(rows)
          /\ Kept(Max(rows) + 1, Events(raw) \cup rows, chain, tip)
      BY <2>1, <2>2, RowsKept
    <2> QED BY <2>1, <2>3 DEF last, seen, IsFrom
  <1> HIDE DEF last, seen
  <1>5. page.events \subseteq chain /\ last \in Nat
    BY <1>1, <1>2, <1>4
  <1>6. Kept(Reach(page.next), seen, chain, tip)
    BY <1>2, <1>4 DEF Reach, last
  <1>7. /\ Progress(page) = LedgerOf(last) /\ Progress(page) \in 0 .. tip
        /\ Kept(FirstOf(Progress(page)), seen, chain, tip)
    <2>1. Kept(Max(page.events) + 1, seen, chain, tip) /\ Max(page.events) \in page.events
      BY <1>2, <1>4 DEF last
    <2> QED BY <1>2, <1>5, <2>1, LastRowKept DEF last
  <1>8. ASSUME FullyIndexed(page)
        PROVE  CaughtUp(Progress(page), seen, chain, tip, tears)
    <2>1. Cardinality(rows) < PageSize /\ LedgerOf(last) = tip
      BY <1>1, <1>2, <1>7, <1>8 DEF FullyIndexed
    <2>2. ASSUME NEW e \in chain, e \notin seen
          PROVE  LedgerOf(e) \in tears
      <3>1. ~ (e < from) /\ e \notin rows
        BY <2>2 DEF Kept, seen
      <3>2. e \notin table /\ e \in Nat
        BY <1>1, <1>4, <2>1, <3>1 DEF IsFrom
      <3>3. ~ (e < last) /\ e # last
        BY <1>3, <1>4, <3>1, <3>2
      <3>4. LedgerOf(e) = tip
        <4>1. last \in Nat /\ last <= e /\ LedgerOf(e) \in 0 .. tip
          BY <1>1, <1>5, <3>2, <3>3
        <4>2. LedgerOf(last) <= LedgerOf(e)
          <5>1. LedgerOf(e) \in Nat /\ e < FirstOf(LedgerOf(e) + 1)
                /\ FirstOf(LedgerOf(e) + 1) \in Nat
            BY <3>2, Division, FirstOfType
          <5>2. last < FirstOf(LedgerOf(e) + 1)
            BY <3>2, <4>1, <5>1
          <5> QED BY <4>1, <5>1, <5>2, LedgerIsAtMost
        <4> QED BY <1>1, <2>1, <4>1, <4>2
      <3>5. tip \in Torn(rows)
        BY <2>1, <3>2, <3>4 DEF Torn, last
      <3> QED BY <3>4, <3>5
    <2> QED BY <1>7, <2>2 DEF CaughtUp
  <1>9. PageKept(page, seen, chain, tip, tears)
    BY <1>5, <1>6, <1>7, <1>8 DEF PageKept
  <1>10. page \in Pages
    <2>1. Max(rows) \in Nat
      BY <1>5 DEF last
    <2> QED BY <1>1, <1>2, <1>5, <2>1 DEF Pages, Cursors, Sources
  <1> QED BY <1>2, <1>5, <1>9, <1>10 DEF page, seen

\* A torn ledger is one the chain has closed.
LEMMA TearsAreClosed ==
  ASSUME SyncInv, NEW rows, rows \subseteq chain, Max(rows) \in rows
  PROVE  torn \cup Torn(rows) \subseteq StartLedger .. tip
PROOF
  <1> DEFINE last == Max(rows)
  <1>1. last \in Nat /\ FirstOf(StartLedger) <= last /\ LedgerOf(last) \in 0 .. tip
        /\ torn \subseteq StartLedger .. tip /\ StartLedger \in Nat /\ StartLedger >= 1 /\ tip \in Nat
    BY ChainFacts, SyncAssumption DEF SyncInv, TypeOK
  <1> HIDE DEF last
  <1>2. StartLedger <= LedgerOf(last)
    <2>1. StartLedger - 1 \in Nat /\ StartLedger - 1 + 1 = StartLedger /\ FirstOf(StartLedger) \in Nat
      BY <1>1, FirstOfType
    <2>2. FirstOf(StartLedger - 1 + 1) = FirstOf(StartLedger)
      BY <2>1
    <2>3. ~ (LedgerOf(last) <= StartLedger - 1)
      BY <1>1, <2>1, <2>2, LedgerIsAtMost
    <2> QED BY <1>1, <2>3
  <1>3. \A l \in Torn(rows) : l = tip /\ l = LedgerOf(last)
    BY DEF Torn, last
  <1>4. ASSUME NEW l \in torn \cup Torn(rows)
        PROVE  l \in StartLedger .. tip
    BY <1>1, <1>2, <1>3, <1>4
  <1> QED BY <1>4

----------------------------------------------------------------------------
(* The steps. *)

\* Nothing is stored or recorded to begin with.
LEMMA SyncBegins == Init => SyncInv
PROOF
  <1> SUFFICES ASSUME Init PROVE SyncInv
    OBVIOUS
  <1>1. /\ StartLedger \in Nat /\ MaxLedger \in Nat /\ StartLedger >= 1 /\ StartLedger <= MaxLedger
        /\ tip = StartLedger - 1 /\ chain = {} /\ table = {} /\ raw = {} /\ derived = {}
        /\ torn = {}
        /\ meta = [resume |-> 0, full |-> 0, cursor |-> NoCursor]
        /\ task = [t \in Tasks |-> Closed]
    BY SyncAssumption DEF Init, Api!Init
  <1>2. NoCursor \in Cursors /\ NoCursor.at = 0 /\ NoCursor.source = "none"
    BY DEF NoCursor, Cursor, Cursors
  <1>3. Closed \in Syncs /\ Closed.phase = "off"
    BY <1>1, <1>2 DEF Closed, Syncs, Phases, Sources, NoPage, Page, Pages
  <1>4. TypeOK
    BY <1>1, <1>2, <1>3 DEF TypeOK
  <1>5. ChainBelow /\ TableInOrder
    BY <1>1 DEF ChainBelow, TableInOrder, Api!Unbroken
  <1>6. MetaKept
    <2>1. FirstOf(0) = 0 /\ FirstOf(tip + 1) \in Nat /\ tip \in Nat
      BY <1>1, FirstOfType, WidthAssumption DEF FirstOf
    <2>2. /\ meta.resume = 0 /\ meta.full = 0 /\ Reach(meta.cursor) = 0
      BY <1>1, <1>2 DEF Reach
    <2> QED BY <1>1, <2>1, <2>2 DEF MetaKept, Kept, CaughtUp
  <1>7. TasksKept
    BY <1>1, <1>3 DEF TasksKept, SyncKept
  <1> QED BY <1>4, <1>5, <1>6, <1>7 DEF SyncInv

\* A step of one sync that stores nothing, with what it records.
LEMMA SyncRecords ==
  ASSUME SyncInv, NEW t \in Tasks, NEW s \in Syncs,
         torn \subseteq torn', torn' \subseteq StartLedger .. tip,
         SyncKept(s, Events(raw), chain, tip, torn'),
         task' = [task EXCEPT ![t] = s], UNCHANGED <<tip, chain, table, raw, derived>>,
         meta' \in [resume : 0 .. tip, full : 0 .. tip, cursor : Cursors],
         Kept(FirstOf(meta'.resume), Events(raw), chain, tip),
         Kept(Reach(meta'.cursor), Events(raw), chain, tip),
         CaughtUp(meta'.full, Events(raw), chain, tip, torn')
  PROVE  SyncInv'
PROOF
  <1>1. task \in [Tasks -> Syncs] /\ task' \in [Tasks -> Syncs]
    BY DEF SyncInv, TypeOK
  <1>2. TypeOK'
    BY <1>1 DEF SyncInv, TypeOK
  <1>3. Events(raw)' = Events(raw)
    BY DEF Events
  <1>4. ChainBelow' /\ TableInOrder' /\ MetaKept'
    BY <1>3 DEF SyncInv, ChainBelow, TableInOrder, Api!Unbroken, MetaKept
  <1>5. ASSUME NEW u \in Tasks
        PROVE  SyncKept(task'[u], Events(raw), chain, tip, torn')
    <2>1. CASE u = t
      BY <1>1, <2>1
    <2>2. CASE u # t
      <3>1. SyncKept(task[u], Events(raw), chain, tip, torn) /\ task'[u] = task[u]
        BY <1>1, <2>2 DEF SyncInv, TasksKept
      <3>2. tip \in Nat /\ tip <= tip /\ chain \subseteq chain /\ Events(raw) \subseteq Events(raw)
            /\ \A e \in chain : e \in chain \/ (e \in Nat /\ e >= FirstOf(tip + 1))
        BY ChainFacts
      <3>3. PICK tears : tears = torn'
        OBVIOUS
      <3>4. SyncKept(task[u], Events(raw), chain, tip, tears)
        BY <3>1, <3>2, <3>3, SyncKeptGrows
      <3> QED BY <3>1, <3>3, <3>4
    <2> QED BY <2>1, <2>2
  <1>6. TasksKept'
    BY <1>3, <1>5 DEF TasksKept
  <1> QED BY <1>2, <1>4, <1>6 DEF SyncInv

\* ... and of one that records nothing either.
LEMMA SyncMoves ==
  ASSUME SyncInv, NEW t \in Tasks, NEW s \in Syncs, SyncKept(s, Events(raw), chain, tip, torn),
         task' = [task EXCEPT ![t] = s],
         UNCHANGED <<tip, chain, table, raw, derived, meta, torn>>
  PROVE  SyncInv'
PROOF
  <1>1. torn' = torn /\ torn \subseteq StartLedger .. tip
    BY DEF SyncInv, TypeOK
  <1> QED BY <1>1, SyncRecords DEF SyncInv, TypeOK, MetaKept

\* A sync that is not in a round keeps nothing.
LEMMA IdleKept ==
  ASSUME NEW s, s.phase \notin {"fetching", "saving", "saved"}, NEW seen, NEW events, NEW last
  PROVE  \A tears : SyncKept(s, seen, events, last, tears)
  BY DEF SyncKept

\* The parts of a sync.
LEMMA SyncParts ==
  ASSUME SyncInv, NEW t \in Tasks
  PROVE  /\ task[t] \in Syncs
         /\ task[t] = [phase |-> task[t].phase, source |-> task[t].source,
                       handedOff |-> task[t].handedOff, start |-> task[t].start,
                       cursor |-> task[t].cursor, page |-> task[t].page]
         /\ task[t].source \in Sources /\ task[t].start \in 0 .. MaxLedger
         /\ task[t].cursor \in Cursors /\ task[t].page \in Pages
         /\ task \in [Tasks -> Syncs]
         /\ Closed \in Syncs /\ NoPage \in Pages
         /\ SyncKept(task[t], Events(raw), chain, tip, torn)
PROOF
  <1>1. task \in [Tasks -> Syncs] /\ task[t] \in Syncs
    BY DEF SyncInv, TypeOK
  <1>2. NoPage \in Pages /\ NoCursor \in Cursors
    BY DEF NoPage, Page, Pages, NoCursor, Cursor, Cursors
  <1>3. Closed \in Syncs
    BY <1>2, SyncAssumption DEF Closed, Syncs, Phases, Sources
  <1> QED BY <1>1, <1>2, <1>3 DEF Syncs, SyncInv, TasksKept

\* A round that returns holds nothing.
LEMMA SyncLeaves ==
  ASSUME SyncInv, NEW t \in Tasks, NEW phase \in {"ready", "handoff"}, Leave(t, phase)
  PROVE  \E s \in Syncs : s.phase = phase /\ task' = [task EXCEPT ![t] = s]
PROOF
  <1> DEFINE s == [task[t] EXCEPT !.phase = phase, !.start = 0, !.cursor = NoCursor, !.page = NoPage]
  <1>1. /\ task \in [Tasks -> Syncs] /\ task[t] \in Syncs /\ NoPage \in Pages
        /\ NoCursor \in Cursors /\ 0 \in 0 .. MaxLedger
    <2>1. NoCursor \in Cursors
      BY DEF NoCursor, Cursor, Cursors
    <2>2. 0 \in 0 .. MaxLedger
      BY SyncAssumption
    <2> QED BY <2>1, <2>2, SyncParts
  <1>2. s \in Syncs /\ s.phase = phase
    BY <1>1 DEF Syncs, Phases
  <1>3. task' = [task EXCEPT ![t] = s]
    BY <1>1 DEF Leave
  <1> HIDE DEF s
  <1> QED BY <1>2, <1>3

\* catch_up between its rounds, and a sync that opens, closes or fails: they
\* hold no page and no cursor.
LEMMA BetweenRounds ==
  ASSUME SyncInv, NEW t \in Tasks,
         Open(t) \/ ProbeServed(t) \/ ProbeGap(t) \/ AskBootnode(t) \/ RoundFails(t) \/ Close(t)
  PROVE  SyncInv'
PROOF
  <1>1. /\ task[t] \in Syncs /\ task \in [Tasks -> Syncs]
        /\ Closed \in Syncs /\ NoPage \in Pages
    BY SyncParts
  <1>2. UNCHANGED <<tip, chain, table, raw, derived, meta, torn>>
    BY DEF Open, ProbeServed, ProbeGap, AskBootnode, RoundFails, Close
  <1>3. \E s \in Syncs : /\ s.phase \notin {"fetching", "saving", "saved"}
                         /\ task' = [task EXCEPT ![t] = s]
    <2>1. CASE Open(t)
      <3>1. [Closed EXCEPT !.phase = "probing"] \in Syncs
        BY <1>1 DEF Syncs, Phases
      <3>2. [Closed EXCEPT !.phase = "probing"].phase = "probing"
        BY DEF Closed
      <3> QED BY <2>1, <3>1, <3>2 DEF Open
    <2>2. CASE ProbeServed(t)
      <3> DEFINE s == [task[t] EXCEPT !.phase = "ready", !.source = "rpc"]
      <3>1. s \in Syncs /\ s.phase = "ready"
        BY <1>1 DEF Syncs, Phases, Sources
      <3>2. task' = [task EXCEPT ![t] = s]
        BY <1>1, <2>2 DEF ProbeServed
      <3> QED BY <3>1, <3>2
    <2>3. CASE ProbeGap(t)
      <3>1. PICK p \in {"stranded", "clearing"} : Goto(t, p)
        BY <2>3 DEF ProbeGap
      <3> DEFINE s == [task[t] EXCEPT !.phase = p]
      <3>2. s \in Syncs /\ s.phase = p
        BY <1>1 DEF Syncs, Phases
      <3>3. task' = [task EXCEPT ![t] = s]
        BY <1>1, <3>1 DEF Goto
      <3> QED BY <3>2, <3>3
    <2>4. CASE AskBootnode(t)
      <3>1. CASE task' = [task EXCEPT ![t].phase = "ready", ![t].source = "bootnode"]
        <4> DEFINE s == [task[t] EXCEPT !.phase = "ready", !.source = "bootnode"]
        <4>1. s \in Syncs /\ s.phase = "ready"
          BY <1>1 DEF Syncs, Phases, Sources
        <4>2. task' = [task EXCEPT ![t] = s]
          BY <1>1, <3>1
        <4> QED BY <4>1, <4>2
      <3>2. CASE ResumeOnRpc(t)
        <4> DEFINE s == [Closed EXCEPT !.phase = "probing", !.handedOff = TRUE]
        <4>1. s \in Syncs /\ s.phase = "probing"
          BY <1>1 DEF Syncs, Phases
        <4> QED BY <3>2, <4>1 DEF ResumeOnRpc
      <3> QED BY <2>4, <3>1, <3>2 DEF AskBootnode
    <2>5. CASE RoundFails(t)
      <3>1. Leave(t, "ready")
        BY <2>5 DEF RoundFails
      <3> QED BY <3>1, SyncLeaves
    <2>6. CASE Close(t)
      <3>1. Closed.phase = "off"
        BY DEF Closed
      <3> QED BY <1>1, <2>6, <3>1 DEF Close
    <2> QED BY <2>1, <2>2, <2>3, <2>4, <2>5, <2>6
  <1> QED BY <1>2, <1>3, IdleKept, SyncMoves

\* A round begins at the ledger to resume from, or the newest, and at the cursor.
LEMMA RoundBegins ==
  ASSUME SyncInv, NEW t \in Tasks, BeginRound(t)
  PROVE  SyncInv'
PROOF
  <1> DEFINE start == Min({Probed, tip})
             s == [task[t] EXCEPT !.phase = "fetching", !.cursor = meta.cursor, !.start = start]
  <1>1. /\ tip \in Nat /\ tip <= MaxLedger /\ MaxLedger \in Nat /\ chain \subseteq Nat
        /\ meta.resume \in Nat /\ meta.cursor \in Cursors
        /\ StartLedger \in Nat
        /\ \A e \in chain : FirstOf(StartLedger) <= e
    BY ChainFacts, SyncAssumption
  <1>2. Probed \in Nat
    BY <1>1 DEF Probed
  <1>3. start \in 0 .. tip /\ start <= Probed
    <2>0. Probed \in Int /\ tip \in Int
      BY <1>1, <1>2
    <2>1. start \in {Probed, tip} /\ start <= Probed /\ start <= tip
      BY <2>0, SmallerOfTwo
    <2> HIDE DEF start
    <2> QED BY <1>1, <1>2, <2>1
  <1> HIDE DEF start
  <1>4. /\ FirstOf(start) \in Nat /\ FirstOf(start) <= FirstOf(Probed)
        /\ FirstOf(start) <= FirstOf(tip + 1)
        /\ FirstOf(tip + 1) \in Nat /\ FirstOf(Probed) \in Nat
    <2>1. start \in Nat /\ tip + 1 \in Nat /\ start <= tip + 1
      BY <1>1, <1>3
    <2>2. FirstOf(start) \in Nat /\ FirstOf(tip + 1) \in Nat /\ FirstOf(Probed) \in Nat
      BY <1>2, <2>1, FirstOfType
    <2>3. FirstOf(start) <= FirstOf(Probed)
      BY <1>2, <1>3, <2>1, FirstOfMonotone
    <2>4. FirstOf(start) <= FirstOf(tip + 1)
      BY <2>1, FirstOfMonotone
    <2> QED BY <2>2, <2>3, <2>4
  <1>5. Kept(FirstOf(start), Events(raw), chain, tip)
    <2>1. CASE Probed = meta.resume
      <3>1. Kept(FirstOf(Probed), Events(raw), chain, tip)
        BY <2>1 DEF SyncInv, MetaKept
      <3> QED BY <1>1, <1>4, <3>1, KeptBefore
    <2>2. CASE Probed = StartLedger
      <3>1. ASSUME NEW e \in chain, e < FirstOf(start)
            PROVE  FALSE
        <4>1. e \in Nat /\ FirstOf(Probed) <= e
          BY <1>1, <2>2
        <4> QED BY <1>4, <3>1, <4>1
      <3> QED BY <1>4, <3>1 DEF Kept
    <2> QED BY <2>1, <2>2 DEF Probed
  <1>6. Kept(Reach(meta.cursor), Events(raw), chain, tip)
    BY DEF SyncInv, MetaKept
  <1>7. /\ s \in Syncs /\ s.phase = "fetching" /\ s.start = start /\ s.cursor = meta.cursor
    <2>0. task[t] \in Syncs
      BY SyncParts
    <2>1. task[t] \in Syncs /\ start \in 0 .. MaxLedger
      BY <1>1, <1>3, <2>0
    <2> QED BY <1>1, <2>1 DEF Syncs, Phases
  <1>8. task' = [task EXCEPT ![t] = s]
    <2>1. task \in [Tasks -> Syncs]
      BY SyncParts
    <2> QED BY <2>1 DEF BeginRound, start
  <1>9. UNCHANGED <<tip, chain, table, raw, derived, meta, torn>>
    BY DEF BeginRound
  <1> HIDE DEF s
  <1>10. SyncKept(s, Events(raw), chain, tip, torn)
    BY <1>5, <1>6, <1>7 DEF SyncKept
  <1> QED BY <1>7, <1>8, <1>9, <1>10, SyncMoves

\* clear_indexing_cursors, before the bootnode is asked and after its handoff.
LEMMA CursorsCleared ==
  ASSUME SyncInv, NEW t \in Tasks, ClearCursors(t) \/ TakeHandoff(t)
  PROVE  SyncInv'
PROOF
  <1>1. /\ task[t] \in Syncs /\ task \in [Tasks -> Syncs] /\ Closed \in Syncs
    BY SyncParts
  <1>2. UNCHANGED <<tip, chain, table, raw, derived, torn>> /\ meta' = [meta EXCEPT !.cursor = NoCursor]
    BY DEF ClearCursors, TakeHandoff
  <1>3. \E s \in Syncs : /\ s.phase \notin {"fetching", "saving", "saved"}
                         /\ task' = [task EXCEPT ![t] = s]
    <2>1. CASE ClearCursors(t)
      <3> DEFINE s == [task[t] EXCEPT !.phase = "asking"]
      <3>1. s \in Syncs /\ s.phase = "asking"
        BY <1>1 DEF Syncs, Phases
      <3>2. task' = [task EXCEPT ![t] = s]
        BY <1>1, <2>1 DEF ClearCursors, Goto
      <3> QED BY <3>1, <3>2
    <2>2. CASE TakeHandoff(t)
      <3> DEFINE s == [Closed EXCEPT !.phase = "probing", !.handedOff = TRUE]
      <3>1. s \in Syncs /\ s.phase = "probing"
        BY <1>1 DEF Syncs, Phases
      <3> QED BY <2>2, <3>1 DEF TakeHandoff, ResumeOnRpc
    <2> QED BY <2>1, <2>2
  <1>4. /\ meta' \in [resume : 0 .. tip, full : 0 .. tip, cursor : Cursors]
        /\ meta'.resume = meta.resume /\ meta'.full = meta.full /\ Reach(meta'.cursor) = 0
    <2>1. NoCursor \in Cursors /\ Reach(NoCursor) = 0
      BY DEF NoCursor, Cursor, Cursors, Reach
    <2> QED BY <1>2, <2>1 DEF SyncInv, TypeOK
  <1>5. Kept(0, Events(raw), chain, tip)
    <2>1. FirstOf(tip + 1) \in Nat /\ chain \subseteq Nat
      BY ChainFacts
    <2> QED BY <2>1 DEF Kept
  <1>6. torn' = torn /\ torn \subseteq StartLedger .. tip
    BY <1>2 DEF SyncInv, TypeOK
  <1> QED BY <1>2, <1>3, <1>4, <1>5, <1>6, IdleKept, SyncRecords DEF SyncInv, MetaKept

\* A page arrives that keeps what it says.
LEMMA PageArrives ==
  ASSUME SyncInv, NEW t \in Tasks, task[t].phase = "fetching",
         NEW page \in Pages, page.events \subseteq chain,
         torn \subseteq torn', torn' \subseteq StartLedger .. tip,
         PageKept(page, Events(raw) \cup page.events, chain, tip, torn'),
         Arrives(t, page), UNCHANGED <<tip, chain, table, raw, derived, meta>>
  PROVE  SyncInv'
PROOF
  <1> DEFINE s == [task[t] EXCEPT !.phase = "saving", !.cursor = NoCursor, !.page = page]
  <1>1. task \in [Tasks -> Syncs] /\ task[t] \in Syncs /\ NoCursor \in Cursors
        /\ SyncKept(task[t], Events(raw), chain, tip, torn)
    BY SyncParts DEF NoCursor, Cursor, Cursors
  <1>2. s \in Syncs /\ s.phase = "saving" /\ s.page = page /\ s.start = task[t].start
    BY <1>1 DEF Syncs, Phases
  <1>3. task' = [task EXCEPT ![t] = s]
    BY <1>1 DEF Arrives
  <1> HIDE DEF s
  <1>4. SyncKept(s, Events(raw), chain, tip, torn')
    BY <1>1, <1>2 DEF SyncKept
  <1>5. /\ meta' \in [resume : 0 .. tip, full : 0 .. tip, cursor : Cursors]
        /\ Kept(FirstOf(meta'.resume), Events(raw), chain, tip)
        /\ Kept(Reach(meta'.cursor), Events(raw), chain, tip)
        /\ CaughtUp(meta'.full, Events(raw), chain, tip, torn)
    BY DEF SyncInv, TypeOK, MetaKept
  <1>6. CaughtUp(meta'.full, Events(raw), chain, tip, torn')
    BY <1>5 DEF CaughtUp
  <1> QED BY <1>2, <1>3, <1>4, <1>5, <1>6, SyncRecords

\* Nothing new, or a handoff: the round is left without a page.
LEMMA RoundLeft ==
  ASSUME SyncInv, NEW t \in Tasks, NEW phase \in {"ready", "handoff"}, Leave(t, phase),
         UNCHANGED <<tip, chain, table, raw, derived, meta, torn>>
  PROVE  SyncInv'
PROOF
  <1>1. PICK s \in Syncs : s.phase = phase /\ task' = [task EXCEPT ![t] = s]
    BY SyncLeaves
  <1> QED BY <1>1, IdleKept, SyncMoves

\* fetch_contract_events on the RPC.
LEMMA RpcFetched ==
  ASSUME SyncInv, ScansItsWindow, NEW t \in Tasks, FetchRpc(t)
  PROVE  SyncInv'
PROOF
  <1> DEFINE from == IF task[t].cursor = NoCursor THEN FirstOf(task[t].start)
                     ELSE task[t].cursor.at
  <1>1. UNCHANGED <<tip, chain, table, raw, derived, meta, torn>> /\ task[t].phase = "fetching"
        /\ task[t].cursor.source # "bootnode"
    BY DEF FetchRpc
  <1>2. tip \in Nat /\ EventsLag \in Nat
    BY ChainFacts, SyncAssumption
  <1>3. PICK newest \in {l \in tip - EventsLag .. tip : l >= 0} :
          \/ LedgerOf(from) \in Oldest .. newest /\ Arrives(t, RpcPage(from, newest))
          \/ Leave(t, "ready")
    BY DEF FetchRpc
  <1>4. newest \in 0 .. tip
    BY <1>2
  <1>5. Kept(from, Events(raw), chain, tip)
    BY <1>1, SyncParts DEF SyncKept, Reach
  <1> HIDE DEF from
  <1>6. CASE LedgerOf(from) \in Oldest .. newest /\ Arrives(t, RpcPage(from, newest))
    <2> DEFINE page == RpcPage(from, newest)
    <2>1. /\ page \in Pages /\ page.events \subseteq chain
          /\ PageKept(page, Events(raw) \cup page.events, chain, tip, torn)
      BY <1>4, <1>5, <1>6, RpcPageKept
    <2>2. Arrives(t, page) /\ torn' = torn /\ torn \subseteq StartLedger .. tip
      BY <1>1, <1>6 DEF SyncInv, TypeOK
    <2> HIDE DEF page
    <2> QED BY <1>1, <2>1, <2>2, PageArrives
  <1>7. CASE Leave(t, "ready")
    BY <1>1, <1>7, RoundLeft
  <1> QED BY <1>3, <1>6, <1>7

\* The rows the bootnode serves a sync are the table's first from a position that is kept.
LEMMA BootnodeServes ==
  ASSUME SyncInv, NEW t \in Tasks, task[t].phase = "fetching", BootnodeAnswer(t).kind = "page"
  PROVE  \E from, ahead :
           /\ Kept(from, Events(raw), chain, tip)
           /\ IsFrom(ahead, from, table)
           /\ BootnodeAnswer(t).rows # {} /\ BootnodeAnswer(t).rows = FirstRows(ahead, PageSize)
PROOF
  <1> DEFINE answer == BootnodeAnswer(t)
             cursor == task[t].cursor
  <1>1. cursor \in Cursors /\ SyncKept(task[t], Events(raw), chain, tip, torn)
    BY SyncParts
  <1>2. table \subseteq Nat
    BY ChainFacts
  <1>3. CASE cursor.source = "none"
    <2> DEFINE from == FirstOf(task[t].start)
               ahead == {e \in table : e >= from}
               rows == FirstRows(ahead, PageSize)
    <2>1. answer = AnswerRows(table, rows)
      BY <1>3 DEF BootnodeAnswer, FromLedger
    <2>2. rows # {} /\ answer.rows = rows
      BY <2>1 DEF AnswerRows, Served, Handoff, Miss
    <2>3. Kept(from, Events(raw), chain, tip)
      BY <1>1 DEF SyncKept
    <2>4. IsFrom(ahead, from, table)
      <3>1. from \in Nat
        BY <2>3 DEF Kept
      <3> QED BY <1>2, <3>1 DEF IsFrom
    <2>5. rows = FirstRows(ahead, PageSize)
      OBVIOUS
    <2> HIDE DEF rows, ahead, from, answer
    <2>6. answer.rows # {} /\ answer.rows = FirstRows(ahead, PageSize)
      BY <2>2, <2>5
    <2> QED BY <2>3, <2>4, <2>6 DEF answer
  <1>4. CASE cursor.source = "bootnode"
    <2> DEFINE ahead == {e \in table : e > cursor.at}
               rows == FirstRows(ahead, PageSize)
               from == cursor.at + 1
    <2>1. answer = IF cursor.at \in table THEN AnswerRows(table, rows) ELSE Miss
      BY <1>4 DEF BootnodeAnswer, AfterRow
    <2>2. rows # {} /\ answer.rows = rows
      BY <2>1 DEF AnswerRows, Served, Handoff, Miss
    <2>3. Kept(from, Events(raw), chain, tip)
      BY <1>1, <1>4 DEF SyncKept, Reach
    <2>4. IsFrom(ahead, from, table)
      <3>1. cursor.at \in Nat
        BY <1>1 DEF Cursors
      <3> QED BY <1>2, <3>1 DEF IsFrom
    <2>5. rows = FirstRows(ahead, PageSize)
      OBVIOUS
    <2> HIDE DEF rows, ahead, from, answer
    <2>6. answer.rows # {} /\ answer.rows = FirstRows(ahead, PageSize)
      BY <2>2, <2>5
    <2> QED BY <2>3, <2>4, <2>6 DEF answer
  <1>5. CASE cursor.source = "rpc"
    BY <1>5 DEF BootnodeAnswer, Miss
  <1> QED BY <1>1, <1>3, <1>4, <1>5 DEF Cursors, Sources

\* ... and on the bootnode.
LEMMA BootnodeFetched ==
  ASSUME SyncInv, NEW t \in Tasks, FetchBootnode(t)
  PROVE  SyncInv'
PROOF
  <1> DEFINE answer == BootnodeAnswer(t)
  <1>1. UNCHANGED <<tip, chain, table, raw, derived, meta>> /\ task[t].phase = "fetching"
    BY DEF FetchBootnode
  <1>2. CASE /\ answer.kind = "page" /\ Arrives(t, BootnodePage(answer.rows))
             /\ torn' = torn \cup Torn(answer.rows)
    <2>1. PICK from, ahead :
            /\ Kept(from, Events(raw), chain, tip)
            /\ IsFrom(ahead, from, table)
            /\ answer.rows # {} /\ answer.rows = FirstRows(ahead, PageSize)
      BY <1>1, <1>2, BootnodeServes
    <2> DEFINE page == BootnodePage(answer.rows)
    <2>2. /\ page \in Pages /\ page.events \subseteq chain
          /\ PageKept(page, Events(raw) \cup page.events, chain, tip, torn')
      <3>1. Torn(answer.rows) \subseteq torn'
        BY <1>2
      <3> HIDE DEF answer
      <3> QED BY <2>1, <3>1, BootnodePageKept
    <2>3. torn \subseteq torn' /\ torn' \subseteq StartLedger .. tip
      <3>1. page.events = answer.rows
        BY DEF BootnodePage, Page
      <3>2. Max(answer.rows) \in answer.rows
        <4> HIDE DEF answer, page
        <4>1. table \subseteq chain /\ Api!Unbroken(table)
          BY ChainFacts DEF SyncInv, TableInOrder
        <4> QED BY <2>1, <4>1, RowsKept
      <3> HIDE DEF answer, page
      <3> QED BY <1>2, <2>2, <3>1, <3>2, TearsAreClosed
    <2>4. Arrives(t, page)
      BY <1>2
    <2> HIDE DEF page
    <2> QED BY <1>1, <2>2, <2>3, <2>4, PageArrives
  <1>3. CASE Leave(t, "handoff") /\ UNCHANGED torn
    BY <1>1, <1>3, RoundLeft
  <1> QED BY <1>2, <1>3 DEF FetchBootnode

\* save_events_batch: what the page said is now stored, and nobody loses by it.
LEMMA EventsSaved ==
  ASSUME SyncInv, NEW t \in Tasks, SaveEvents(t)
  PROVE  SyncInv'
PROOF
  <1> DEFINE s == [task[t] EXCEPT !.phase = "saved"]
             page == task[t].page
             seen == Events(raw)
             more == seen \cup page.events
  <1>1. /\ task \in [Tasks -> Syncs] /\ task[t] \in Syncs /\ task[t].source \in Sources
        /\ SyncKept(task[t], seen, chain, tip, torn) /\ task[t].phase = "saving"
        /\ tip \in Nat
    BY SyncParts, ChainFacts DEF SaveEvents
  <1>2. /\ UNCHANGED <<tip, chain, table, derived, meta, torn>>
        /\ raw' = raw \cup (page.events \X {task[t].source})
    BY DEF SaveEvents
  <1>3. s \in Syncs /\ s.phase = "saved" /\ s.page = page /\ s.start = task[t].start
    BY <1>1 DEF Syncs, Phases
  <1>4. task' = [task EXCEPT ![t] = s]
    BY <1>1 DEF SaveEvents, Goto
  <1>5. page.events \subseteq chain
    BY <1>1 DEF SyncKept, PageKept
  <1>6. Events(raw') = more
    <2>1. \A r \in page.events \X {task[t].source} : r[1] \in page.events
      OBVIOUS
    <2>2. \A e \in page.events : \E r \in page.events \X {task[t].source} : r[1] = e
      <3> TAKE e \in page.events
      <3> WITNESS <<e, task[t].source>> \in page.events \X {task[t].source}
      <3> QED OBVIOUS
    <2> QED BY <1>2, <2>1, <2>2 DEF Events
  <1> HIDE DEF s, page
  <1>7. seen \subseteq more /\ \A e \in chain : e \in chain
    OBVIOUS
  <1>8. TypeOK'
    <2>1. raw' \subseteq chain \X Sources /\ derived \subseteq raw'
      BY <1>1, <1>2, <1>5 DEF SyncInv, TypeOK
    <2>2. task' \in [Tasks -> Syncs]
      BY <1>1, <1>3, <1>4
    <2> QED BY <1>2, <2>1, <2>2 DEF SyncInv, TypeOK
  <1>9. ChainBelow' /\ TableInOrder'
    BY <1>2 DEF SyncInv, ChainBelow, TableInOrder, Api!Unbroken
  <1>10. /\ \A pos : Kept(pos, seen, chain, tip) => Kept(pos, more, chain, tip)
         /\ \A ledger : CaughtUp(ledger, seen, chain, tip, torn) => CaughtUp(ledger, more, chain, tip, torn)
    <2>1. /\ tip \in Nat /\ tip <= tip /\ torn \subseteq torn
          /\ \A e \in chain : e \in chain \/ (e \in Nat /\ e >= FirstOf(tip + 1))
      BY <1>1
    <2> HIDE DEF seen, more
    <2>2. \A pos : Kept(pos, seen, chain, tip) => Kept(pos, more, chain, tip)
      BY <1>7, <2>1, KeptGrows
    <2>3. \A ledger : CaughtUp(ledger, seen, chain, tip, torn) => CaughtUp(ledger, more, chain, tip, torn)
      BY <1>7, <2>1, CaughtUpGrows
    <2> QED BY <2>2, <2>3
  <1> HIDE DEF seen, more
  <1>11. MetaKept'
    BY <1>2, <1>6, <1>10 DEF SyncInv, MetaKept, seen
  <1>12. SyncKept(s, more, chain, tip, torn)
    <2>1. PageKept(page, more, chain, tip, torn)
      BY <1>1 DEF SyncKept, more, page
    <2>2. more \cup page.events = more
      BY DEF more
    <2> QED BY <1>1, <1>3, <1>10, <2>1, <2>2 DEF SyncKept, more
  <1>13. ASSUME NEW u \in Tasks
         PROVE  SyncKept(task'[u], more, chain, tip, torn)
    <2>1. CASE u = t
      BY <1>1, <1>4, <1>12, <2>1
    <2>2. CASE u # t
      <3>1. SyncKept(task[u], seen, chain, tip, torn) /\ task'[u] = task[u]
        BY <1>1, <1>4, <2>2 DEF SyncInv, TasksKept, seen
      <3> QED BY <1>1, <1>7, <3>1, SyncKeptGrows
    <2> QED BY <2>1, <2>2
  <1>14. TasksKept'
    BY <1>2, <1>6, <1>13 DEF TasksKept
  <1> QED BY <1>8, <1>9, <1>11, <1>14 DEF SyncInv

\* What save_sync_progress leaves of the sync: the page's cursor, for the next page
\* of the round, or nothing.
LEMMA ProgressLeaves ==
  ASSUME SyncInv, NEW t \in Tasks, SaveProgress(t)
  PROVE  \E s \in Syncs : /\ task' = [task EXCEPT ![t] = s]
                          /\ \/ s.phase = "ready"
                             \/ /\ s.phase = "fetching" /\ s.start = task[t].start
                                /\ s.cursor = task[t].page.next
PROOF
  <1> DEFINE page == task[t].page
  <1>1. task \in [Tasks -> Syncs] /\ task[t] \in Syncs /\ page \in Pages /\ NoPage \in Pages
    BY SyncParts
  <1>2. CASE task' = [task EXCEPT ![t].phase = "fetching", ![t].cursor = page.next,
                                  ![t].page = NoPage]
    <2> DEFINE s == [task[t] EXCEPT !.phase = "fetching", !.cursor = page.next, !.page = NoPage]
    <2>1. page.next \in Cursors
      BY <1>1 DEF Pages
    <2>2. s \in Syncs /\ s.phase = "fetching" /\ s.cursor = page.next /\ s.start = task[t].start
      BY <1>1, <2>1 DEF Syncs, Phases
    <2>3. task' = [task EXCEPT ![t] = s]
      BY <1>1, <1>2
    <2> HIDE DEF s
    <2> QED BY <2>2, <2>3
  <1>3. CASE Leave(t, "ready")
    BY <1>3, SyncLeaves
  <1> QED BY <1>2, <1>3 DEF SaveProgress

\* save_sync_progress: the metadata takes over what the page, now stored, kept.
LEMMA ProgressSaved ==
  ASSUME SyncInv, NEW t \in Tasks, SaveProgress(t)
  PROVE  SyncInv'
PROOF
  <1> DEFINE page == task[t].page
  <1>1. /\ task[t].phase = "saved" /\ page \in Pages
        /\ SyncKept(task[t], Events(raw), chain, tip, torn)
    BY SyncParts DEF SaveProgress
  <1>2. /\ PageKept(page, Events(raw), chain, tip, torn)
        /\ Kept(FirstOf(task[t].start), Events(raw), chain, tip)
    <2>1. Events(raw) \cup page.events = Events(raw)
      BY <1>1 DEF SyncKept
    <2> QED BY <1>1, <2>1 DEF SyncKept
  <1>3. /\ UNCHANGED <<tip, chain, table, raw, derived, torn>>
        /\ meta' = [resume |-> Progress(page), cursor |-> page.next,
                    full |-> IF FullyIndexed(page) THEN Progress(page) ELSE meta.full]
    BY DEF SaveProgress
  <1>4. PICK s \in Syncs : /\ task' = [task EXCEPT ![t] = s]
                           /\ \/ s.phase = "ready"
                              \/ /\ s.phase = "fetching" /\ s.start = task[t].start
                                 /\ s.cursor = page.next
    BY ProgressLeaves
  <1>5. page.next \in Cursors
    BY <1>1 DEF Pages
  <1> HIDE DEF page
  <1>6. SyncKept(s, Events(raw), chain, tip, torn)
    BY <1>2, <1>4 DEF SyncKept, PageKept
  <1>7. /\ meta' \in [resume : 0 .. tip, full : 0 .. tip, cursor : Cursors]
        /\ meta'.resume = Progress(page) /\ meta'.cursor = page.next
        /\ meta'.full = IF FullyIndexed(page) THEN Progress(page) ELSE meta.full
    <2>1. Progress(page) \in 0 .. tip /\ meta.full \in 0 .. tip
      BY <1>2, ChainFacts DEF PageKept
    <2> QED BY <1>3, <1>5, <2>1
  <1>8. Kept(FirstOf(meta'.resume), Events(raw), chain, tip)
    BY <1>2, <1>7 DEF PageKept
  <1>9. Kept(Reach(meta'.cursor), Events(raw), chain, tip)
    BY <1>2, <1>7 DEF PageKept
  <1>10. CaughtUp(meta'.full, Events(raw), chain, tip, torn)
    <2>1. CASE FullyIndexed(page)
      BY <1>2, <1>7, <2>1 DEF PageKept
    <2>2. CASE ~ FullyIndexed(page)
      BY <1>7, <2>2 DEF SyncInv, MetaKept
    <2> QED BY <2>1, <2>2
  <1>11. torn' = torn /\ torn \subseteq StartLedger .. tip
    BY <1>3 DEF SyncInv, TypeOK
  <1> QED BY <1>3, <1>4, <1>6, <1>7, <1>8, <1>9, <1>10, <1>11, SyncRecords

\* A ledger that closes adds events of its own.
LEMMA EventsOfALedger ==
  ASSUME tip \in Nat, CloseLedger
  PROVE  \A e \in chain' : \/ e \in chain
                           \/ /\ e \in Nat /\ e >= FirstOf(tip + 1)
                              /\ e < FirstOf(tip' + 1)
PROOF
  <1>1. tip' = tip + 1 /\ tip + 1 \in Nat
    BY DEF CloseLedger
  <1>2. FirstOf(tip + 1) \in Nat /\ FirstOf(tip' + 1) = FirstOf(tip + 1) + Width
    BY <1>1, FirstOfType
  <1>3. PICK n \in 0 .. Width - 1 : chain' = chain \cup {FirstOf(tip + 1) + i : i \in 0 .. n - 1}
    BY DEF CloseLedger
  <1>4. ASSUME NEW i \in 0 .. n - 1
        PROVE  /\ FirstOf(tip + 1) + i \in Nat /\ FirstOf(tip + 1) + i >= FirstOf(tip + 1)
               /\ FirstOf(tip + 1) + i < FirstOf(tip' + 1)
    <2>1. i \in Nat /\ i < Width
      BY WidthAssumption
    <2> QED BY <1>2, <2>1, WidthAssumption
  <1> QED BY <1>3, <1>4

\* A ledger closes: its events are past everything that was promised.
LEMMA LedgerCloses ==
  ASSUME SyncInv, CloseLedger
  PROVE  SyncInv'
PROOF
  <1>1. /\ tip \in Nat /\ tip < MaxLedger /\ tip' = tip + 1 /\ MaxLedger \in Nat
        /\ StartLedger \in Nat /\ StartLedger - 1 <= tip
        /\ chain \subseteq Nat /\ chain \subseteq Positions
        /\ UNCHANGED <<table, raw, derived, meta, task, torn>> /\ table \subseteq chain
    BY ChainFacts, SyncAssumption DEF CloseLedger, SyncInv, TypeOK
  <1>2. PICK n \in 0 .. Width - 1 : chain' = chain \cup {FirstOf(tip + 1) + i : i \in 0 .. n - 1}
    BY DEF CloseLedger
  <1>3. /\ FirstOf(tip + 1) \in Nat /\ FirstOf(tip' + 1) = FirstOf(tip + 1) + Width
        /\ FirstOf(tip' + 1) \in Nat
        /\ EndOf(tip') = FirstOf(tip' + 1) - 1
        /\ FirstOf(StartLedger) \in Nat /\ FirstOf(StartLedger) <= FirstOf(tip + 1)
        /\ EndOf(MaxLedger) \in Nat /\ FirstOf(tip' + 1) - 1 <= EndOf(MaxLedger)
    <2> DEFINE next == tip + 1
    <2>0. next \in Nat
      BY <1>1
    <2> HIDE DEF next
    <2>1. /\ FirstOf(next) \in Nat /\ FirstOf(next + 1) = FirstOf(next) + Width
          /\ EndOf(next) = FirstOf(next + 1) - 1
          /\ FirstOf(next + 1) \in Nat
      BY <2>0, FirstOfType, WidthAssumption
    <2>2. FirstOf(StartLedger) \in Nat /\ FirstOf(StartLedger) <= FirstOf(tip + 1)
      <3>1. StartLedger <= next
        BY <1>1 DEF next
      <3> QED BY <1>1, <2>0, <3>1, FirstOfType, FirstOfMonotone DEF next
    <2>3. /\ EndOf(MaxLedger) \in Nat /\ EndOf(MaxLedger) = FirstOf(MaxLedger + 1) - 1
          /\ FirstOf(MaxLedger + 1) \in Nat
      BY <1>1, FirstOfType
    <2>4. FirstOf(tip + 1 + 1) <= FirstOf(MaxLedger + 1)
      <3>1. tip + 1 + 1 \in Nat /\ MaxLedger + 1 \in Nat /\ tip + 1 + 1 <= MaxLedger + 1
        BY <1>1
      <3> QED BY <3>1, FirstOfMonotone
    <2> QED BY <1>1, <2>1, <2>2, <2>3, <2>4 DEF next
  <1>4. \A e \in chain' : \/ e \in chain
                          \/ /\ e \in Nat /\ e >= FirstOf(tip + 1)
                             /\ e < FirstOf(tip' + 1)
    BY <1>1, EventsOfALedger
  <1>5. chain' \subseteq Positions
    <2>1. ASSUME NEW e \in chain', e \notin chain
          PROVE  e \in FirstOf(StartLedger) .. EndOf(MaxLedger)
      <3>1. e \in Nat /\ e >= FirstOf(tip + 1) /\ e < FirstOf(tip' + 1)
        BY <1>4, <2>1
      <3> QED BY <1>3, <3>1
    <2> QED BY <1>1, <2>1 DEF Positions
  <1>6. TypeOK'
    <2>1. tip' \in StartLedger - 1 .. MaxLedger
      BY <1>1
    <2>2. table' \subseteq chain'
      BY <1>1, <1>2
    <2>6. torn' \subseteq StartLedger .. tip'
      BY <1>1 DEF SyncInv, TypeOK
    <2>3. raw' \subseteq chain' \X Sources /\ derived' \subseteq raw'
      BY <1>1, <1>2 DEF SyncInv, TypeOK
    <2>4. meta' \in [resume : 0 .. tip', full : 0 .. tip', cursor : Cursors]
      <3>1. 0 .. tip \subseteq 0 .. tip'
        BY <1>1
      <3>2. meta' \in [resume : 0 .. tip, full : 0 .. tip, cursor : Cursors]
        BY <1>1 DEF SyncInv, TypeOK
      <3> QED BY <3>1, <3>2
    <2>5. task' \in [Tasks -> Syncs]
      BY <1>1 DEF SyncInv, TypeOK
    <2> QED BY <1>5, <2>1, <2>2, <2>3, <2>4, <2>5, <2>6 DEF TypeOK
  <1>7. ChainBelow'
    <2>1. ASSUME NEW e \in chain'
          PROVE  e < FirstOf(tip' + 1)
      <3>1. CASE e \in chain
        <4>1. e \in Nat /\ e < FirstOf(tip + 1)
          BY <1>1, <3>1 DEF SyncInv, ChainBelow
        <4> QED BY <1>3, <4>1, WidthAssumption
      <3>2. CASE e \notin chain
        BY <1>4, <3>2
      <3> QED BY <3>1, <3>2
    <2> QED BY <2>1 DEF ChainBelow
  <1>8. /\ tip' \in Nat /\ tip <= tip' /\ chain \subseteq chain'
        /\ \A e \in chain' : e \in chain \/ (e \in Nat /\ e >= FirstOf(tip + 1))
    BY <1>1, <1>2, <1>4
  <1>9. Events(raw') = Events(raw)
    BY <1>1
  <1>10. /\ \A pos : Kept(pos, Events(raw), chain, tip) => Kept(pos, Events(raw), chain', tip')
         /\ \A ledger : CaughtUp(ledger, Events(raw), chain, tip, torn)
                          => CaughtUp(ledger, Events(raw), chain', tip', torn)
    BY <1>1, <1>8, KeptGrows, CaughtUpGrows
  <1>11. MetaKept'
    BY <1>1, <1>9, <1>10 DEF SyncInv, MetaKept
  <1>12. ASSUME NEW u \in Tasks
         PROVE  SyncKept(task[u], Events(raw), chain', tip', torn)
    <2>1. SyncKept(task[u], Events(raw), chain, tip, torn)
      BY DEF SyncInv, TasksKept
    <2> QED BY <1>1, <1>8, <2>1, SyncKeptGrows
  <1>13. TasksKept'
    BY <1>1, <1>9, <1>12 DEF TasksKept
  \* No event before one of the table's is among the new.
  <1>14. TableInOrder'
    <2>1. ASSUME NEW e \in table, NEW f \in chain', f < e
          PROVE  f \in table
      <3>1. e \in Nat /\ e < FirstOf(tip + 1)
        BY <1>1 DEF SyncInv, ChainBelow
      <3>2. f \in chain
        BY <1>3, <1>4, <2>1, <3>1
      <3> QED BY <2>1, <3>2 DEF SyncInv, TableInOrder, Api!Unbroken
    <2> QED BY <1>1, <2>1 DEF TableInOrder, Api!Unbroken
  <1> QED BY <1>6, <1>7, <1>11, <1>13, <1>14 DEF SyncInv

\* The archive and the processor disturb nobody.
LEMMA OthersKeep ==
  ASSUME SyncInv, Archive \/ Process \/ UNCHANGED vars
  PROVE  SyncInv'
PROOF
  <1>1. UNCHANGED <<tip, chain, raw, meta, task, torn>>
    BY DEF Archive, Process, vars, Api!Store
  <1>2. table' \subseteq chain /\ Api!Unbroken(table')
    <2>1. CASE Archive
      BY <2>1 DEF Archive, Api!Store
    <2>2. CASE Process \/ UNCHANGED vars
      BY <2>2 DEF Process, vars, SyncInv, TypeOK, TableInOrder
    <2> QED BY <2>1, <2>2
  <1>3. derived' \subseteq raw
    <2>1. CASE Process
      <3>1. PICK batch \in Batches : \E done \in SUBSET batch : \E rows \in Insertions(done) :
              derived' = derived \cup rows
        BY <2>1 DEF Process
      <3>2. batch \subseteq raw
        BY DEF Batches
      <3>3. PICK done \in SUBSET batch : \E rows \in Insertions(done) : derived' = derived \cup rows
        BY <3>1
      <3> QED BY <3>2, <3>3 DEF Insertions, SyncInv, TypeOK
    <2>2. CASE Archive \/ UNCHANGED vars
      BY <2>2 DEF Archive, vars, SyncInv, TypeOK
    <2> QED BY <2>1, <2>2
  <1>4. TypeOK'
    BY <1>1, <1>2, <1>3 DEF SyncInv, TypeOK
  <1>5. Events(raw') = Events(raw)
    BY <1>1
  <1>6. ChainBelow' /\ MetaKept' /\ TasksKept'
    BY <1>1, <1>5 DEF SyncInv, ChainBelow, MetaKept, TasksKept
  <1>7. TableInOrder'
    BY <1>1, <1>2 DEF TableInOrder, Api!Unbroken
  <1> QED BY <1>4, <1>6, <1>7 DEF SyncInv

\* Every step keeps every promise.
LEMMA StepsKeep == ScansItsWindow /\ SyncInv /\ [Next]_vars => SyncInv'
PROOF
  <1> SUFFICES ASSUME ScansItsWindow, SyncInv, [Next]_vars
               PROVE  SyncInv'
    OBVIOUS
  <1>1. CASE CloseLedger
    BY <1>1, LedgerCloses
  <1>2. CASE Archive \/ Process \/ UNCHANGED vars
    BY <1>2, OthersKeep
  <1>3. ASSUME NEW t \in Tasks,
               Open(t) \/ ProbeServed(t) \/ ProbeGap(t) \/ AskBootnode(t) \/ RoundFails(t) \/ Close(t)
        PROVE  SyncInv'
    BY <1>3, BetweenRounds
  <1>4. ASSUME NEW t \in Tasks, ClearCursors(t) \/ TakeHandoff(t)
        PROVE  SyncInv'
    BY <1>4, CursorsCleared
  <1>5. ASSUME NEW t \in Tasks, BeginRound(t)
        PROVE  SyncInv'
    BY <1>5, RoundBegins
  <1>6. ASSUME NEW t \in Tasks, FetchRpc(t)
        PROVE  SyncInv'
    BY <1>6, RpcFetched
  <1>7. ASSUME NEW t \in Tasks, FetchBootnode(t)
        PROVE  SyncInv'
    BY <1>7, BootnodeFetched
  <1>8. ASSUME NEW t \in Tasks, SaveEvents(t)
        PROVE  SyncInv'
    BY <1>8, EventsSaved
  <1>9. ASSUME NEW t \in Tasks, SaveProgress(t)
        PROVE  SyncInv'
    BY <1>9, ProgressSaved
  <1> QED BY <1>1, <1>2, <1>3, <1>4, <1>5, <1>6, <1>7, <1>8, <1>9 DEF Next

----------------------------------------------------------------------------
(***************************************************************************)
(* What the sync is promised of the API's table.  It is all of the archive *)
(* that is assumed here, and what the indexer implements (the theorem      *)
(* IndexerImplementsArchive).                                              *)
(***************************************************************************)

\* The chain grows by ledgers, the table by the archive, and by nothing else.
LEMMA OnlyTheArchiveChangesTheTable ==
  ASSUME [Next]_vars
  PROVE  CloseLedger \/ Archive \/ UNCHANGED <<tip, chain, table>>
PROOF
  <1>1. CASE Process \/ UNCHANGED vars
    BY <1>1 DEF Process, vars
  <1>2. ASSUME NEW t \in Tasks,
               \/ Open(t) \/ ProbeServed(t) \/ ProbeGap(t) \/ ClearCursors(t) \/ AskBootnode(t)
               \/ TakeHandoff(t) \/ BeginRound(t)
        PROVE  UNCHANGED <<tip, chain, table>>
    BY <1>2 DEF Open, ProbeServed, ProbeGap, ClearCursors, AskBootnode, TakeHandoff, BeginRound
  <1>3. ASSUME NEW t \in Tasks,
               \/ FetchRpc(t) \/ FetchBootnode(t) \/ SaveEvents(t) \/ SaveProgress(t)
               \/ RoundFails(t) \/ Close(t)
        PROVE  UNCHANGED <<tip, chain, table>>
    BY <1>3 DEF FetchRpc, FetchBootnode, SaveEvents, SaveProgress, RoundFails, Close
  <1> QED BY <1>1, <1>2, <1>3 DEF Next

\* The events are below the next ledger's first position.
EventsInOrder == tip \in Nat /\ chain \subseteq Nat /\ ChainBelow

\* The events of a new ledger come after those there are, whatever the syncs do.
LEMMA ChainStaysInOrder ==
  ASSUME EventsInOrder, [Next]_vars
  PROVE  EventsInOrder'
PROOF
  <1>1. CASE CloseLedger
    <2>1. tip' = tip + 1 /\ tip + 1 \in Nat
      BY <1>1 DEF CloseLedger, EventsInOrder
    <2>2. FirstOf(tip + 1) \in Nat /\ FirstOf(tip' + 1) \in Nat /\ FirstOf(tip + 1) <= FirstOf(tip' + 1)
      BY <2>1, FirstOfType
    <2>3. \A e \in chain' : e \in chain \/ (e \in Nat /\ e < FirstOf(tip' + 1))
      BY <1>1, EventsOfALedger DEF EventsInOrder
    <2>4. \A e \in chain : e \in Nat /\ e < FirstOf(tip + 1)
      BY DEF EventsInOrder, ChainBelow
    <2>5. \A e \in chain' : e \in Nat /\ e < FirstOf(tip' + 1)
      BY <2>2, <2>3, <2>4
    <2> QED BY <2>1, <2>5 DEF EventsInOrder, ChainBelow
  <1>2. CASE UNCHANGED <<tip, chain>>
    BY <1>2 DEF EventsInOrder, ChainBelow
  <1> QED BY <1>1, <1>2, OnlyTheArchiveChangesTheTable DEF Archive, Api!Store

\* A step is one of the archive's, or leaves the chain and the table alone.
LEMMA ArchiveSteps ==
  ASSUME EventsInOrder, [Next]_vars
  PROVE  Api!Extend \/ Api!Store \/ UNCHANGED <<chain, table>>
PROOF
  <1>1. CASE CloseLedger
    <2>1. chain \subseteq chain' /\ table' = table
      BY <1>1 DEF CloseLedger
    <2>2. ASSUME NEW f \in chain' \ chain, NEW e \in chain
          PROVE  e < f
      <3>1. f \in Nat /\ f >= FirstOf(tip + 1)
        BY <1>1, <2>2, EventsOfALedger DEF EventsInOrder
      <3>2. e \in Nat /\ e < FirstOf(tip + 1) /\ FirstOf(tip + 1) \in Nat
        BY FirstOfType DEF EventsInOrder, ChainBelow
      <3> QED BY <3>1, <3>2
    <2> QED BY <2>1, <2>2 DEF Api!Extend
  <1>2. CASE Archive
    BY <1>2 DEF Archive
  <1>3. CASE UNCHANGED <<chain, table>>
    BY <1>3
  <1> QED BY <1>1, <1>2, <1>3, OnlyTheArchiveChangesTheTable

\* The chain and the table, as the sync's steps and all others change them, are an
\* archive: what the wallet is shown to do rests on no more than the API's promise.
THEOREM SyncReadsAnArchive == Spec => Api!Spec
PROOF
  <1>1. Init => EventsInOrder
    <2>1. StartLedger - 1 \in Nat
      BY SyncAssumption
    <2> QED BY <2>1 DEF Init, Api!Init, EventsInOrder, ChainBelow
  <1>2. Init => Api!Init
    BY DEF Init
  <1>3. EventsInOrder /\ [Next]_vars => EventsInOrder'
    BY ChainStaysInOrder
  <1>4. EventsInOrder /\ [Next]_vars => [Api!Extend \/ Api!Store]_(Api!archiveVars)
    BY ArchiveSteps DEF Api!archiveVars
  <1> QED BY <1>1, <1>2, <1>3, <1>4, PTL DEF Spec, Api!Spec

----------------------------------------------------------------------------
(* What holds of every sync. *)

\* With any number of syncs on one storage, interleaved and cut off anywhere,
\* what the RPC, the bootnode and the storage hold stays well formed.
THEOREM SyncTypeCorrect == ASSUME ScansItsWindow PROVE Spec => []TypeOK
PROOF
  <1>1. SyncInv => TypeOK
    BY DEF SyncInv
  <1>2. SyncInv /\ [Next]_vars => SyncInv'
    BY StepsKeep
  <1> QED BY SyncBegins, <1>1, <1>2, PTL DEF Spec

\* No event is ever skipped: the invariant's promise of the metadata is the
\* property (save_sync_progress, clear_indexing_cursors).
THEOREM NothingIsSkipped == ASSUME ScansItsWindow PROVE Spec => []NoEventSkipped
PROOF
  <1>1. ASSUME SyncInv
        PROVE  NoEventSkipped
    <2>1. ASSUME NEW e \in chain, e \notin Events(raw)
          PROVE  e >= FirstOf(meta.resume) /\ e >= meta.cursor.at
      <3>1. /\ e \in Nat /\ meta.cursor.at \in Nat /\ FirstOf(meta.resume) \in Nat
            /\ Reach(meta.cursor) \in Nat
        BY <1>1, ChainFacts DEF Cursors, SyncInv, MetaKept, Kept
      <3>2. ~ (e < FirstOf(meta.resume)) /\ ~ (e < Reach(meta.cursor))
        BY <1>1, <2>1 DEF SyncInv, MetaKept, Kept
      <3>3. meta.cursor.at <= Reach(meta.cursor)
        BY <3>1 DEF Reach
      <3> QED BY <3>1, <3>2, <3>3
    <2> QED BY <2>1 DEF NoEventSkipped
  <1>2. SyncInv /\ [Next]_vars => SyncInv'
    BY StepsKeep
  <1> QED BY SyncBegins, <1>1, <1>2, PTL DEF Spec

\* "Fully indexed" is true but of torn ledgers: every event that is missing from a
\* ledger recorded as caught up to is of a ledger that was the RPC's latest when the
\* bootnode served the part of it the table held (fetch_contract_events' at_events_tip).
THEOREM FullyIndexedUnlessTorn == ASSUME ScansItsWindow PROVE Spec => []CompleteUnlessTorn
PROOF
  <1>1. SyncInv => CompleteUnlessTorn
    BY DEF SyncInv, MetaKept, CaughtUp, CompleteUnlessTorn
  <1>2. SyncInv /\ [Next]_vars => SyncInv'
    BY StepsKeep
  <1> QED BY SyncBegins, <1>1, <1>2, PTL DEF Spec
=============================================================================
