-------------------------------- MODULE CtSync -------------------------------
(* How the confidential-token wallet keeps the openings of its balances:       *)
(* StateEngine (packages/ctd-sdk/src/state/engine.ts) over the hybrid event    *)
(* source (chain/event-source.ts) and one localStorage record, driven by       *)
(* CtRail (app/src/lib/ct.ts) from one tab or several.                         *)
(*                                                                             *)
(* An opening is what went into it: the account's last spend (0 before the     *)
(* first), whose event carries the opening it leaves, and the credits merged   *)
(* since. Two openings commit to the same point when these agree.              *)
EXTENDS LedgerPositions, Bags, FiniteSetsExt

CONSTANTS
  Actors,       \* what may be under way at once on the record: refreshes and operations
  Operators,    \* those of them that merge and spend: one per busy mark of the pages
  StartLedger,  \* deployedAtLedger: the account's events come after it
  MaxLedger,    \* bound: ledgers the chain closes
  Retention,    \* ledgers the RPC keeps
  SeamMargin,   \* RPC_SEAM_MARGIN
  MaxLag        \* ledgers the indexer may lag behind the chain

ASSUME CtSyncAssumption ==
  /\ Operators \subseteq Actors
  /\ StartLedger \in Nat \ {0} /\ MaxLedger \in Nat /\ StartLedger <= MaxLedger
  /\ SeamMargin \in Nat /\ Retention \in Nat /\ Retention > SeamMargin
  /\ MaxLag \in Nat \ {0}

VARIABLES
  tip,       \* the last closed ledger
  chain,     \* the account's events so far, those of the open ledger too
  account,   \* the account on the chain: its two openings
  archived,  \* the last ledger the indexer has
  store,     \* the record: the openings and the cursor they were synced to
  actor      \* each refresh or operation under way

vars == <<tip, chain, account, archived, store, actor>>

Positions == FirstOf(StartLedger + 1) .. EndOf(MaxLedger + 1)
Kinds == {"credit", "merge", "spend"}

Spent(at) == [spend |-> at, credits |-> EmptyBag]
Empty == [spendable |-> Spent(0), receiving |-> EmptyBag]
FreshState == [balance |-> Empty, cursor |-> 0]

Idle == [phase |-> "idle", spending |-> FALSE, state |-> FreshState, start |-> 0, events |-> {}]

Init ==
  /\ tip = StartLedger
  /\ chain = <<>>
  /\ account = Empty
  /\ archived = StartLedger
  /\ store = FreshState
  /\ actor = [a \in Actors |-> Idle]

\* ---------------------------------------------------------------------------
\* StateEngine::apply, and the same effect on the account itself.

Merged(balance) ==
  [spendable |-> [balance.spendable EXCEPT !.credits = @ (+) balance.receiving],
   receiving |-> EmptyBag]

Apply(events, balance, at) ==
  CASE events[at] = "credit" -> [balance EXCEPT !.receiving = @ (+) SetToBag({at})]
    [] events[at] = "merge"  -> Merged(balance)
    [] events[at] = "spend"  -> [balance EXCEPT !.spendable = Spent(at)]

(* The openings after each position, when the loop has met the events fetched  *)
(* up to there. They come in the order of the chain: dedupeById sorts them.    *)
LastPosition == EndOf(MaxLedger + 1)

Replay(events, balance, fetched) ==
  LET after[n \in 0 .. LastPosition] ==
        IF n = 0 THEN balance
        ELSE IF n \in fetched THEN Apply(events, after[n - 1], n)
        ELSE after[n - 1]
  IN  after

ApplyAll(balance, fetched) == Replay(chain, balance, fetched)[LastPosition]

\* ---------------------------------------------------------------------------
\* The chain and the sources.

CloseLedger ==
  /\ tip < MaxLedger
  /\ tip + 1 <= archived + MaxLag
  /\ tip' = tip + 1
  /\ UNCHANGED <<chain, account, archived, store, actor>>

(* Where the next event of the open ledger goes.                               *)
NextAt == Max({FirstOf(tip + 1)} \cup {e + 1 : e \in DOMAIN chain})

(* An event of the account happens in the open ledger.                         *)
Happens(kind) ==
  /\ NextAt < EndOf(tip + 1)
  /\ chain' = [e \in DOMAIN chain \cup {NextAt} |-> IF e = NextAt THEN kind ELSE chain[e]]

(* A deposit to the account, or another account's transfer to it.              *)
Credit ==
  /\ Happens("credit")
  /\ account' = [account EXCEPT !.receiving = @ (+) SetToBag({NextAt})]
  /\ UNCHANGED <<tip, archived, store, actor>>

Archive ==
  /\ \E l \in archived + 1 .. tip : archived' = l
  /\ UNCHANGED <<tip, chain, account, store, actor>>

Oldest == IF tip > Retention THEN tip - Retention + 1 ELSE 1

EventsOf(ledgers) == {e \in DOMAIN chain : LedgerOf(e) \in ledgers}

(* The record is lost: site data cleared, or another browser.                  *)
Forget ==
  /\ store /= FreshState
  /\ store' = FreshState
  /\ UNCHANGED <<tip, chain, account, archived, actor>>

\* ---------------------------------------------------------------------------
\* StateEngine::sync and hybridFetchEvents.

Begin(a, spending) ==
  /\ actor[a].phase = "idle"
  /\ actor' = [actor EXCEPT ![a] = [Idle EXCEPT !.phase = "loaded", !.state = store,
                                                !.spending = spending]]
  /\ UNCHANGED <<tip, chain, account, archived, store>>

Needed(state) == IF state.cursor = 0 THEN StartLedger ELSE LedgerOf(state.cursor) + 1

(* getHealth: the RPC's floor, or 0 when it does not answer. With a floor      *)
(* above what is needed, the indexer is read up to the seam; otherwise the RPC *)
(* alone, from the cursor or from just inside its window.                      *)
ReadFloor(a) ==
  /\ actor[a].phase = "loaded"
  /\ \E oldest \in {0, Oldest} :
       LET state == actor[a].state
           next == Needed(state)
           behind == oldest > 0 /\ next < oldest
           start == CASE behind -> FirstOf(oldest + SeamMargin)
                      [] ~ behind /\ state.cursor > 0 -> state.cursor
                      [] OTHER -> FirstOf(Max({StartLedger, IF oldest > 0 THEN oldest + 1
                                                           ELSE StartLedger}))
       IN  actor' = [actor EXCEPT ![a].phase = IF behind THEN "backfill" ELSE "tail",
                                  ![a].start = start]
  /\ UNCHANGED <<tip, chain, account, archived, store>>

BackfillOrSkip(a) ==   \* a mutation of the next: a failed backfill is tolerated
  /\ actor[a].phase = "backfill"
  /\ \E old \in {{}, EventsOf(Needed(actor[a].state) .. Min({LedgerOf(actor[a].start) - 1, archived}))} :
       actor' = [actor EXCEPT ![a].phase = "tail", ![a].events = old]
  /\ UNCHANGED <<tip, chain, account, archived, store>>

(* The indexer's leg: what it has of the ledgers below the seam.               *)
Backfill(a) ==
  /\ actor[a].phase = "backfill"
  /\ LET below == LedgerOf(actor[a].start) - 1
     IN  actor' = [actor EXCEPT ![a].phase = "tail",
           ![a].events = EventsOf(Needed(actor[a].state) .. Min({below, archived}))]
  /\ UNCHANGED <<tip, chain, account, archived, store>>

(* The RPC's leg, paged to the head, and then the replay and the save, which   *)
(* nothing can interrupt: the whole record, openings and cursor, is replaced.  *)
SyncedEarly(state, events, latest) ==   \* a mutation of the next: the cursor is not advanced
  [balance |-> ApplyAll(state.balance, events), cursor |-> state.cursor]

Synced(state, events, latest) ==
  [balance |-> ApplyAll(state.balance, events), cursor |-> EndOf(latest)]

ReadTail(a) ==
  /\ actor[a].phase = "tail"
  /\ LedgerOf(actor[a].start) \in Oldest .. tip
  /\ LET recent == {e \in EventsOf(1 .. tip) : e >= actor[a].start}
     IN  store' = Synced(actor[a].state, actor[a].events \cup recent, tip)
  /\ actor' = [actor EXCEPT ![a] = IF actor[a].spending
                                   THEN [Idle EXCEPT !.phase = "proving", !.state = store']
                                   ELSE Idle]
  /\ UNCHANGED <<tip, chain, account, archived>>

(* A call of the sync is refused or fails, the transaction is rejected, or the *)
(* tab is closed.                                                              *)
GiveUp(a) ==
  /\ actor[a].phase /= "idle"
  /\ actor' = [actor EXCEPT ![a] = Idle]
  /\ UNCHANGED <<tip, chain, account, archived, store>>

\* ---------------------------------------------------------------------------
\* CtRail: merge, and transfer and withdraw, which differ in what they prove.
\* Each is begun where a busy mark disables the next: the balance card has one
\* for merges and the forms have one each, so one tab may be several operators.

Merge(a) ==
  /\ a \in Operators
  /\ actor[a].phase = "idle"
  /\ Happens("merge")
  /\ account' = Merged(account)
  /\ UNCHANGED <<tip, archived, store, actor>>

(* The proof is about the synced opening, which is not zero; the contract      *)
(* accepts it if that is the opening the account commits to, and the spend is  *)
(* in the open ledger.                                                         *)
Submit(a) ==
  /\ actor[a].phase = "proving"
  /\ account.spendable /= Spent(0)
  /\ actor[a].state.balance.spendable = account.spendable
  /\ Happens("spend")
  /\ account' = [account EXCEPT !.spendable = Spent(NextAt)]
  /\ actor' = [actor EXCEPT ![a] = [Idle EXCEPT !.phase = "awaiting", !.start = NextAt]]
  /\ UNCHANGED <<tip, archived, store>>

SetSpendableAll(a) ==   \* a mutation of the next: the record is taken for synced
  /\ actor[a].phase = "awaiting"
  /\ LedgerOf(actor[a].start) <= tip
  /\ store' = [store EXCEPT !.balance.spendable = Spent(actor[a].start),
                            !.cursor = EndOf(LedgerOf(actor[a].start))]
  /\ actor' = [actor EXCEPT ![a] = Idle]
  /\ UNCHANGED <<tip, chain, account, archived>>

(* The transaction has succeeded: StateEngine::setSpendable writes the opening *)
(* it leaves into whatever the record holds by now.                            *)
SetSpendable(a) ==
  /\ actor[a].phase = "awaiting"
  /\ LedgerOf(actor[a].start) <= tip
  /\ store' = [store EXCEPT !.balance.spendable = Spent(actor[a].start)]
  /\ actor' = [actor EXCEPT ![a] = Idle]
  /\ UNCHANGED <<tip, chain, account, archived>>

Next ==
  \/ CloseLedger
  \/ Credit
  \/ Archive
  \/ Forget
  \/ \E a \in Actors :
       \/ Begin(a, FALSE)
       \/ a \in Operators /\ Begin(a, TRUE)
       \/ ReadFloor(a)
       \/ Backfill(a)
       \/ ReadTail(a)
       \/ GiveUp(a)
       \/ Merge(a)
       \/ Submit(a)
       \/ SetSpendable(a)

Spec == Init /\ [][Next]_vars

\* ---------------------------------------------------------------------------
\* Properties.

(* The openings are made of credits that happened, each of them once; what the *)
(* record was synced to is closed; an operation waits for a spend it made.     *)
TypeOK ==
  /\ tip \in StartLedger .. MaxLedger
  /\ archived \in StartLedger .. tip
  /\ DOMAIN chain \subseteq Positions /\ \A e \in DOMAIN chain : chain[e] \in Kinds
  /\ \A b \in {account, store.balance} \cup {actor[a].state.balance : a \in Actors} :
       LET credits == b.spendable.credits (+) b.receiving
       IN  \A e \in BagToSet(credits) : credits[e] = 1 /\ chain[e] = "credit"
  /\ LedgerOf(store.cursor) <= tip
  /\ \A a \in Actors : actor[a].phase = "awaiting" => chain[actor[a].start] = "spend"

(* Whatever interleaves, replaying the events after the record's cursor onto   *)
(* its openings gives the account's: no credit is lost or counted twice, by a  *)
(* record overwritten with an older one, an opening written ahead of its event *)
(* or the seam between the indexer and the RPC, and the next sync reconciles   *)
(* the record with the chain (sync, setSpendable, hybridFetchEvents). It is so *)
(* of one merge or spend at a time: with two operators, in two tabs or in one  *)
(* with a merge beside a spend, it is not (the run ct_two_tabs).               *)
Reconciles ==
  ApplyAll(store.balance, {e \in DOMAIN chain : e > store.cursor}) = account

(* A proof under way is about the opening of some moment of this account: what *)
(* the chain said when its sync read the head.                                 *)
ProvesTheRecord ==
  \A a \in Actors :
    actor[a].phase = "proving" =>
      ApplyAll(Empty, {e \in DOMAIN chain : e <= actor[a].state.cursor}) = actor[a].state.balance
=============================================================================
