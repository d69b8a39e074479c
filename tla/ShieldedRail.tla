---------------------------- MODULE ShieldedRail ----------------------------
(***************************************************************************)
(* How the shielded tab gets its connection to the pool SDK.               *)
(*                                                                         *)
(* connectSppRail keeps one rail for the life of the page: it is asked for *)
(* a wallet's rail and answers with the one there is, refuses another      *)
(* wallet's, or starts a connection, which loads the SDK, opens the        *)
(* storage worker on the browser's database, and goes on through the sync  *)
(* and the key derivation.  The Shielded component asks when it is mounted *)
(* and when its wallet changes, and keeps what it was told in a reducer.   *)
(* The component comes and goes with the tab of the page; the rail stays.  *)
(***************************************************************************)
EXTENDS Integers

CONSTANTS
  RailWallets,   \* wallets, each with its own bundle: the keys of connectSppRail
  NoWallet,      \* none of them
  MaxWorkers     \* bound: storage workers a page opens

ASSUME RailAssumption == NoWallet \notin RailWallets

VARIABLES
  sdk,       \* the cached promise of the SDK: "absent", "loaded" or "failed"
  active,    \* the page's rail: [key, at]
  workers,   \* storage workers opened since the page was loaded
  lost,      \* history: those of them that a failed connection left behind
  tab        \* the component: [wallet, rail, gate, waiting]

railVars == <<sdk, active, workers, lost, tab>>

NoRail == [key |-> NoWallet, at |-> "none"]
Unmounted == [wallet |-> NoWallet, rail |-> NoWallet, gate |-> "none", waiting |-> FALSE]

RailInit ==
  /\ sdk = "absent"
  /\ active = NoRail
  /\ workers = 0
  /\ lost = 0
  /\ tab = Unmounted

----------------------------------------------------------------------------
(* connectReducer.  The tab keeps its rail through an attempt and through a *)
(* failure; an attempt and a connection clear the failure.                  *)

Attempt(t, wallet) == [t EXCEPT !.wallet = wallet, !.gate = "none"]

ConnectedTo(t, wallet) == [t EXCEPT !.rail = wallet, !.gate = "none", !.waiting = FALSE]
FailedWith(t, gate) == [t EXCEPT !.gate = gate, !.waiting = FALSE]

RefusesItsOwn(t, wallet) ==   \* a mutation of Answered
  IF active # NoRail THEN FailedWith(Attempt(t, wallet), "switch")
  ELSE [Attempt(t, wallet) EXCEPT !.waiting = TRUE]
AnswersAny(t, wallet) ==   \* and another
  LET asked == Attempt(t, wallet) IN
  IF active.at = "ready" THEN ConnectedTo(asked, active.key)
  ELSE [asked EXCEPT !.waiting = TRUE]

\* connectSppRail's answer: another wallet's rail refuses, its own that is ready
\* resolves at once, and for one under way, or begun now, the tab waits.
Answered(t, wallet) ==
  LET asked == Attempt(t, wallet) IN
  IF active.key \notin {NoWallet, wallet} THEN FailedWith(asked, "switch")
  ELSE IF active.at = "ready" THEN ConnectedTo(asked, wallet)
  ELSE [asked EXCEPT !.waiting = TRUE]

StartsAlways(wallet) == active' = [key |-> wallet, at |-> "sdk"]   \* a mutation of the next
\* A slot that is free takes the connection that begins.
Starts(wallet) ==
  active' = IF active = NoRail THEN [key |-> wallet, at |-> "sdk"] ELSE active

\* The effect: the component is mounted, or its wallet or bundle has changed.
Ask(wallet) ==
  /\ tab' = Answered(tab, wallet)
  /\ Starts(wallet)
  /\ UNCHANGED <<sdk, workers, lost>>

Leave ==
  /\ tab # Unmounted
  /\ tab' = Unmounted
  /\ UNCHANGED <<sdk, active, workers, lost>>

----------------------------------------------------------------------------
(* SppRail.connect *)

\* The slot is emptied and the promise rejects; only the caller whose promise
\* it is hears of it.
Rejects ==
  /\ active' = NoRail
  /\ tab' = IF tab.waiting THEN FailedWith(tab, "error") ELSE tab

\* The SDK is loaded once; a load that failed stays the answer.
LoadSdk ==
  /\ active.at = "sdk"
  /\ sdk # "failed"
  /\ sdk' = "loaded"
  /\ active' = [active EXCEPT !.at = "storage"]
  /\ UNCHANGED <<workers, lost, tab>>

SdkFails ==
  /\ active.at = "sdk"
  /\ sdk # "loaded"
  /\ sdk' = "failed"
  /\ Rejects
  /\ UNCHANGED <<workers, lost>>

OpenStorage ==
  /\ active.at = "storage"
  /\ workers < MaxWorkers
  /\ workers' = workers + 1
  /\ active' = [active EXCEPT !.at = "sync"]
  /\ UNCHANGED <<sdk, lost, tab>>

StorageFails ==
  /\ active.at = "storage"
  /\ Rejects
  /\ UNCHANGED <<sdk, workers, lost>>

\* The bootnode probe, the client, the sync, the keys and the pool.
SyncFails ==
  /\ active.at = "sync"
  /\ lost' = lost + 1
  /\ Rejects
  /\ UNCHANGED <<sdk, workers>>

OpenPool ==
  /\ active.at = "sync"
  /\ active' = [active EXCEPT !.at = "ready"]
  /\ tab' = IF tab.waiting THEN ConnectedTo(tab, active.key) ELSE tab
  /\ UNCHANGED <<sdk, workers, lost>>

\* A reload of the page.
ReloadPage ==
  /\ sdk' = "absent"
  /\ active' = NoRail
  /\ workers' = 0
  /\ lost' = 0
  /\ tab' = Unmounted

RailNext ==
  \/ \E wallet \in RailWallets : Ask(wallet)
  \/ Leave
  \/ LoadSdk
  \/ SdkFails
  \/ OpenStorage
  \/ StorageFails
  \/ SyncFails
  \/ OpenPool
  \/ ReloadPage

RailSpec == RailInit /\ [][RailNext]_railVars

----------------------------------------------------------------------------
RailStates == [key : RailWallets, at : {"sdk", "storage", "sync", "ready"}] \cup {NoRail}
TabStates == [wallet : RailWallets \cup {NoWallet}, rail : RailWallets \cup {NoWallet},
              gate : {"none", "error", "switch"}, waiting : BOOLEAN]

\* The rail and the tab have their shapes; a tab waits only for a connection
\* of its own wallet that is under way.
RailTypeOK ==
  /\ sdk \in {"absent", "loaded", "failed"}
  /\ active \in RailStates
  /\ workers \in Nat /\ lost \in Nat
  /\ tab \in TabStates
  /\ tab.waiting =>
       /\ tab.wallet # NoWallet /\ tab.gate = "none"
       /\ active.key = tab.wallet /\ active.at # "ready"

\* The tab shows a rail, and the balances it reads, of its own wallet only:
\* when the wallet changes under a rail that stays, the gate hides it.
ShowsOwnRail ==
  tab.rail # NoWallet /\ tab.gate = "none" => tab.rail = tab.wallet

\* The gate does not outlive its cause: a tab whose own rail is ready is
\* neither told to reload nor shown an old error.
GateLifts ==
  tab.gate # "none" => ~(active.at = "ready" /\ active.key = tab.wallet)

\* One worker serves the live connection.  Every other worker on the same
\* database was left there by a connection that failed.
OneLiveWorker ==
  workers = lost + (IF active.at \in {"sync", "ready"} THEN 1 ELSE 0)
=============================================================================
