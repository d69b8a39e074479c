--------------------------- MODULE WalletSession ---------------------------
(***************************************************************************)
(* A browser's wallet sessions and the one slot for a key bundle they      *)
(* share.                                                                  *)
(*                                                                         *)
(* A passkey opens a wallet; the keys that read its confidential balances  *)
(* and root its pool notes are a bundle that lives in one IndexedDB slot   *)
(* of the browser and, when the user exports it, in backup files.  Every   *)
(* tab has a session of its own (WalletProvider); the slot, the files and  *)
(* the backed-up marks are shared.  An operation is a chain of awaits, and *)
(* between two of them another tab may act or the tab may be reloaded.     *)
(*                                                                         *)
(* Keys are named after the wallet they were made for; Old are keys from   *)
(* before bundles named a wallet.  A tab runs one operation at a time: the *)
(* page that runs one disables its button.                                 *)
(***************************************************************************)
EXTENDS Integers, FiniteSets

CONSTANTS
  Tabs,      \* tabs of the browser
  Wallets,   \* smart accounts that exist or may be created
  Nobody,    \* no wallet
  Old,       \* keys made before a bundle named its wallet
  MaxFiles   \* bound: backup files

ASSUME WalletsAssumption == Nobody \notin Wallets /\ Old \notin Wallets \cup {Nobody}

VARIABLES
  slot,       \* the stored bundle
  deployed,   \* wallets that exist on chain
  files,      \* backup files, as the bundles they hold
  marked,     \* wallets with a backed-up mark in this browser
  session,    \* tab -> what WalletProvider holds
  job         \* tab -> the operation that runs

sessionVars == <<slot, deployed, files, marked, session, job>>

Bundles == [keys : Wallets \cup {Old}, owner : Wallets \cup {Nobody}]
NoBundle == [keys |-> Nobody, owner |-> Nobody]
Legacy == [keys |-> Old, owner |-> Nobody]
CreateBundle(wallet) == [keys |-> wallet, owner |-> wallet]
Stamped(bundle, wallet) == [bundle EXCEPT !.owner = wallet]

NoJob == [at |-> "none", wallet |-> Nobody, bundle |-> NoBundle]
FreshSession ==
  [status |-> "restoring", wallet |-> Nobody, bundle |-> NoBundle, mismatch |-> FALSE]

SessionInit ==
  /\ deployed \in SUBSET Wallets
  /\ files \in SUBSET ({CreateBundle(w) : w \in deployed} \cup {Legacy})
  /\ Cardinality(files) <= MaxFiles
  /\ slot \in {NoBundle, Legacy}
  /\ marked = {}
  /\ session = [t \in Tabs |-> FreshSession]
  /\ job = [t \in Tabs |-> [NoJob EXCEPT !.at = "silent"]]

----------------------------------------------------------------------------
(* The session of a tab and the step its operation is at. *)

Goes(t, at, wallet, bundle) ==
  job' = [job EXCEPT ![t] = [at |-> at, wallet |-> wallet, bundle |-> bundle]]

JobEnds(t) == job' = [job EXCEPT ![t] = NoJob]

Connected(t, wallet, bundle, mismatch) ==
  session' = [session EXCEPT ![t] = [status |-> "connected", wallet |-> wallet,
                                     bundle |-> bundle, mismatch |-> mismatch]]

\* An operation begins: the mismatch is cleared, wallet and bundle are kept.
Begins(t, status) ==
  session' = [session EXCEPT ![t].status = status, ![t].mismatch = FALSE]

\* The tab is opened or reloaded, whatever was running in it.
Load(t) ==
  /\ session' = [session EXCEPT ![t] = FreshSession]
  /\ Goes(t, "silent", Nobody, NoBundle)
  /\ UNCHANGED <<slot, deployed, files, marked>>

\* connectExisting: the passkey prompt.
Connect(t) ==
  /\ job[t].at = "none"
  /\ Begins(t, "connecting")
  /\ Goes(t, "prompt", Nobody, NoBundle)
  /\ UNCHANGED <<slot, deployed, files, marked>>

\* The kit names a wallet: from its stored session, or by the passkey chosen.
Authenticated(t, wallet) ==
  /\ job[t].at \in {"silent", "prompt"}
  /\ wallet \in deployed
  /\ Goes(t, "resolve", wallet, NoBundle)
  /\ UNCHANGED <<slot, deployed, files, marked, session>>

----------------------------------------------------------------------------
(* resolveBundleForWallet *)

\* A mutation of the next: the stored bundle is handed over unchecked.
HandsAny(bundle, wallet) == IF bundle.owner = Nobody THEN NoBundle ELSE bundle

\* What is handed to a session of the wallet when the slot holds the bundle.
HandedTo(bundle, wallet) == IF bundle.owner = wallet THEN bundle ELSE NoBundle

Resolve(t) ==
  LET wallet == job[t].wallet IN
  /\ job[t].at = "resolve"
  /\ ~(slot # NoBundle /\ slot.owner = Nobody)
  /\ Connected(t, wallet, HandedTo(slot, wallet), slot # NoBundle /\ slot.owner # wallet)
  /\ JobEnds(t)
  /\ UNCHANGED <<slot, deployed, files, marked>>

\* A bundle that names no wallet is given to the one that connects ...
Adopt(t) ==
  /\ job[t].at = "resolve"
  /\ slot # NoBundle /\ slot.owner = Nobody
  /\ Goes(t, "stamp", job[t].wallet, Stamped(slot, job[t].wallet))
  /\ UNCHANGED <<slot, deployed, files, marked, session>>

\* ... and is stored under its name.
Stamp(t) ==
  /\ job[t].at = "stamp"
  /\ slot' = job[t].bundle
  /\ Connected(t, job[t].wallet, job[t].bundle, FALSE)
  /\ JobEnds(t)
  /\ UNCHANGED <<deployed, files, marked>>

----------------------------------------------------------------------------
(* createWallet *)

Create(t) ==
  /\ job[t].at = "none"
  /\ Begins(t, "creating")
  /\ Goes(t, "look", Nobody, NoBundle)
  /\ UNCHANGED <<slot, deployed, files, marked>>

\* A bundle that is there already makes the user confirm.
Look(t) ==
  /\ job[t].at = "look"
  /\ Goes(t, IF slot = NoBundle THEN "deploy" ELSE "confirm", Nobody, NoBundle)
  /\ UNCHANGED <<slot, deployed, files, marked, session>>

Confirm(t) ==
  /\ job[t].at = "confirm"
  /\ Goes(t, "deploy", Nobody, NoBundle)
  /\ UNCHANGED <<slot, deployed, files, marked, session>>

Deploy(t, wallet) ==
  /\ job[t].at = "deploy"
  /\ wallet \notin deployed
  /\ deployed' = deployed \cup {wallet}
  /\ Goes(t, "save", wallet, CreateBundle(wallet))
  /\ UNCHANGED <<slot, files, marked, session>>

SaveNew(t) ==
  /\ job[t].at = "save"
  /\ slot' = job[t].bundle
  /\ Connected(t, job[t].wallet, job[t].bundle, FALSE)
  /\ JobEnds(t)
  /\ UNCHANGED <<deployed, files, marked>>

----------------------------------------------------------------------------
(* The ways an operation ends without a session. *)

\* The wallet and the bundle of before stay; the status sends the user away.
Disconnects(t) ==
  /\ session' = [session EXCEPT ![t].status = "disconnected"]
  /\ JobEnds(t)
  /\ UNCHANGED <<slot, deployed, files, marked>>

\* The kit has no stored session, or fails.
NoSession(t) == job[t].at = "silent" /\ Disconnects(t)

\* No passkey is chosen, or the bundle cannot be read or stamped.
ConnectFails(t) == job[t].at \in {"prompt", "resolve", "stamp"} /\ Disconnects(t)

\* The user keeps the keys that are there.
Declines(t) == job[t].at = "confirm" /\ Disconnects(t)

\* The slot cannot be read, the deployment fails, or the bundle cannot be saved.
CreateFails(t) == job[t].at \in {"look", "deploy", "save"} /\ Disconnects(t)

----------------------------------------------------------------------------
(* BackupExport and RestoreBackup *)

\* A file holds a whole bundle, sealed by the passphrase.
ExportBackup(bundle) == files' = files \cup {bundle}

\* With the right passphrase a file gives its bundle back.
ImportBackup(imported) == imported \in files

MarksBrowser(wallet) == marked' = Wallets   \* a mutation of the next: a mark without a name
MarkBackedUp(wallet) == marked' = marked \cup {wallet}

\* The session's bundle is written to a file and its wallet marked.
Export(t) ==
  /\ job[t].at = "none"
  /\ session[t].bundle # NoBundle
  /\ ExportBackup(session[t].bundle)
  /\ Cardinality(files') <= MaxFiles
  /\ MarkBackedUp(session[t].wallet)
  /\ UNCHANGED <<slot, deployed, session, job>>

\* pairImportedBundle accepts a file of this wallet, or of no wallet.
Pairs(imported, wallet) == imported.owner \in {Nobody, wallet}

Paired(imported, wallet) ==
  IF imported.owner = Nobody THEN Stamped(imported, wallet) ELSE imported

\* The file is decrypted (the passphrase is right) and paired; one that does not
\* pair is refused, and nothing changes.
Restore(t, imported) ==
  LET wallet == session[t].wallet IN
  /\ job[t].at = "none"
  /\ wallet # Nobody
  /\ ImportBackup(imported)
  /\ Pairs(imported, wallet)
  /\ Goes(t, "import", wallet, Paired(imported, wallet))
  /\ UNCHANGED <<slot, deployed, files, marked, session>>

\* saveBundle, then markBackedUp.
Import(t) ==
  /\ job[t].at = "import"
  /\ slot' = job[t].bundle
  /\ MarkBackedUp(job[t].wallet)
  /\ Goes(t, "reread", job[t].wallet, job[t].bundle)
  /\ UNCHANGED <<deployed, files, session>>

\* refreshBundle: the slot as it is, and nothing else of the session.
Reread(t) ==
  /\ job[t].at = "reread"
  /\ session' = [session EXCEPT ![t].bundle = slot]
  /\ JobEnds(t)
  /\ UNCHANGED <<slot, deployed, files, marked>>

\* Saving or reading again throws: the page shows the error.
RestoreFails(t) ==
  /\ job[t].at \in {"import", "reread"}
  /\ JobEnds(t)
  /\ UNCHANGED <<slot, deployed, files, marked, session>>

SessionNext ==
  \E t \in Tabs :
    \/ Load(t)
    \/ Connect(t)
    \/ \E w \in Wallets : Authenticated(t, w)
    \/ Resolve(t)
    \/ Adopt(t)
    \/ Stamp(t)
    \/ Create(t)
    \/ Look(t)
    \/ Confirm(t)
    \/ \E w \in Wallets : Deploy(t, w)
    \/ SaveNew(t)
    \/ NoSession(t)
    \/ ConnectFails(t)
    \/ Declines(t)
    \/ CreateFails(t)
    \/ Export(t)
    \/ \E f \in files : Restore(t, f)
    \/ Import(t)
    \/ Reread(t)
    \/ RestoreFails(t)

SessionSpec == SessionInit /\ [][SessionNext]_sessionVars

----------------------------------------------------------------------------
Statuses == {"restoring", "creating", "connecting", "connected", "disconnected"}
Places == {"none", "silent", "prompt", "resolve", "stamp", "look", "confirm", "deploy",
           "save", "import", "reread"}

\* The session, the operations and the stored data have their shapes; what an
\* operation is about to store or to hand over names the wallet it works for.
SessionTypeOK ==
  /\ slot \in Bundles \cup {NoBundle}
  /\ deployed \subseteq Wallets
  /\ files \subseteq Bundles
  /\ marked \subseteq Wallets
  /\ session \in [Tabs -> [status : Statuses, wallet : Wallets \cup {Nobody},
                           bundle : Bundles \cup {NoBundle}, mismatch : BOOLEAN]]
  /\ job \in [Tabs -> [at : Places, wallet : Wallets \cup {Nobody},
                       bundle : Bundles \cup {NoBundle}]]
  /\ \A t \in Tabs : job[t].at \in {"stamp", "save", "import", "reread"} =>
       job[t].wallet # Nobody /\ job[t].bundle.owner = job[t].wallet

HasFile(bundle) == \E f \in files : f.keys = bundle.keys

\* RequireWallet lets the tab into the wallet.
OpensWallet(t) ==
  /\ session[t].status = "connected"
  /\ ~session[t].mismatch
  /\ session[t].bundle # NoBundle

\* hasBackedUp: without a mark, the wallet shows that its keys are only here.
BannerShown(t) == session[t].wallet \notin marked

\* The banner is honest: a wallet that is open on keys of its own without the
\* banner has a file with these keys.  (Keys from before pairing are left out,
\* in the session and in files: adopted or restored in a second tab while the
\* first creates or restores the same wallet, they leave a mark that is about
\* the other keys.)
BannerHonest ==
  \A t \in Tabs :
    LET bundle == session[t].bundle IN
    OpensWallet(t) /\ ~BannerShown(t) /\ bundle.owner = session[t].wallet /\ bundle.keys # Old =>
      HasFile(bundle) \/ HasFile(Legacy)

\* A step hands a session a bundle: another one, or under another wallet.
IsHanded(t) ==
  /\ session'[t].bundle # NoBundle
  /\ \/ session'[t].wallet # session[t].wallet
     \/ session'[t].bundle # session[t].bundle

\* A restore reads the slot again after another tab has stored over it.
Overwritten(t) == job[t].at = "reread" /\ slot # job[t].bundle

\* A session is handed a bundle of its own wallet only, except by a restore
\* that another tab overwrote.
HandedOwnBundle ==
  [][\A t \in Tabs :
       IsHanded(t) => session'[t].bundle.owner = session'[t].wallet \/ Overwritten(t)]_sessionVars

\* A session that reports a mismatch holds no bundle.
MismatchHasNoBundle ==
  \A t \in Tabs : session[t].mismatch => session[t].bundle = NoBundle
=============================================================================
