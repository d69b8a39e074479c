---------------------------- MODULE PartsProofs -----------------------------
(*****************************************************************************)
(* Proofs about the parts that stand beside the pool and the indexer: the    *)
(* wallet session with its backup files, the connection to the shielded      *)
(* rail, the paged reads of transfers, the disclosures, and the archive's    *)
(* dump. They hold for any number of tabs, wallets, workers, rows,           *)
(* accounts, verifiers, bundles and contracts.                               *)
(*                                                                           *)
(* The session: its invariant follows a bundle through everything that       *)
(* holds one, the slot, the files, a session, an operation that is about     *)
(* to store it. The rail: a rail that the tab was given stays ready in the   *)
(* page's one slot for as long as the tab holds it. The reads: a cursor      *)
(* has every row of its source at or before it behind it, from wherever      *)
(* the source was entered. The disclosures: a proof that verifies names      *)
(* the transfer and the request that its bundle was made for. The dump: a    *)
(* name unpacks to the places it was packed from, whatever was read of a     *)
(* contract is all there was up to the last of it, and sorting loses no      *)
(* row.  At the end the parts are put together as MCParts runs them.         *)
(*****************************************************************************)
EXTENDS MCParts, MerkleTreeProofs,
        FiniteSetTheorems, SequenceTheorems, WellFoundedInduction, TLAPS

-----------------------------------------------------------------------------
(*****************************************************************************)
(* WalletSession: the wallet session and the backup bundle.                  *)
(*****************************************************************************)

\* What a tab's session and its operation hold.
Sessions == [status : Statuses, wallet : Wallets \cup {Nobody},
             bundle : Bundles \cup {NoBundle}, mismatch : BOOLEAN]
Jobs == [at : Places, wallet : Wallets \cup {Nobody}, bundle : Bundles \cup {NoBundle}]

\* The bundles there ever are, and none.
Made == {b \in Bundles : b.keys = Old \/ b.keys = b.owner}
MadeOrNone == Made \cup {NoBundle}

\* A file among these brings back the keys of the wallet, or older ones.
HasKeys(wallet, among) == \E f \in among : f.keys \in {wallet, Old}

\* A tab's session and operation, given the files there are.
TabOK(s, j, among) ==
  /\ s \in Sessions /\ s.bundle \in MadeOrNone
  /\ j \in Jobs /\ j.bundle \in MadeOrNone
  /\ j.at \in {"resolve", "stamp", "save", "import", "reread"} => j.wallet # Nobody
  /\ j.at \in {"stamp", "save", "import", "reread"} => j.bundle.owner = j.wallet
  /\ j.at \in {"import", "reread"} => j.wallet = s.wallet /\ HasKeys(j.wallet, among)
  /\ s.bundle # NoBundle =>
       s.wallet # Nobody /\ (s.bundle.owner = s.wallet \/ HasKeys(s.wallet, among))

\* The stored bundle and the files were made here, and a marked wallet has a
\* file with its keys.
StoreOK ==
  /\ slot \in MadeOrNone
  /\ deployed \subseteq Wallets
  /\ files \subseteq Made
  /\ marked \subseteq Wallets
  /\ \A w \in marked : HasKeys(w, files)

\* All of it, for every tab.
SessionInv ==
  /\ StoreOK
  /\ session \in [Tabs -> Sessions] /\ job \in [Tabs -> Jobs]
  /\ \A t \in Tabs : TabOK(session[t], job[t], files)

----------------------------------------------------------------------------
\* The bundles that the code makes: a new wallet's, an older one, and an older
\* one stamped with a wallet's name; and what stamping and pairing make of them.
LEMMA BundlesMade ==
  /\ Legacy \in Made /\ NoBundle \notin Made /\ NoBundle.owner = Nobody
  /\ \A w \in Wallets : CreateBundle(w) \in Made /\ CreateBundle(w).owner = w
  /\ \A b \in Made, w \in Wallets :
       b.owner = Nobody => Stamped(b, w) \in Made /\ Stamped(b, w).owner = w
  /\ \A b \in Made, w \in Wallets :
       Pairs(b, w) => /\ Paired(b, w) \in Made /\ Paired(b, w).owner = w
                      /\ b.keys \in {w, Old}
  /\ \A b \in Made, w \in Wallets : b.owner = w => b.keys \in {w, Old}
  /\ Made \subseteq Bundles
PROOF
  <1> USE WalletsAssumption
  <1>1. /\ Legacy \in Made /\ NoBundle \notin Made /\ NoBundle.owner = Nobody
    BY DEF Legacy, NoBundle, Made, Bundles
  <1>2. \A w \in Wallets : CreateBundle(w) \in Made /\ CreateBundle(w).owner = w
    BY DEF CreateBundle, Made, Bundles
  <1>3. ASSUME NEW b \in Made, NEW w \in Wallets, b.owner = Nobody
        PROVE  Stamped(b, w) \in Made /\ Stamped(b, w).owner = w /\ b.keys = Old
    BY <1>3 DEF Stamped, Made, Bundles
  <1>4. ASSUME NEW b \in Made, NEW w \in Wallets, Pairs(b, w)
        PROVE  /\ Paired(b, w) \in Made /\ Paired(b, w).owner = w
               /\ b.keys \in {w, Old}
    <2>1. CASE b.owner = Nobody
      BY <2>1, <1>3 DEF Paired
    <2>2. CASE b.owner = w
      BY <2>2 DEF Paired, Made
    <2> QED BY <1>4, <2>1, <2>2 DEF Pairs
  <1>5. \A b \in Made, w \in Wallets : b.owner = w => b.keys \in {w, Old}
    BY DEF Made
  <1>6. Made \subseteq Bundles
    BY DEF Made
  <1> QED BY <1>1, <1>2, <1>3, <1>4, <1>5, <1>6

\* A tab stays in order as files are added.
LEMMA FilesOnlyHelp ==
  ASSUME NEW s, NEW j, NEW before, NEW after, before \subseteq after, TabOK(s, j, before)
  PROVE  TabOK(s, j, after)
  BY DEF TabOK, HasKeys

\* A step is a step of one tab on the shared store.
LEMMA OneTab ==
  ASSUME SessionInv, NEW t \in Tabs,
         session' \in [Tabs -> Sessions], job' \in [Tabs -> Jobs],
         \A u \in Tabs \ {t} : session'[u] = session[u] /\ job'[u] = job[u],
         files \subseteq files', StoreOK', TabOK(session'[t], job'[t], files')
  PROVE  SessionInv'
PROOF
  <1>1. ASSUME NEW u \in Tabs PROVE TabOK(session'[u], job'[u], files')
    <2>1. CASE u = t
      BY <2>1
    <2>2. CASE u # t
      <3>1. TabOK(session[u], job[u], files)
        BY DEF SessionInv
      <3>2. TabOK(session[u], job[u], files')
        BY <3>1, FilesOnlyHelp
      <3> QED BY <2>2, <3>2
    <2> QED BY <2>1, <2>2
  <1> QED BY <1>1 DEF SessionInv

\* The browser starts without sessions, with at most an older bundle.
LEMMA SessionBegins == SessionInit => SessionInv
PROOF
  <1> SUFFICES ASSUME SessionInit PROVE SessionInv
    OBVIOUS
  <1>1. StoreOK
    BY BundlesMade DEF SessionInit, StoreOK, MadeOrNone
  <1>2. /\ FreshSession \in Sessions /\ [NoJob EXCEPT !.at = "silent"] \in Jobs
        /\ TabOK(FreshSession, [NoJob EXCEPT !.at = "silent"], files)
    BY DEF FreshSession, NoJob, Sessions, Jobs, Statuses, Places, TabOK, MadeOrNone
  <1> QED BY <1>1, <1>2 DEF SessionInit, SessionInv

\* A step that leaves the sessions alone: the operation of a tab goes on.
LEMMA JobMoves ==
  ASSUME SessionInv, NEW t \in Tabs, NEW at \in Places, NEW w \in Wallets \cup {Nobody},
         NEW b \in MadeOrNone, Goes(t, at, w, b), session' = session, files' = files, StoreOK',
         at \in {"resolve", "stamp", "save", "import", "reread"} => w # Nobody,
         at \in {"stamp", "save", "import", "reread"} => b.owner = w,
         at \in {"import", "reread"} => w = session[t].wallet /\ HasKeys(w, files)
  PROVE  SessionInv'
PROOF
  <1>1. [at |-> at, wallet |-> w, bundle |-> b] \in Jobs
    BY BundlesMade DEF Jobs, MadeOrNone
  <1>2. /\ job' \in [Tabs -> Jobs] /\ session' \in [Tabs -> Sessions]
        /\ job'[t] = [at |-> at, wallet |-> w, bundle |-> b]
        /\ \A u \in Tabs \ {t} : session'[u] = session[u] /\ job'[u] = job[u]
    BY <1>1 DEF Goes, SessionInv
  <1>3. TabOK(session'[t], job'[t], files')
    BY <1>1, <1>2 DEF SessionInv, TabOK
  <1> QED BY <1>2, <1>3, OneTab

\* A step that ends an operation with a session connected.
LEMMA TabConnects ==
  ASSUME SessionInv, NEW t \in Tabs, NEW w \in Wallets, NEW b \in MadeOrNone,
         NEW mismatch \in BOOLEAN, Connected(t, w, b, mismatch), JobEnds(t),
         files' = files, StoreOK', b # NoBundle => b.owner = w
  PROVE  SessionInv'
PROOF
  <1>1. /\ NoJob \in Jobs
        /\ [status |-> "connected", wallet |-> w, bundle |-> b, mismatch |-> mismatch]
             \in Sessions
    BY BundlesMade DEF Jobs, NoJob, Places, Sessions, Statuses, MadeOrNone
  <1>2. /\ job' \in [Tabs -> Jobs] /\ session' \in [Tabs -> Sessions]
        /\ job'[t] = NoJob
        /\ session'[t] = [status |-> "connected", wallet |-> w, bundle |-> b,
                          mismatch |-> mismatch]
        /\ \A u \in Tabs \ {t} : session'[u] = session[u] /\ job'[u] = job[u]
    BY <1>1 DEF Connected, JobEnds, SessionInv
  <1>3. TabOK(session'[t], job'[t], files')
    BY <1>1, <1>2, WalletsAssumption DEF TabOK, NoJob, MadeOrNone
  <1> QED BY <1>2, <1>3, OneTab

\* A step that changes the status of a session, whatever its operation is then.
LEMMA StatusChanges ==
  ASSUME SessionInv, NEW t \in Tabs, NEW s \in Sessions, NEW at \in {"none", "prompt", "look"},
         session' = [session EXCEPT ![t] = s], Goes(t, at, Nobody, NoBundle),
         s.wallet = session[t].wallet, s.bundle = session[t].bundle,
         files' = files, StoreOK'
  PROVE  SessionInv'
PROOF
  <1>1. [at |-> at, wallet |-> Nobody, bundle |-> NoBundle] \in Jobs
    BY DEF Jobs, Places
  <1>2. /\ job' \in [Tabs -> Jobs] /\ session' \in [Tabs -> Sessions]
        /\ job'[t] = [at |-> at, wallet |-> Nobody, bundle |-> NoBundle]
        /\ session'[t] = s
        /\ \A u \in Tabs \ {t} : session'[u] = session[u] /\ job'[u] = job[u]
    BY <1>1 DEF Goes, SessionInv
  <1>3. TabOK(session'[t], job'[t], files')
    BY <1>1, <1>2 DEF SessionInv, TabOK, MadeOrNone
  <1> QED BY <1>2, <1>3, OneTab

\* What the invariant says of one tab.
LEMMA TabFacts ==
  ASSUME SessionInv, NEW t \in Tabs
  PROVE  /\ session[t] \in Sessions /\ job[t] \in Jobs
         /\ session[t].wallet \in Wallets \cup {Nobody}
         /\ job[t].wallet \in Wallets \cup {Nobody}
         /\ session[t].bundle \in MadeOrNone /\ job[t].bundle \in MadeOrNone
         /\ TabOK(session[t], job[t], files)
  BY DEF SessionInv, TabOK, Sessions, Jobs

\* A status is changed by the operations that begin and those that fail.
LEMMA OperationBegins ==
  ASSUME SessionInv, NEW t \in Tabs, Connect(t) \/ Create(t)
  PROVE  SessionInv'
PROOF
  <1>1. CASE Connect(t)
    <2>1. [session[t] EXCEPT !.status = "connecting", !.mismatch = FALSE] \in Sessions
      BY TabFacts DEF Sessions, Statuses
    <2>2. session' = [session EXCEPT ![t] = [session[t] EXCEPT !.status = "connecting",
                                                              !.mismatch = FALSE]]
      BY <1>1 DEF Connect, Begins, SessionInv, Sessions
    <2>3. StoreOK'
      BY <1>1 DEF Connect, SessionInv, StoreOK
    <2>4. Goes(t, "prompt", Nobody, NoBundle) /\ files' = files
      BY <1>1 DEF Connect
    <2> QED BY <2>1, <2>2, <2>3, <2>4, TabFacts, StatusChanges DEF Sessions
  <1>2. CASE Create(t)
    <2>1. [session[t] EXCEPT !.status = "creating", !.mismatch = FALSE] \in Sessions
      BY TabFacts DEF Sessions, Statuses
    <2>2. session' = [session EXCEPT ![t] = [session[t] EXCEPT !.status = "creating",
                                                              !.mismatch = FALSE]]
      BY <1>2 DEF Create, Begins, SessionInv, Sessions
    <2>3. StoreOK'
      BY <1>2 DEF Create, SessionInv, StoreOK
    <2>4. Goes(t, "look", Nobody, NoBundle) /\ files' = files
      BY <1>2 DEF Create
    <2> QED BY <2>1, <2>2, <2>3, <2>4, TabFacts, StatusChanges DEF Sessions
  <1> QED BY <1>1, <1>2

\* An operation that fails keeps the wallet and the bundle of before.
LEMMA DisconnectKeeps ==
  ASSUME SessionInv, NEW t \in Tabs, Disconnects(t)
  PROVE  SessionInv'
PROOF
  <1>1. [session[t] EXCEPT !.status = "disconnected"] \in Sessions
    BY TabFacts DEF Sessions, Statuses
  <1>2. session' = [session EXCEPT ![t] = [session[t] EXCEPT !.status = "disconnected"]]
    BY DEF Disconnects, SessionInv, Sessions
  <1>3. StoreOK' /\ files' = files /\ Goes(t, "none", Nobody, NoBundle)
    BY DEF Disconnects, JobEnds, Goes, NoJob, SessionInv, StoreOK
  <1> QED BY <1>1, <1>2, <1>3, TabFacts, StatusChanges DEF Sessions

\* A load of the page leaves nothing of what ran in the tab.
LEMMA LoadKeeps ==
  ASSUME SessionInv, NEW t \in Tabs, Load(t)
  PROVE  SessionInv'
PROOF
  <1>1. /\ FreshSession \in Sessions
        /\ [at |-> "silent", wallet |-> Nobody, bundle |-> NoBundle] \in Jobs
    BY DEF FreshSession, Sessions, Jobs, Statuses, Places
  <1>2. /\ job' \in [Tabs -> Jobs] /\ session' \in [Tabs -> Sessions]
        /\ job'[t] = [at |-> "silent", wallet |-> Nobody, bundle |-> NoBundle]
        /\ session'[t] = FreshSession
        /\ \A u \in Tabs \ {t} : session'[u] = session[u] /\ job'[u] = job[u]
    BY <1>1 DEF Load, Goes, SessionInv
  <1>3. StoreOK' /\ files' = files
    BY DEF Load, SessionInv, StoreOK
  <1>4. TabOK(session'[t], job'[t], files')
    BY <1>1, <1>2 DEF TabOK, FreshSession, MadeOrNone
  <1> QED BY <1>2, <1>3, <1>4, OneTab

\* A connection to a wallet: the passkey names it, and the bundle in the slot is
\* handed over, or stamped first, or kept back (resolveBundleForWallet).
LEMMA ConnectionKeeps ==
  ASSUME SessionInv, NEW t \in Tabs,
         (\E w \in Wallets : Authenticated(t, w)) \/ Resolve(t) \/ Adopt(t) \/ Stamp(t)
  PROVE  SessionInv'
PROOF
  <1> USE WalletsAssumption
  <1>1. ASSUME NEW w \in Wallets, Authenticated(t, w) PROVE SessionInv'
    <2>1. /\ Goes(t, "resolve", w, NoBundle) /\ session' = session /\ files' = files
          /\ StoreOK' /\ NoBundle \in MadeOrNone /\ "resolve" \in Places
      BY <1>1 DEF Authenticated, SessionInv, StoreOK, MadeOrNone, Places
    <2> QED BY <2>1, JobMoves
  <1>2. CASE Resolve(t)
    <2>1. job[t].wallet \in Wallets
      BY <1>2, TabFacts DEF Resolve, TabOK
    <2>2. /\ HandedTo(slot, job[t].wallet) \in MadeOrNone
          /\ HandedTo(slot, job[t].wallet) # NoBundle =>
               HandedTo(slot, job[t].wallet).owner = job[t].wallet
      BY DEF HandedTo, SessionInv, StoreOK, MadeOrNone
    <2>3. /\ files' = files /\ StoreOK' /\ JobEnds(t)
          /\ Connected(t, job[t].wallet, HandedTo(slot, job[t].wallet),
                       slot # NoBundle /\ slot.owner # job[t].wallet)
      BY <1>2 DEF Resolve, SessionInv, StoreOK
    <2> QED BY <2>1, <2>2, <2>3, TabConnects
  <1>3. CASE Adopt(t)
    <2>1. job[t].wallet \in Wallets /\ slot \in Made /\ slot.owner = Nobody
      BY <1>3, TabFacts DEF Adopt, TabOK, SessionInv, StoreOK, MadeOrNone
    <2>2. /\ Stamped(slot, job[t].wallet) \in MadeOrNone
          /\ Stamped(slot, job[t].wallet).owner = job[t].wallet
      BY <2>1, BundlesMade DEF MadeOrNone
    <2>3. /\ Goes(t, "stamp", job[t].wallet, Stamped(slot, job[t].wallet))
          /\ session' = session /\ files' = files /\ StoreOK' /\ "stamp" \in Places
      BY <1>3 DEF Adopt, SessionInv, StoreOK, Places
    <2> QED BY <2>1, <2>2, <2>3, JobMoves
  <1>4. CASE Stamp(t)
    <2>1. job[t].wallet \in Wallets /\ job[t].bundle \in MadeOrNone
          /\ job[t].bundle.owner = job[t].wallet
      BY <1>4, TabFacts DEF Stamp, TabOK
    <2>2. /\ Connected(t, job[t].wallet, job[t].bundle, FALSE) /\ JobEnds(t)
          /\ files' = files /\ StoreOK'
      BY <1>4, <2>1 DEF Stamp, SessionInv, StoreOK
    <2> QED BY <2>1, <2>2, TabConnects
  <1> QED BY <1>1, <1>2, <1>3, <1>4

\* createWallet: what is saved is the bundle made for the wallet deployed.
LEMMA CreationKeeps ==
  ASSUME SessionInv, NEW t \in Tabs,
         Look(t) \/ Confirm(t) \/ (\E w \in Wallets : Deploy(t, w)) \/ SaveNew(t)
  PROVE  SessionInv'
PROOF
  <1> USE WalletsAssumption
  <1>1. CASE Look(t) \/ Confirm(t)
    <2>1. PICK at \in {"deploy", "confirm"} : Goes(t, at, Nobody, NoBundle)
      BY <1>1 DEF Look, Confirm
    <2>2. /\ session' = session /\ files' = files /\ StoreOK'
          /\ NoBundle \in MadeOrNone /\ at \in Places
      BY <1>1, <2>1 DEF Look, Confirm, SessionInv, StoreOK, MadeOrNone, Places
    <2> QED BY <2>1, <2>2, JobMoves
  <1>2. ASSUME NEW w \in Wallets, Deploy(t, w) PROVE SessionInv'
    <2>1. CreateBundle(w) \in MadeOrNone /\ CreateBundle(w).owner = w
      BY BundlesMade DEF MadeOrNone
    <2>2. /\ Goes(t, "save", w, CreateBundle(w))
          /\ session' = session /\ files' = files /\ StoreOK' /\ "save" \in Places
      BY <1>2 DEF Deploy, SessionInv, StoreOK, Places
    <2> QED BY <2>1, <2>2, JobMoves
  <1>3. CASE SaveNew(t)
    <2>1. job[t].wallet \in Wallets /\ job[t].bundle \in MadeOrNone
          /\ job[t].bundle.owner = job[t].wallet
      BY <1>3, TabFacts DEF SaveNew, TabOK
    <2>2. /\ Connected(t, job[t].wallet, job[t].bundle, FALSE) /\ JobEnds(t)
          /\ files' = files /\ StoreOK'
      BY <1>3, <2>1 DEF SaveNew, SessionInv, StoreOK
    <2> QED BY <2>1, <2>2, TabConnects
  <1> QED BY <1>1, <1>2, <1>3

\* An exported file holds the session's bundle, and the wallet that is marked
\* has its keys in a file from then on.
LEMMA ExportKeeps ==
  ASSUME SessionInv, NEW t \in Tabs, Export(t)
  PROVE  SessionInv'
PROOF
  <1> DEFINE b == session[t].bundle
             w == session[t].wallet
  <1>1. /\ b \in Made /\ w \in Wallets
        /\ b.owner = w \/ HasKeys(w, files)
        /\ files' = files \cup {b} /\ marked' = marked \cup {w}
        /\ slot' = slot /\ deployed' = deployed /\ session' = session /\ job' = job
    BY TabFacts DEF Export, ExportBackup, MarkBackedUp, TabOK, MadeOrNone
  <1>2. HasKeys(w, files')
    BY <1>1, BundlesMade DEF HasKeys
  <1>3. StoreOK'
    BY <1>1, <1>2 DEF SessionInv, StoreOK, HasKeys
  <1>4. TabOK(session'[t], job'[t], files')
    BY <1>1, TabFacts, FilesOnlyHelp
  <1>5. /\ session' \in [Tabs -> Sessions] /\ job' \in [Tabs -> Jobs]
        /\ \A u \in Tabs \ {t} : session'[u] = session[u] /\ job'[u] = job[u]
        /\ files \subseteq files'
    BY <1>1 DEF SessionInv
  <1> QED BY <1>3, <1>4, <1>5, OneTab

\* A restore stores a file's bundle, paired with the session's wallet; what is
\* read again is what the slot holds by then.
LEMMA RestoreKeeps ==
  ASSUME SessionInv, NEW t \in Tabs,
         (\E f \in files : Restore(t, f)) \/ Import(t) \/ Reread(t) \/ RestoreFails(t)
  PROVE  SessionInv'
PROOF
  <1> USE WalletsAssumption
  <1>1. ASSUME NEW f \in files, Restore(t, f) PROVE SessionInv'
    <2> DEFINE w == session[t].wallet
    <2>1. f \in Made /\ w \in Wallets /\ Pairs(f, w)
      BY <1>1, TabFacts DEF Restore, SessionInv, StoreOK
    <2>2. Paired(f, w) \in MadeOrNone /\ Paired(f, w).owner = w /\ HasKeys(w, files)
      BY <2>1, BundlesMade DEF MadeOrNone, HasKeys
    <2>3. /\ Goes(t, "import", w, Paired(f, w)) /\ session' = session /\ files' = files
          /\ StoreOK' /\ "import" \in Places
      BY <1>1 DEF Restore, SessionInv, StoreOK, Places
    <2> QED BY <2>1, <2>2, <2>3, JobMoves
  <1>2. CASE Import(t)
    <2> DEFINE w == job[t].wallet
               b == job[t].bundle
    <2>1. /\ w \in Wallets /\ b \in MadeOrNone /\ b.owner = w
          /\ w = session[t].wallet /\ HasKeys(w, files)
      BY <1>2, TabFacts DEF Import, TabOK
    <2>2. /\ Goes(t, "reread", w, b) /\ session' = session /\ files' = files
          /\ slot' = b /\ marked' = marked \cup {w} /\ deployed' = deployed
          /\ "reread" \in Places
      BY <1>2 DEF Import, MarkBackedUp, Places
    <2>3. StoreOK'
      BY <2>1, <2>2 DEF SessionInv, StoreOK
    <2> QED BY <2>1, <2>2, <2>3, JobMoves
  <1>3. CASE Reread(t)
    <2>1. /\ session[t].wallet \in Wallets /\ HasKeys(session[t].wallet, files)
          /\ session[t] \in Sessions
      BY <1>3, TabFacts DEF Reread, TabOK
    <2>2. slot \in MadeOrNone /\ slot \in Bundles \cup {NoBundle}
      BY BundlesMade DEF SessionInv, StoreOK, MadeOrNone
    <2>3. /\ NoJob \in Jobs /\ [session[t] EXCEPT !.bundle = slot] \in Sessions
          /\ [session[t] EXCEPT !.bundle = slot].bundle = slot
          /\ [session[t] EXCEPT !.bundle = slot].wallet = session[t].wallet
      BY <2>1, <2>2 DEF NoJob, Jobs, Places, Sessions
    <2>4. /\ job' \in [Tabs -> Jobs] /\ session' \in [Tabs -> Sessions]
          /\ job'[t] = NoJob /\ session'[t] = [session[t] EXCEPT !.bundle = slot]
          /\ \A u \in Tabs \ {t} : session'[u] = session[u] /\ job'[u] = job[u]
      BY <1>3, <2>3 DEF Reread, JobEnds, SessionInv, Sessions
    <2>5. StoreOK' /\ files' = files
      BY <1>3 DEF Reread, SessionInv, StoreOK
    <2>6. TabOK(session'[t], job'[t], files')
      BY <2>1, <2>2, <2>3, <2>4, <2>5 DEF TabOK, NoJob, MadeOrNone
    <2> QED BY <2>4, <2>5, <2>6, OneTab
  <1>4. CASE RestoreFails(t)
    <2>1. /\ Goes(t, "none", Nobody, NoBundle) /\ session' = session /\ files' = files
          /\ StoreOK' /\ "none" \in Places /\ NoBundle \in MadeOrNone
      BY <1>4 DEF RestoreFails, JobEnds, Goes, NoJob, SessionInv, StoreOK, Places, MadeOrNone
    <2> QED BY <2>1, JobMoves
  <1> QED BY <1>1, <1>2, <1>3, <1>4

\* The invariant is kept by every step of every tab.
LEMMA SessionKeeps == SessionInv /\ [SessionNext]_sessionVars => SessionInv'
PROOF
  <1> SUFFICES ASSUME SessionInv, [SessionNext]_sessionVars PROVE SessionInv'
    OBVIOUS
  <1>1. CASE UNCHANGED sessionVars
    BY <1>1 DEF sessionVars, SessionInv, StoreOK
  <1>2. CASE SessionNext
    <2>1. PICK t \in Tabs :
            \/ Load(t)
            \/ Connect(t) \/ Create(t)
            \/ (\E w \in Wallets : Authenticated(t, w)) \/ Resolve(t) \/ Adopt(t) \/ Stamp(t)
            \/ Look(t) \/ Confirm(t) \/ (\E w \in Wallets : Deploy(t, w)) \/ SaveNew(t)
            \/ Disconnects(t)
            \/ Export(t)
            \/ (\E f \in files : Restore(t, f)) \/ Import(t) \/ Reread(t) \/ RestoreFails(t)
      BY <1>2 DEF SessionNext, NoSession, ConnectFails, Declines, CreateFails
    <2> QED
      BY <2>1, LoadKeeps, OperationBegins, ConnectionKeeps, CreationKeeps, DisconnectKeeps,
         ExportKeeps, RestoreKeeps
  <1> QED BY <1>1, <1>2

\* The invariant holds in every reachable state.
LEMMA SessionInvariant == SessionSpec => []SessionInv
  BY SessionBegins, SessionKeeps, PTL DEF SessionSpec

----------------------------------------------------------------------------
\* What the invariant says of shapes.
LEMMA SessionOfItsType == SessionInv => SessionTypeOK
PROOF
  <1> SUFFICES ASSUME SessionInv PROVE SessionTypeOK
    OBVIOUS
  <1>1. /\ slot \in Bundles \cup {NoBundle} /\ deployed \subseteq Wallets
        /\ files \subseteq Bundles /\ marked \subseteq Wallets
    BY BundlesMade DEF SessionInv, StoreOK, MadeOrNone
  <1>2. session \in [Tabs -> Sessions] /\ job \in [Tabs -> Jobs]
    BY DEF SessionInv
  <1>3. \A t \in Tabs : job[t].at \in {"stamp", "save", "import", "reread"} =>
           job[t].wallet # Nobody /\ job[t].bundle.owner = job[t].wallet
    BY DEF SessionInv, TabOK
  <1> QED BY <1>1, <1>2, <1>3 DEF SessionTypeOK, Sessions, Jobs

\* The stored data and the sessions keep their shapes, and what an operation is
\* about to store or to hand over names the wallet it works for.
THEOREM SessionTypeCorrect == SessionSpec => []SessionTypeOK
  BY SessionInvariant, SessionOfItsType, PTL

\* A wallet that opens on keys of its own without the banner has a backup file
\* with these keys, whatever other tabs store, restore or export (hasBackedUp).
THEOREM BannerIsHonest == SessionSpec => []BannerHonest
PROOF
  <1>1. SessionInv => BannerHonest
    <2> SUFFICES ASSUME SessionInv, NEW t \in Tabs, session[t].wallet \in marked,
                        session[t].bundle # NoBundle,
                        session[t].bundle.owner = session[t].wallet,
                        session[t].bundle.keys # Old
                 PROVE  HasFile(session[t].bundle) \/ HasFile(Legacy)
      BY DEF BannerHonest, BannerShown, OpensWallet
    <2>1. session[t].bundle.keys = session[t].wallet
      BY TabFacts DEF MadeOrNone, Made
    <2>2. HasKeys(session[t].wallet, files) /\ Legacy.keys = Old
      BY DEF SessionInv, StoreOK, Legacy
    <2> QED BY <2>1, <2>2 DEF HasKeys, HasFile
  <1> QED BY <1>1, SessionInvariant, PTL

\* Apart from a restore that another tab overwrote, a session is handed no
\* bundle but its own wallet's (resolveBundleForWallet, refreshBundle).
THEOREM OwnBundleHanded == SessionSpec => HandedOwnBundle
PROOF
  <1> DEFINE Fitting(t) == session'[t].bundle.owner = session'[t].wallet \/ Overwritten(t)
  <1>1. ASSUME SessionInv, SessionNext, NEW t \in Tabs, IsHanded(t) PROVE Fitting(t)
    <2>1. session[t] \in Sessions /\ session \in [Tabs -> Sessions]
      BY <1>1 DEF SessionInv
    <2>2. \/ Load(t) \/ Connect(t) \/ Create(t) \/ Disconnects(t)
          \/ Resolve(t) \/ Stamp(t) \/ SaveNew(t) \/ Reread(t)
          \/ session'[t] = session[t]
      <3>1. PICK u \in Tabs :
              \/ session' = session
              \/ Load(u) \/ Connect(u) \/ Create(u) \/ Disconnects(u)
              \/ Resolve(u) \/ Stamp(u) \/ SaveNew(u) \/ Reread(u)
        BY <1>1 DEF SessionNext, NoSession, ConnectFails, Declines, CreateFails, Authenticated,
                    Adopt, Look, Confirm, Deploy, Export, Restore, Import, RestoreFails
      <3>2. CASE u = t
        BY <3>1, <3>2
      <3>3. CASE u # t
        BY <2>1, <3>1, <3>3
           DEF Load, Connect, Create, Disconnects, Resolve, Stamp, SaveNew, Reread, Begins,
               Connected
      <3> QED BY <3>2, <3>3
    <2>3. CASE Load(t)
      BY <1>1, <2>1, <2>3 DEF Load, FreshSession, IsHanded
    <2>4. CASE Connect(t) \/ Create(t) \/ Disconnects(t) \/ session'[t] = session[t]
      BY <1>1, <2>1, <2>4 DEF Connect, Create, Disconnects, Begins, Sessions, IsHanded
    <2>5. CASE Resolve(t)
      BY <1>1, <2>1, <2>5 DEF Resolve, Connected, HandedTo, IsHanded
    <2>6. CASE Stamp(t) \/ SaveNew(t)
      BY <1>1, <2>1, <2>6, TabFacts DEF Stamp, SaveNew, Connected, TabOK
    <2>7. CASE Reread(t)
      <3>1. /\ session'[t].bundle = slot /\ session'[t].wallet = session[t].wallet
            /\ job[t].at = "reread"
        BY <2>1, <2>7 DEF Reread, Sessions
      <3>2. job[t].bundle.owner = session[t].wallet
        BY <1>1, <3>1, TabFacts DEF TabOK
      <3> QED BY <3>1, <3>2 DEF Overwritten
    <2> QED BY <2>2, <2>3, <2>4, <2>5, <2>6, <2>7
  <1>2. SessionInv /\ [SessionNext]_sessionVars =>
          [\A t \in Tabs : IsHanded(t) => Fitting(t)]_sessionVars
    BY <1>1
  <1> QED BY <1>2, SessionInvariant, PTL DEF SessionSpec, HandedOwnBundle

-----------------------------------------------------------------------------
(*****************************************************************************)
(* ShieldedRail: the connection to the shielded rail.                        *)
(*****************************************************************************)

\* A rail that the tab was given stays ready for as long as the tab holds it.
RailKept ==
  tab.rail # NoWallet => active.at = "ready" /\ active.key = tab.rail

\* A gate is about a slot that is not the tab's own.
GateIsForeign == tab.gate # "none" => tab.wallet # NoWallet /\ active.key # tab.wallet

\* All of it.
RailInv == RailTypeOK /\ RailKept /\ GateIsForeign /\ ShowsOwnRail /\ OneLiveWorker

\* A page begins without a rail and without a component.
LEMMA RailBegins == RailInit => RailInv
  BY RailAssumption
     DEF RailInit, RailInv, RailTypeOK, RailStates, TabStates, RailKept, GateIsForeign,
         ShowsOwnRail, OneLiveWorker, NoRail, Unmounted

\* What the slot can hold: no key exactly when it is empty.
LEMMA Slot ==
  ASSUME active \in RailStates
  PROVE  /\ active.key = NoWallet <=> active = NoRail
         /\ active.key \in RailWallets \cup {NoWallet}
         /\ active.at \in {"none", "sdk", "storage", "sync", "ready"}
         /\ active.at = "none" <=> active = NoRail
  BY RailAssumption DEF RailStates, NoRail

\* The reducer's answers, field by field.
LEMMA Reducer ==
  ASSUME tab \in TabStates, NEW wallet \in RailWallets, NEW gate \in {"error", "switch"}
  PROVE  /\ Attempt(tab, wallet) \in TabStates
         /\ Attempt(tab, wallet).wallet = wallet /\ Attempt(tab, wallet).rail = tab.rail
         /\ Attempt(tab, wallet).gate = "none"
         /\ ConnectedTo(tab, wallet) \in TabStates
         /\ ConnectedTo(tab, wallet).wallet = tab.wallet
         /\ ConnectedTo(tab, wallet).rail = wallet
         /\ ConnectedTo(tab, wallet).gate = "none" /\ ~ConnectedTo(tab, wallet).waiting
         /\ FailedWith(tab, gate) \in TabStates
         /\ FailedWith(tab, gate).wallet = tab.wallet /\ FailedWith(tab, gate).rail = tab.rail
         /\ FailedWith(tab, gate).gate = gate /\ ~FailedWith(tab, gate).waiting
  BY DEF TabStates, Attempt, ConnectedTo, FailedWith

\* connectSppRail's answer to a tab, field by field.
LEMMA AnswerHolds ==
  ASSUME tab \in TabStates, NEW wallet \in RailWallets
  PROVE  /\ Answered(tab, wallet) \in TabStates
         /\ Answered(tab, wallet).wallet = wallet
         /\ active.key \notin {NoWallet, wallet} =>
              /\ Answered(tab, wallet).rail = tab.rail
              /\ Answered(tab, wallet).gate = "switch" /\ ~Answered(tab, wallet).waiting
         /\ active.key \in {NoWallet, wallet} /\ active.at = "ready" =>
              /\ Answered(tab, wallet).rail = wallet
              /\ Answered(tab, wallet).gate = "none" /\ ~Answered(tab, wallet).waiting
         /\ active.key \in {NoWallet, wallet} /\ active.at # "ready" =>
              /\ Answered(tab, wallet).rail = tab.rail
              /\ Answered(tab, wallet).gate = "none" /\ Answered(tab, wallet).waiting
  BY DEF TabStates, Answered, Attempt, ConnectedTo, FailedWith

\* Asking for a rail (connectSppRail): the tab that waits waits for its own
\* wallet's connection, and one that is refused looks at another wallet's.
LEMMA AskKeeps ==
  ASSUME NEW wallet \in RailWallets, RailInv, Ask(wallet)
  PROVE  RailInv'
PROOF
  <1> USE RailAssumption
  <1>1. /\ tab \in TabStates /\ active \in RailStates
        /\ sdk' = sdk /\ workers' = workers /\ lost' = lost /\ tab' = Answered(tab, wallet)
    BY DEF Ask, RailInv, RailTypeOK
  <1>2. /\ active = NoRail => active' = [key |-> wallet, at |-> "sdk"]
        /\ active # NoRail => active' = active
    BY DEF Ask, Starts
  <1>3. /\ active' \in RailStates
        /\ active = NoRail => active'.key = wallet /\ active'.at = "sdk"
    BY <1>1, <1>2 DEF RailStates
  <1>4. RailTypeOK'
    BY <1>1, <1>2, <1>3, AnswerHolds, Slot DEF RailInv, RailTypeOK
  <1>5. RailKept'
    BY <1>1, <1>2, <1>3, AnswerHolds, Slot DEF RailInv, RailKept
  <1>6. GateIsForeign'
    BY <1>1, <1>2, <1>3, AnswerHolds, Slot DEF RailInv, GateIsForeign
  <1>7. ShowsOwnRail'
    BY <1>1, <1>2, <1>3, AnswerHolds, Slot DEF RailInv, RailKept, ShowsOwnRail
  <1>8. OneLiveWorker'
    BY <1>1, <1>2, <1>3, Slot DEF RailInv, RailTypeOK, OneLiveWorker, NoRail
  <1> QED BY <1>4, <1>5, <1>6, <1>7, <1>8 DEF RailInv

\* Nothing is added.
LEMMA PlusZero == ASSUME NEW n \in Nat PROVE n + 0 = n
  OBVIOUS

\* A connection that fails, before its storage is open or after, empties a slot
\* that was not ready: nobody holds a rail then.
LEMMA RejectsKeeps ==
  ASSUME RailInv, Rejects, active # NoRail, active.at # "ready",
         sdk' \in {"absent", "loaded", "failed"},
         workers' \in Nat, lost' \in Nat, workers' = lost'
  PROVE  RailInv'
PROOF
  <1> USE RailAssumption
  <1>1. tab \in TabStates /\ active \in RailStates /\ tab.rail = NoWallet
    BY DEF RailInv, RailTypeOK, RailKept
  <1>2. active' = NoRail /\ active' \in RailStates /\ active'.key = NoWallet
        /\ active'.at = "none"
    BY DEF Rejects, RailStates, NoRail
  <1>3. /\ tab' \in TabStates /\ tab'.rail = NoWallet /\ tab'.wallet = tab.wallet
        /\ ~tab'.waiting
        /\ tab.waiting \/ tab'.gate = tab.gate
    BY <1>1 DEF Rejects, FailedWith, TabStates
  <1>4. tab.waiting \/ tab.gate # "none" => tab.wallet # NoWallet
    BY DEF RailInv, RailTypeOK, GateIsForeign
  <1>5. RailTypeOK' /\ RailKept' /\ ShowsOwnRail'
    BY <1>2, <1>3 DEF RailTypeOK, RailKept, ShowsOwnRail
  <1>6. GateIsForeign'
    BY <1>2, <1>3, <1>4 DEF GateIsForeign
  <1>7. OneLiveWorker'
    <2>1. ~(active'.at \in {"sync", "ready"})
      BY <1>2
    <2>2. lost' + 0 = lost'
      BY PlusZero
    <2> QED BY <2>1, <2>2 DEF OneLiveWorker
  <1> QED BY <1>5, <1>6, <1>7 DEF RailInv

\* Every step of the page, of its connection and of a reload keeps the invariant.
LEMMA RailKeeps == RailInv /\ [RailNext]_railVars => RailInv'
PROOF
  <1> SUFFICES ASSUME RailInv, [RailNext]_railVars PROVE RailInv'
    OBVIOUS
  <1> USE RailAssumption
  <1>1. ASSUME NEW wallet \in RailWallets, Ask(wallet) PROVE RailInv'
    BY <1>1, AskKeeps
  <1>2. CASE Leave
    BY <1>2 DEF Leave, Unmounted, RailInv, RailTypeOK, TabStates, RailKept, GateIsForeign,
                ShowsOwnRail, OneLiveWorker
  <1>3. CASE LoadSdk
    BY <1>3 DEF LoadSdk, RailInv, RailTypeOK, RailStates, RailKept, GateIsForeign,
                ShowsOwnRail, OneLiveWorker, NoRail
  <1>4. CASE SdkFails
    BY <1>4, RejectsKeeps DEF SdkFails, RailInv, RailTypeOK, OneLiveWorker, NoRail
  <1>5. CASE OpenStorage
    BY <1>5 DEF OpenStorage, RailInv, RailTypeOK, RailStates, RailKept, GateIsForeign,
                ShowsOwnRail, OneLiveWorker, NoRail
  <1>6. CASE StorageFails
    BY <1>6, RejectsKeeps DEF StorageFails, RailInv, RailTypeOK, OneLiveWorker, NoRail
  <1>7. CASE SyncFails
    BY <1>7, RejectsKeeps DEF SyncFails, RailInv, RailTypeOK, OneLiveWorker, NoRail
  <1>8. CASE OpenPool
    <2>1. /\ tab \in TabStates /\ active \in RailStates
          /\ active.at = "sync" /\ active.key \in RailWallets
      BY <1>8 DEF OpenPool, RailInv, RailTypeOK, RailStates, NoRail
    <2>2. /\ active' \in RailStates /\ active'.key = active.key /\ active'.at = "ready"
          /\ sdk' = sdk /\ workers' = workers /\ lost' = lost
      BY <1>8, <2>1 DEF OpenPool, RailStates, NoRail
    <2>3. CASE tab.waiting
      <3>1. tab' = ConnectedTo(tab, active.key) /\ active.key = tab.wallet
        BY <1>8, <2>3 DEF OpenPool, RailInv, RailTypeOK
      <3>2. /\ tab' \in TabStates /\ tab'.rail = active.key /\ tab'.wallet = active.key
            /\ tab'.gate = "none" /\ ~tab'.waiting
        BY <2>1, <3>1, Reducer
      <3> QED
        BY <2>1, <2>2, <3>2
           DEF RailInv, RailTypeOK, RailKept, GateIsForeign, ShowsOwnRail, OneLiveWorker
    <2>4. CASE ~tab.waiting
      <3>1. tab' = tab /\ tab.rail = NoWallet
        BY <1>8, <2>1, <2>4 DEF OpenPool, RailInv, RailKept
      <3> QED
        BY <2>1, <2>2, <2>4, <3>1
           DEF RailInv, RailTypeOK, RailKept, GateIsForeign, ShowsOwnRail, OneLiveWorker
    <2> QED BY <2>3, <2>4
  <1>9. CASE ReloadPage
    BY <1>9 DEF ReloadPage, NoRail, Unmounted, RailInv, RailTypeOK, RailStates, TabStates,
                RailKept, GateIsForeign, ShowsOwnRail, OneLiveWorker
  <1>10. CASE UNCHANGED railVars
    BY <1>10 DEF railVars, RailInv, RailTypeOK, RailKept, GateIsForeign, ShowsOwnRail,
                 OneLiveWorker
  <1> QED
    BY <1>1, <1>2, <1>3, <1>4, <1>5, <1>6, <1>7, <1>8, <1>9, <1>10 DEF RailNext

\* The invariant holds in every reachable state of the page.
LEMMA RailInvariant == RailSpec => []RailInv
  BY RailBegins, RailKeeps, PTL DEF RailSpec

\* The rail, the tab and the counters keep their shapes, and a tab that waits
\* waits for a connection of its own wallet (connectReducer, connectSppRail).
THEOREM RailTypeCorrect == RailSpec => []RailTypeOK
PROOF
  <1>1. RailInv => RailTypeOK
    BY DEF RailInv
  <1> QED BY <1>1, RailInvariant, PTL

\* Whatever wallets connect, fail and come back, a tab without a gate shows its
\* own wallet's rail (Shielded.tsx keeps the rail of before through an attempt).
THEOREM TabShowsOwnRail == RailSpec => []ShowsOwnRail
PROOF
  <1>1. RailInv => ShowsOwnRail
    BY DEF RailInv
  <1> QED BY <1>1, RailInvariant, PTL

\* An error or a request to reload never stands before a rail that is ready.
THEOREM GateAlwaysLifts == RailSpec => []GateLifts
PROOF
  <1>1. RailInv => GateLifts
    BY DEF RailInv, GateIsForeign, GateLifts
  <1> QED BY <1>1, RailInvariant, PTL

\* The slot keeps a second worker from being opened beside a live one.
THEOREM WorkerIsAlone == RailSpec => []OneLiveWorker
PROOF
  <1>1. RailInv => OneLiveWorker
    BY DEF RailInv
  <1> QED BY <1>1, RailInvariant, PTL

-----------------------------------------------------------------------------
(*****************************************************************************)
(* PagedReads: a history read page by page, in one of four ways.             *)
(*****************************************************************************)

\* The reader's fields by name.
SourceOf == reader.source
CursorAt == reader.cursor
GotRows == reader.got
CountOf == reader.received
ReadState == reader.at
Nearer(a, b) == Sooner(SourceOf, a, b)

\* Places of a cursor, and sets of rows that have a first and a last.
LedgerPlaces == 0 .. 2 * MaxLedger + 1
Bounded(set) == set \subseteq LedgerPlaces /\ IsFiniteSet(set)

\* The type of the reader and of the rows.
ReaderShape ==
  /\ SourceOf \in Sources /\ ReadState \in {"asks", "done"} /\ CursorAt \in LedgerPlaces
  /\ reader = [source |-> SourceOf, cursor |-> CursorAt, got |-> GotRows,
               received |-> CountOf, at |-> ReadState]

ReadsShape ==
  /\ head \in 0 .. MaxLedger /\ rows \subseteq 1 .. 2 * head
  /\ ReaderShape
  /\ GotRows \subseteq rows /\ CountOf = Cardinality(GotRows)

\* While it asks, a reader has nothing ahead of its cursor.
NothingAhead == ReadState = "asks" => \A p \in GotRows : ~Nearer(CursorAt, p)

\* NothingBehind and the end of a read, in the reader's fields.
AllBehind == \A p \in rows \ late : ~Nearer(CursorAt, p) => p \in GotRows

\* At the end of a read nothing is left, but beyond a full page of the RPC's that
\* ended in the latest ledger.
LeftAt(cursor, p) == SourceOf = "rpc" /\ cursor < p /\ LedgerOf(p) = LedgerOf(cursor)
AllAtEnd == ReadState = "done" => \A p \in rows \ late : p \in GotRows \/ LeftAt(CursorAt, p)

\* All of it.
ReadsInv == ReadsShape /\ NothingAhead /\ AllBehind /\ AllAtEnd

\* A set of natural numbers has a smallest.
LEMMA HasSmallest ==
  ASSUME NEW S, S \subseteq Nat, S # {}
  PROVE  \E x \in S : \A y \in S : x <= y
PROOF
  <1>1. PICK x \in S : \A y \in S : ~ (<<y, x>> \in OpToRel(<, Nat))
    BY NatLessThanWellFounded, WFMin
  <1>2. \A y \in S : ~ (y < x)
    BY <1>1 DEF OpToRel
  <1>3. ASSUME NEW y \in S
        PROVE  x <= y
    <2>1. x \in Nat /\ y \in Nat
      OBVIOUS
    <2>2. ~ (y < x)
      BY <1>2
    <2> QED BY <2>1, <2>2
  <1> QED BY <1>3

\* One with a bound has a largest.
LEMMA HasLargest ==
  ASSUME NEW n \in Nat, NEW S, S \subseteq 0 .. n, S # {}
  PROVE  \E x \in S : \A y \in S : y <= x
PROOF
  <1> DEFINE T == {m \in 0 .. n : n - m \in S}
  <1>1. T \subseteq Nat /\ T # {}
    <2>1. PICK s \in S : TRUE
      OBVIOUS
    <2>2. n - s \in 0 .. n /\ n - (n - s) = s
      BY <2>1
    <2>3. n - s \in T
      BY <2>1, <2>2
    <2> QED BY <2>3
  <1>2. PICK m \in T : \A k \in T : m <= k
    <2> HIDE DEF T
    <2> QED BY <1>1, HasSmallest
  <1>3. m \in 0 .. n /\ n - m \in S
    BY <1>2
  <1>4. ASSUME NEW y \in S
        PROVE  y <= n - m
    <2>1. y \in 0 .. n
      OBVIOUS
    <2>2. n - y \in 0 .. n /\ n - (n - y) = y
      BY <2>1
    <2>3. n - y \in T
      BY <2>2
    <2>4. m <= n - y
      BY <1>2, <2>3
    <2> QED BY <1>3, <2>1, <2>4
  <1> QED BY <1>3, <1>4

\* The reader's order is a strict one, and total.
LEMMA NearerOrder ==
  /\ \A a \in LedgerPlaces : ~Nearer(a, a)
  /\ \A a, b \in LedgerPlaces : a = b \/ Nearer(a, b) \/ Nearer(b, a)
  /\ \A a, b, c \in LedgerPlaces : Nearer(a, b) /\ Nearer(b, c) => Nearer(a, c)
  /\ \A a, b \in LedgerPlaces : ~(Nearer(a, b) /\ Nearer(b, a))
  BY ReadsAssumption DEF Nearer, Sooner, LatestFirst, ChainOrder, LedgerPlaces

\* A set of rows has a first and a last in that order.
LEMMA FirstAndLast ==
  ASSUME NEW set, set \subseteq LedgerPlaces, set # {}
  PROVE  /\ \E a \in set : \A b \in set : b = a \/ Nearer(a, b)
         /\ \E a \in set : \A b \in set : b = a \/ Nearer(b, a)
PROOF
  <1> DEFINE n == 2 * MaxLedger + 1
  <1>1. n \in Nat /\ set \subseteq 0 .. n /\ set \subseteq Nat
    BY ReadsAssumption DEF LedgerPlaces
  <1> HIDE DEF n
  <1>2. PICK least \in set : \A b \in set : least <= b
    BY <1>1, HasSmallest
  <1>3. PICK most \in set : \A b \in set : b <= most
    BY <1>1, HasLargest
  <1>4. \A b \in set : b \in Nat /\ (b = least \/ least < b) /\ (b = most \/ b < most)
    BY <1>1, <1>2, <1>3
  <1>5. CASE SourceOf = "activity"
    <2>1. \A a, b : Nearer(a, b) <=> a > b
      BY <1>5 DEF Nearer, Sooner, LatestFirst
    <2>2. /\ \A b \in set : b = most \/ Nearer(most, b)
          /\ \A b \in set : b = least \/ Nearer(b, least)
      BY <1>1, <1>4, <2>1
    <2> QED BY <2>2
  <1>6. CASE SourceOf # "activity"
    <2>1. \A a, b : Nearer(a, b) <=> a < b
      BY <1>6 DEF Nearer, Sooner, ChainOrder
    <2>2. /\ \A b \in set : b = least \/ Nearer(least, b)
          /\ \A b \in set : b = most \/ Nearer(b, most)
      BY <1>4, <2>1
    <2> QED BY <2>2
  <1> QED BY <1>5, <1>6

\* LastOf names the last.
LEMMA LastOfIsLast ==
  ASSUME NEW set, set \subseteq LedgerPlaces, set # {}
  PROVE  LastOf(set) \in set /\ \A b \in set : b = LastOf(set) \/ Nearer(b, LastOf(set))
PROOF
  <1>1. \E a \in set : \A b \in set \ {a} : Sooner(reader.source, b, a)
    BY FirstAndLast DEF Nearer, SourceOf
  <1>2. LastOf(set) \in set /\ \A b \in set \ {LastOf(set)} : Sooner(reader.source, b, LastOf(set))
    BY <1>1 DEF LastOf
  <1> QED BY <1>2 DEF Nearer, SourceOf

(* The first rows are all the rows, or leave none out before the last of them. *)
LEMMA FirstOfIsPrefix ==
  ASSUME NEW set, Bounded(set), NEW limit \in Nat \ {0}
  PROVE  /\ FirstOf(set, limit) \subseteq set /\ IsFiniteSet(FirstOf(set, limit))
         /\ \A e \in set, f \in FirstOf(set, limit) : Nearer(e, f) => e \in FirstOf(set, limit)
         /\ set # {} => FirstOf(set, limit) # {}
         /\ Cardinality(FirstOf(set, limit)) <= limit
         /\ Cardinality(FirstOf(set, limit)) < limit => FirstOf(set, limit) = set
PROOF
  <1> DEFINE before(e) == {x \in set : Nearer(x, e)}
             first == FirstOf(set, limit)
  <1>1. first \subseteq set /\ \A e \in set : e \in first <=> Cardinality(before(e)) < limit
    BY DEF FirstOf, Nearer, SourceOf
  <1>2. IsFiniteSet(set) /\ set \subseteq LedgerPlaces
    BY DEF Bounded
  <1>3. \A e \in set : IsFiniteSet(before(e)) /\ Cardinality(before(e)) \in Nat
    <2>1. \A e \in set : before(e) \subseteq set
      OBVIOUS
    <2> QED BY <1>2, <2>1, FS_Subset, FS_CardinalityType
  <1>4. IsFiniteSet(first) /\ Cardinality(first) \in Nat
    BY <1>1, <1>2, FS_Subset, FS_CardinalityType
  <1> HIDE DEF first
  <1>5. ASSUME NEW e \in set, NEW f \in first, Nearer(e, f)
        PROVE  e \in first
    <2>1. f \in set
      BY <1>1
    <2>2. before(e) \subseteq before(f)
      BY <1>2, <1>5, <2>1, NearerOrder
    <2> HIDE DEF before
    <2>3. Cardinality(before(e)) <= Cardinality(before(f))
      BY <1>3, <2>1, <2>2, FS_Subset
    <2>4. Cardinality(before(f)) < limit
      BY <1>1, <2>1
    <2>5. Cardinality(before(e)) < limit
      BY <1>3, <2>1, <2>3, <2>4
    <2> QED BY <1>1, <2>5
  <1>6. ASSUME set # {}
        PROVE  first # {}
    <2>1. PICK e \in set : \A x \in set : x = e \/ Nearer(e, x)
      BY <1>2, <1>6, FirstAndLast
    <2>2. before(e) = {}
      BY <1>2, <2>1, NearerOrder
    <2>3. Cardinality(before(e)) = 0
      BY <2>2, FS_EmptySet
    <2> HIDE DEF before
    <2> QED BY <1>1, <2>3
  <1>7. ASSUME Cardinality(first) < limit, set # first
        PROVE  FALSE
    <2>1. set \ first # {} /\ set \ first \subseteq LedgerPlaces
      BY <1>1, <1>2, <1>7
    <2>2. PICK e \in set \ first : \A x \in set \ first : x = e \/ Nearer(e, x)
      BY <2>1, FirstAndLast
    <2>3. before(e) \subseteq first
      BY <1>2, <2>2, NearerOrder
    <2> HIDE DEF before
    <2>4. Cardinality(before(e)) <= Cardinality(first)
      BY <1>4, <2>3, FS_Subset
    <2>5. ~ (Cardinality(before(e)) < limit)
      BY <1>1, <2>2
    <2>6. Cardinality(before(e)) \in Nat
      BY <1>3, <2>2
    <2> QED BY <1>4, <1>7, <2>4, <2>5, <2>6
  <1>8. Cardinality(first) <= limit
    <2>1. CASE first = {}
      BY <2>1, FS_EmptySet
    <2>2. CASE first # {}
      <3>1. first \subseteq LedgerPlaces
        BY <1>1, <1>2
      <3>2. PICK last \in first : \A b \in first : b = last \/ Nearer(b, last)
        BY <2>2, <3>1, FirstAndLast
      <3>3. first \ {last} \subseteq before(last)
        BY <1>1, <3>2
      <3>4. last \in set /\ Cardinality(before(last)) < limit
        BY <1>1, <3>2
      <3> HIDE DEF before
      <3>5. Cardinality(first \ {last}) <= Cardinality(before(last))
        BY <1>3, <3>3, <3>4, FS_Subset
      <3>6. Cardinality(first \ {last}) = Cardinality(first) - 1
        BY <1>4, <3>2, FS_RemoveElement
      <3> QED BY <1>3, <1>4, <3>4, <3>5, <3>6
    <2> QED BY <2>1, <2>2
  <1> QED BY <1>1, <1>4, <1>5, <1>6, <1>7, <1>8 DEF first

\* The probe finds a row more than the page, or the page is all there is.
LEMMA ProbeTells ==
  ASSUME NEW rest, Bounded(rest)
  PROVE  IF ProbeFound(rest) THEN FirstOf(rest, Limit) # {} ELSE FirstOf(rest, Limit) = rest
PROOF
  <1> DEFINE page == FirstOf(rest, Limit)
             wide == FirstOf(rest, Limit + 1)
  <1>1. Limit \in Nat \ {0} /\ Limit + 1 \in Nat \ {0}
    BY ReadsAssumption
  <1>2. /\ page \subseteq rest /\ IsFiniteSet(page) /\ (rest # {} => page # {})
        /\ Cardinality(page) <= Limit /\ (Cardinality(page) < Limit => page = rest)
    BY <1>1, FirstOfIsPrefix
  <1>3. /\ wide \subseteq rest /\ IsFiniteSet(wide)
        /\ (Cardinality(wide) < Limit + 1 => wide = rest)
    BY <1>1, FirstOfIsPrefix
  <1>4. ProbeFound(rest) <=> Cardinality(wide) > Limit
    BY DEF ProbeFound
  <1> HIDE DEF page, wide
  <1>5. Cardinality(page) \in Nat /\ Cardinality(wide) \in Nat /\ IsFiniteSet(rest)
    BY <1>2, <1>3, FS_CardinalityType DEF Bounded
  <1>6. ASSUME ProbeFound(rest), rest = {} PROVE FALSE
    <2>1. wide = {}
      BY <1>3, <1>6
    <2>2. Cardinality(wide) = 0
      BY <2>1, FS_EmptySet
    <2> QED BY <1>1, <1>4, <1>6, <2>2
  <1>7. ASSUME ~ProbeFound(rest) PROVE page = rest
    <2>1. wide = rest
      BY <1>1, <1>3, <1>4, <1>5, <1>7
    <2>2. Cardinality(rest) <= Limit
      BY <1>1, <1>4, <1>5, <1>7, <2>1
    <2>3. CASE Cardinality(page) < Limit
      BY <1>2, <2>3
    <2>4. CASE Cardinality(page) = Limit
      <3>1. Cardinality(page) <= Cardinality(rest) /\ Cardinality(rest) \in Nat
        BY <1>2, <1>5, FS_Subset, FS_CardinalityType
      <3>2. Cardinality(rest) = Cardinality(page)
        BY <1>1, <2>2, <2>4, <3>1
      <3> QED BY <1>2, <1>5, <3>2, FS_Subset
    <2> QED BY <1>1, <1>2, <1>5, <2>3, <2>4
  <1> QED BY <1>2, <1>6, <1>7 DEF page

\* The rows are few, and places.
LEMMA RowsBounded ==
  ASSUME ReadsShape PROVE Bounded(rows) /\ Bounded(Ahead) /\ Ahead \subseteq rows
PROOF
  <1>1. head \in Nat /\ head <= MaxLedger /\ rows \subseteq 1 .. 2 * head
    BY ReadsAssumption DEF ReadsShape
  <1>2. IsFiniteSet(1 .. 2 * head)
    <2>1. 1 \in Int /\ 2 * head \in Int
      BY <1>1
    <2> QED BY <2>1, FS_Interval
  <1>3. rows \subseteq LedgerPlaces
    BY <1>1, ReadsAssumption DEF LedgerPlaces
  <1>4. IsFiniteSet(rows)
    BY <1>1, <1>2, FS_Subset
  <1>5. Ahead \subseteq rows
    BY DEF Ahead
  <1> QED BY <1>3, <1>4, <1>5, FS_Subset DEF Bounded

\* The reader's step, field by field.
Moved(got, count, cursor, at) ==
  reader' = [source |-> SourceOf, cursor |-> cursor, got |-> got, received |-> count, at |-> at]

\* The reader's fields after a step that assigns them.
LEMMA ReaderMoves ==
  ASSUME ReaderShape, NEW got, NEW count, NEW cursor \in LedgerPlaces, NEW at \in {"asks", "done"},
         Moved(got, count, cursor, at)
  PROVE  /\ ReaderShape' /\ SourceOf' = SourceOf /\ CursorAt' = cursor /\ GotRows' = got
         /\ CountOf' = count /\ ReadState' = at
PROOF
  <1>1. PICK s : s = SourceOf
    OBVIOUS
  <1>2. reader' = [source |-> s, cursor |-> cursor, got |-> got, received |-> count, at |-> at]
    BY <1>1 DEF Moved
  <1>3. /\ SourceOf' = s /\ CursorAt' = cursor /\ GotRows' = got /\ CountOf' = count
        /\ ReadState' = at
    BY <1>2 DEF SourceOf, CursorAt, GotRows, CountOf, ReadState
  <1>4. s \in Sources
    BY <1>1 DEF ReaderShape
  <1> QED BY <1>1, <1>2, <1>3, <1>4 DEF ReaderShape

\* What a client does with an answer.
TakesAnswer(page, cursor, at) ==
  reader' = [reader EXCEPT !.got = @ \cup page, !.received = @ + Cardinality(page),
                           !.cursor = cursor, !.at = at]

\* The same for a page that is taken.
LEMMA AnswerMoves ==
  ASSUME ReaderShape, NEW page, NEW cursor, NEW at, TakesAnswer(page, cursor, at)
  PROVE  Moved(GotRows \cup page, CountOf + Cardinality(page), cursor, at)
PROOF
  <1>1. PICK s, c, g, n, a :
          /\ s = SourceOf /\ c = CursorAt /\ g = GotRows /\ n = CountOf /\ a = ReadState
    OBVIOUS
  <1>2. reader = [source |-> s, cursor |-> c, got |-> g, received |-> n, at |-> a]
    BY <1>1 DEF ReaderShape
  <1>3. reader' = [source |-> s, cursor |-> cursor, got |-> g \cup page,
                   received |-> n + Cardinality(page), at |-> at]
    BY <1>2 DEF TakesAnswer
  <1> QED BY <1>1, <1>3 DEF Moved

\* A higher chain has room for the rows of a lower one.
LEMMA MoreRoom ==
  ASSUME NEW h \in Nat, NEW k \in Nat, h <= k
  PROVE  \A p \in 1 .. 2 * h : p \in 1 .. 2 * k
  OBVIOUS

\* An answer: its rows are ahead of the cursor, the new cursor has none of those
\* it leaves out at or behind it, and none it takes is ahead of it.
LEMMA PageAnswerKeeps ==
  ASSUME ReadsInv, ReadState = "asks", NEW page, page \subseteq Ahead,
         NEW cursor \in LedgerPlaces, NEW at \in {"asks", "done"},
         Moved(GotRows \cup page, CountOf + Cardinality(page), cursor, at),
         UNCHANGED <<rows, head, late>>,
         \A p \in Ahead : ~Nearer(cursor, p) => p \in page,
         at = "asks" => \A p \in page \cup GotRows : ~Nearer(cursor, p),
         at = "done" => \A p \in Ahead : p \in page \/ LeftAt(cursor, p)
  PROVE  ReadsInv'
PROOF
  <1>0. PICK got, count : got = GotRows \cup page /\ count = CountOf + Cardinality(page)
    OBVIOUS
  <1>1. ReadsShape /\ ReaderShape /\ GotRows \subseteq rows /\ CountOf = Cardinality(GotRows)
    BY DEF ReadsInv, ReadsShape
  <1>2. Moved(got, count, cursor, at)
    BY <1>0
  <1>3. got \subseteq rows
    BY <1>0, <1>1, RowsBounded
  <1>4. count = Cardinality(got)
    <2>1. IsFiniteSet(GotRows) /\ IsFiniteSet(page)
      BY <1>1, RowsBounded, FS_Subset DEF Bounded
    <2>2. GotRows \cap page = {}
      BY DEF ReadsInv, NothingAhead, Ahead, Nearer, SourceOf, CursorAt
    <2>3. Cardinality(GotRows \cap page) = 0
      BY <2>2, FS_EmptySet
    <2>4. Cardinality(GotRows \cup page)
            = Cardinality(GotRows) + Cardinality(page) - Cardinality(GotRows \cap page)
      BY <2>1, FS_Union
    <2>5. Cardinality(GotRows) \in Nat /\ Cardinality(page) \in Nat
      BY <2>1, FS_CardinalityType
    <2> QED BY <1>0, <1>1, <2>3, <2>4, <2>5
  <1>5. /\ ReaderShape' /\ SourceOf' = SourceOf /\ CursorAt' = cursor /\ GotRows' = got
        /\ CountOf' = count /\ ReadState' = at
    BY <1>1, <1>2, ReaderMoves
  <1>6. \A a, b : Nearer(a, b)' <=> Nearer(a, b)
    BY <1>5 DEF Nearer
  <1>7. ReadsShape'
    BY <1>1, <1>3, <1>4, <1>5 DEF ReadsShape
  <1>8. NothingAhead'
    BY <1>0, <1>5, <1>6 DEF NothingAhead
  <1>9. \A p \in rows : p \in Ahead \/ ~Nearer(CursorAt, p)
    BY DEF Ahead, Nearer, SourceOf, CursorAt
  <1>10. AllBehind'
    BY <1>0, <1>5, <1>6, <1>9 DEF ReadsInv, AllBehind
  <1>11. AllAtEnd'
    BY <1>0, <1>5, <1>9 DEF ReadsInv, AllBehind, AllAtEnd, LeftAt
  <1> QED BY <1>7, <1>8, <1>10, <1>11 DEF ReadsInv

\* The last row of a page as a cursor: it is behind every row the page leaves
\* out, and behind no row the page or an earlier one took.
LEMMA CursorAtLast ==
  ASSUME ReadsInv, ReadState = "asks", NEW set, set \subseteq Ahead,
         NEW page, page = FirstOf(set, Limit), page # {}
  PROVE  /\ LastOf(page) \in LedgerPlaces /\ LastOf(page) \in page
         /\ \A p \in set : ~Nearer(LastOf(page), p) => p \in page
         /\ \A p \in page \cup GotRows : ~Nearer(LastOf(page), p)
PROOF
  <1> DEFINE last == LastOf(page)
  <1>1. /\ Bounded(Ahead) /\ Bounded(set) /\ GotRows \subseteq LedgerPlaces /\ CursorAt \in LedgerPlaces
        /\ set \subseteq LedgerPlaces
    BY RowsBounded, FS_Subset DEF ReadsInv, ReadsShape, ReaderShape, Bounded
  <1>2. /\ page \subseteq set
        /\ \A e \in set, f \in page : Nearer(e, f) => e \in page
    BY <1>1, ReadsAssumption, FirstOfIsPrefix
  <1>3. last \in page /\ \A b \in page : b = last \/ Nearer(b, last)
    BY <1>1, <1>2, LastOfIsLast
  <1> HIDE DEF last
  <1>4. last \in LedgerPlaces /\ Nearer(CursorAt, last)
    BY <1>1, <1>2, <1>3 DEF Ahead, Nearer, SourceOf, CursorAt
  <1>5. \A p \in set : ~Nearer(last, p) => p \in page
    BY <1>1, <1>2, <1>3, <1>4, NearerOrder
  <1>6. \A p \in page : ~Nearer(last, p)
    BY <1>1, <1>2, <1>3, <1>4, NearerOrder
  <1>7. \A p \in GotRows : ~Nearer(last, p)
    <2> SUFFICES ASSUME NEW p \in GotRows, Nearer(last, p) PROVE FALSE
      OBVIOUS
    <2>1. ~Nearer(CursorAt, p)
      BY DEF ReadsInv, NothingAhead
    <2> QED BY <1>1, <1>4, <2>1, NearerOrder
  <1> QED BY <1>3, <1>4, <1>5, <1>6, <1>7 DEF last

\* A page of everything ahead, with a sign of more or without one.
LEMMA PageKeeps ==
  ASSUME ReadsInv, ReadState = "asks", NEW more \in BOOLEAN, NEW cursor,
         Receives(FirstOf(Ahead, Limit), more, cursor),
         IF more THEN FirstOf(Ahead, Limit) # {} /\ cursor = LastOf(FirstOf(Ahead, Limit))
         ELSE FirstOf(Ahead, Limit) = Ahead
  PROVE  ReadsInv'
PROOF
  <1> DEFINE page == FirstOf(Ahead, Limit)
  <1>1. CursorAt \in LedgerPlaces /\ page \subseteq Ahead /\ ReaderShape
    BY RowsBounded, ReadsAssumption, FirstOfIsPrefix DEF ReadsInv, ReadsShape, ReaderShape
  <1>2. CASE more
    <2>0. TakesAnswer(page, cursor, "asks") /\ UNCHANGED <<rows, head, late>>
      BY <1>2 DEF Receives, TakesAnswer
    <2>1. Moved(GotRows \cup page, CountOf + Cardinality(page), cursor, "asks")
      BY <1>1, <2>0, AnswerMoves
    <2>2. page # {} /\ cursor = LastOf(page)
      BY <1>2
    <2> DEFINE last == LastOf(page)
    <2>3. /\ last \in LedgerPlaces /\ \A p \in Ahead : ~Nearer(last, p) => p \in page
          /\ \A p \in page \cup GotRows : ~Nearer(last, p)
      BY <2>2, CursorAtLast
    <2> HIDE DEF page, last
    <2>4. cursor = last
      BY <2>2 DEF last
    <2>5. /\ cursor \in LedgerPlaces /\ \A p \in Ahead : ~Nearer(cursor, p) => p \in page
          /\ \A p \in page \cup GotRows : ~Nearer(cursor, p)
      BY <2>3, <2>4
    <2> QED BY <1>1, <2>0, <2>1, <2>5, PageAnswerKeeps
  <1>3. CASE ~more
    <2>0. TakesAnswer(page, CursorAt, "done") /\ UNCHANGED <<rows, head, late>>
      BY <1>3 DEF Receives, TakesAnswer, CursorAt
    <2>1. Moved(GotRows \cup page, CountOf + Cardinality(page), CursorAt, "done")
      BY <1>1, <2>0, AnswerMoves
    <2>2. page = Ahead
      BY <1>3
    <2> HIDE DEF page
    <2> QED BY <1>1, <2>0, <2>1, <2>2, PageAnswerKeeps
  <1> QED BY <1>2, <1>3

\* The pages of the API and those of the archive.
LEMMA PagesKeep ==
  ASSUME ReadsInv, EventsPage \/ ActivityPage \/ ArchivePage
  PROVE  ReadsInv'
PROOF
  <1>1. Bounded(Ahead)
    BY RowsBounded DEF ReadsInv
  <1>2. CASE Page(Ahead) /\ ReadState = "asks"
    <2>1. ProbeFound(Ahead) \in BOOLEAN
      BY DEF ProbeFound
    <2>2. PICK cursor : /\ Receives(FirstOf(Ahead, Limit), ProbeFound(Ahead), cursor)
                        /\ ProbeFound(Ahead) => cursor = LastOf(FirstOf(Ahead, Limit))
      BY <1>2 DEF Page, NextCursor
    <2> QED BY <1>1, <1>2, <2>1, <2>2, ProbeTells, PageKeeps
  <1>3. CASE ArchivePage
    <2> DEFINE page == FirstOf(Ahead, Limit)
    <2>1. /\ IsFiniteSet(page) /\ Cardinality(page) <= Limit
          /\ (Cardinality(page) < Limit => page = Ahead)
      BY <1>1, ReadsAssumption, FirstOfIsPrefix
    <2>2. FullPage(page) \in BOOLEAN /\ ReadState = "asks"
      BY <1>3 DEF FullPage, ArchivePage, Asks, ReadState
    <2>3. PICK cursor : /\ Receives(page, FullPage(page), cursor)
                        /\ FullPage(page) => cursor = LastOf(page)
      BY <1>3 DEF ArchivePage
    <2>4. FullPage(page) => page # {}
      BY ReadsAssumption, FS_EmptySet DEF FullPage
    <2>5. ~FullPage(page) => page = Ahead
      <3> HIDE DEF page
      <3>1. Cardinality(page) \in Nat
        BY <2>1, FS_CardinalityType
      <3> QED BY <2>1, <3>1, ReadsAssumption DEF FullPage
    <2> QED BY <2>2, <2>3, <2>4, <2>5, PageKeeps
  <1> QED BY <1>2, <1>3 DEF EventsPage, ActivityPage, Asks, ReadState

\* A place's ledger, in numbers.
LEMMA LedgerOfPlace ==
  ASSUME NEW p \in Nat, NEW l \in Nat
  PROVE  LedgerOf(p) \in Nat /\ (LedgerOf(p) <= l <=> p <= 2 * l) /\ p <= 2 * LedgerOf(p)
  BY DEF LedgerOf

\* One answer of the RPC.
LEMMA ScanKeeps ==
  ASSUME ReadsInv, Scan PROVE ReadsInv'
PROOF
  <1> DEFINE upto == Scanned
             set == {p \in Ahead : LedgerOf(p) <= upto}
             page == FirstOf(set, Limit)
             cursor == IF Cardinality(page) = Limit THEN LastOf(page) ELSE 2 * upto
             at == IF ScanEnds(page, cursor) THEN "done" ELSE "asks"
  <1>1. /\ SourceOf = "rpc" /\ ReadState = "asks"
        /\ Moved(GotRows \cup page, CountOf + Cardinality(page), cursor, at)
        /\ UNCHANGED <<rows, head, late>>
    <2>1. /\ SourceOf = "rpc" /\ ReadState = "asks" /\ ReaderShape
          /\ TakesAnswer(page, cursor, at) /\ UNCHANGED <<rows, head, late>>
      BY DEF Scan, Asks, SourceOf, ReadState, ReadsInv, ReadsShape, TakesAnswer
    <2> HIDE DEF page, cursor, at
    <2> QED BY <2>1, AnswerMoves
  <1>2. \A a, b : Nearer(a, b) <=> a < b
    BY <1>1 DEF Nearer, Sooner, ChainOrder
  <1>3. /\ Bounded(Ahead) /\ Ahead \subseteq rows /\ rows \subseteq 1 .. 2 * head
        /\ head \in 0 .. MaxLedger /\ CursorAt \in LedgerPlaces /\ GotRows \subseteq rows
    BY RowsBounded DEF ReadsInv, ReadsShape, ReaderShape
  <1>4. CursorAt \in Nat /\ head \in Nat /\ LedgerOf(CursorAt) \in Nat
    BY <1>3, LedgerOfPlace, ReadsAssumption DEF LedgerPlaces
  <1>5. upto \in 0 .. head /\ (upto = head \/ upto = LedgerOf(CursorAt) + Window)
    BY <1>4, ReadsAssumption DEF Scanned, CursorAt
  <1> HIDE DEF upto
  <1>6. set \subseteq Ahead /\ Bounded(set)
    BY <1>3, FS_Subset DEF Bounded
  <1>7. \A p \in Ahead : p \in set <=> p <= 2 * upto
    BY <1>3, <1>5, LedgerOfPlace
  <1>8. \A p \in GotRows : p <= 2 * upto
    <2> SUFFICES ASSUME NEW p \in GotRows PROVE p <= 2 * upto
      OBVIOUS
    <2>1. p \in 1 .. 2 * head /\ ~Nearer(CursorAt, p)
      BY <1>1, <1>3 DEF ReadsInv, NothingAhead
    <2>2. p <= CursorAt /\ CursorAt <= 2 * LedgerOf(CursorAt)
      BY <1>2, <1>4, <2>1, LedgerOfPlace
    <2> QED BY <1>4, <1>5, <2>1, <2>2, ReadsAssumption
  <1> HIDE DEF set
  <1>9. /\ page \subseteq set /\ IsFiniteSet(page)
        /\ Cardinality(page) <= Limit /\ (Cardinality(page) < Limit => page = set)
    BY <1>6, ReadsAssumption, FirstOfIsPrefix
  <1>10. at \in {"asks", "done"} /\ page \subseteq Ahead
    BY <1>6, <1>9
  <1>13. ASSUME at = "done", NEW p \in Ahead, cursor < p, cursor \in LedgerPlaces
         PROVE  LeftAt(cursor, p)
    <2>1. LedgerOf(cursor) >= head
      BY <1>13 DEF ScanEnds
    <2> HIDE DEF page, cursor
    <2>2. cursor \in Nat /\ p \in Nat /\ p <= 2 * head
      BY <1>3, <1>13, ReadsAssumption DEF LedgerPlaces
    <2>3. LedgerOf(p) = LedgerOf(cursor)
      BY <1>4, <1>13, <2>1, <2>2 DEF LedgerOf
    <2> QED BY <1>1, <1>13, <2>3 DEF LeftAt
  <1>11. CASE Cardinality(page) = Limit
    <2>1. page # {}
      BY <1>11, ReadsAssumption, FS_EmptySet
    <2> DEFINE last == LastOf(page)
    <2>2. /\ last \in LedgerPlaces /\ last \in page
          /\ \A p \in set : ~Nearer(last, p) => p \in page
          /\ \A p \in page \cup GotRows : ~Nearer(last, p)
      BY <1>1, <1>6, <2>1, CursorAtLast
    <2>3. cursor = last
      BY <1>11
    <2> HIDE DEF page, last, cursor, at
    <2>4. \A p \in Ahead : ~Nearer(last, p) => p \in page
      <3> SUFFICES ASSUME NEW p \in Ahead, ~Nearer(last, p) PROVE p \in set
        BY <2>2
      <3>1. p \in Nat /\ last \in Nat /\ last <= 2 * upto
        BY <1>3, <1>7, <1>9, <1>10, <2>2
      <3>2. p <= last
        BY <1>2, <3>1
      <3> QED BY <1>5, <1>7, <3>1, <3>2
    <2>5. /\ cursor \in LedgerPlaces /\ \A p \in Ahead : ~Nearer(cursor, p) => p \in page
          /\ \A p \in page \cup GotRows : ~Nearer(cursor, p)
      BY <2>2, <2>3, <2>4
    <2>6. at = "done" => \A p \in Ahead : p \in page \/ LeftAt(cursor, p)
      BY <1>2, <1>13, <2>5
    <2> QED BY <1>1, <1>10, <2>5, <2>6, PageAnswerKeeps
  <1>12. CASE Cardinality(page) # Limit
    <2>1. page = set
      <3> HIDE DEF page
      <3>1. Cardinality(page) \in Nat
        BY <1>9, FS_CardinalityType
      <3> QED BY <1>9, <1>12, <3>1, ReadsAssumption
    <2>2. cursor = 2 * upto
      BY <1>12
    <2> HIDE DEF page, cursor, at
    <2>3. cursor \in LedgerPlaces
      BY <1>3, <1>5, <2>2, ReadsAssumption DEF LedgerPlaces
    <2>4. \A p \in Ahead : ~Nearer(cursor, p) => p \in page
      <3> SUFFICES ASSUME NEW p \in Ahead, ~Nearer(cursor, p) PROVE p \in set
        BY <2>1
      <3>1. p \in Nat /\ cursor \in Nat
        BY <1>3, <1>5, <2>2
      <3>2. p <= 2 * upto
        BY <1>2, <2>2, <3>1
      <3> QED BY <1>7, <3>2
    <2>5. \A p \in page \cup GotRows : ~Nearer(cursor, p)
      <3> SUFFICES ASSUME NEW p \in page \cup GotRows PROVE ~Nearer(cursor, p)
        OBVIOUS
      <3>1. p \in Nat /\ cursor \in Nat /\ p <= 2 * upto
        BY <1>3, <1>5, <1>6, <1>7, <1>8, <2>1, <2>2
      <3> QED BY <1>2, <2>2, <3>1
    <2>6. at = "done" => \A p \in Ahead : p \in page \/ LeftAt(cursor, p)
      BY <1>2, <1>13, <2>3, <2>4
    <2> QED BY <1>1, <1>10, <2>3, <2>4, <2>5, <2>6, PageAnswerKeeps
  <1> QED BY <1>11, <1>12

\* Rows are added: where the reader has been, they are late.
LEMMA RowsComeKeep ==
  ASSUME ReadsInv, NEW more, rows' = rows \cup more, reader' = reader,
         head' \in 0 .. MaxLedger, head <= head', more \subseteq 1 .. 2 * head',
         \A p : p \in late' <=> p \in late \/ (p \in more /\ Passed(p))
  PROVE  ReadsInv'
PROOF
  <1>1. /\ SourceOf' = SourceOf /\ CursorAt' = CursorAt /\ GotRows' = GotRows
        /\ CountOf' = CountOf /\ ReadState' = ReadState
        /\ \A a, b : Nearer(a, b)' <=> Nearer(a, b)
    BY DEF SourceOf, CursorAt, GotRows, CountOf, ReadState, Nearer
  <1>2. ReadsShape'
    <2>1. ReaderShape'
      BY <1>1 DEF ReadsInv, ReadsShape, ReaderShape
    <2>2. rows' \subseteq 1 .. 2 * head'
      <3>1. head \in 0 .. MaxLedger /\ rows \subseteq 1 .. 2 * head
        BY DEF ReadsInv, ReadsShape
      <3>2. head \in Nat /\ head' \in Nat
        BY <3>1, ReadsAssumption
      <3>3. \A p \in 1 .. 2 * head : p \in 1 .. 2 * head'
        BY <3>2, MoreRoom
      <3> QED BY <3>1, <3>3
    <2> QED BY <1>1, <2>1, <2>2 DEF ReadsInv, ReadsShape
  <1>3. \A p : Passed(p) <=> ReadState = "done" \/ ~Nearer(CursorAt, p)
    BY DEF Passed, ReadState, Nearer, SourceOf, CursorAt
  <1>4. NothingAhead'
    BY <1>1 DEF ReadsInv, NothingAhead
  <1>5. AllBehind'
    BY <1>1, <1>3 DEF ReadsInv, AllBehind
  <1>6. AllAtEnd'
    BY <1>1, <1>3 DEF ReadsInv, AllAtEnd, LeftAt
  <1> QED BY <1>2, <1>4, <1>5, <1>6 DEF ReadsInv

\* A read begins: nothing is at or behind the place before all.
LEMMA NewReaderKeeps ==
  ASSUME head \in 0 .. MaxLedger, rows \subseteq 1 .. 2 * head, late = {},
         NEW source \in Sources, reader = NewReader(source)
  PROVE  ReadsInv
PROOF
  <1>1. /\ SourceOf = source /\ CursorAt = NoCursor(source) /\ GotRows = {} /\ CountOf = 0
        /\ ReadState = "asks"
    BY DEF NewReader, SourceOf, CursorAt, GotRows, CountOf, ReadState
  <1>2. CursorAt \in LedgerPlaces
    BY <1>1, ReadsAssumption DEF NoCursor, LedgerPlaces
  <1>3. ReaderShape
    BY <1>1, <1>2 DEF ReaderShape, NewReader
  <1>4. ReadsShape
    BY <1>1, <1>3, FS_EmptySet DEF ReadsShape
  <1>5. \A p \in rows : Nearer(CursorAt, p)
    BY <1>1, ReadsAssumption DEF Nearer, Sooner, NoCursor, LatestFirst, ChainOrder
  <1> QED BY <1>1, <1>4, <1>5 DEF ReadsInv, NothingAhead, AllBehind, AllAtEnd

\* A read begins with nothing behind its cursor.
LEMMA ReadsBegin == ReadsInit => ReadsInv
PROOF
  <1> SUFFICES ASSUME ReadsInit PROVE ReadsInv
    OBVIOUS
  <1>1. PICK source \in Sources : reader = NewReader(source)
    BY DEF ReadsInit
  <1>2. head \in 0 .. MaxLedger /\ rows \subseteq 1 .. 2 * head /\ late = {}
    BY DEF ReadsInit
  <1> QED BY <1>1, <1>2, NewReaderKeeps

\* Every step of the reader, the chain and the indexer keeps the invariant.
LEMMA ReadsKeep == ReadsInv /\ [ReadsNext]_readsVars => ReadsInv'
PROOF
  <1> SUFFICES ASSUME ReadsInv, [ReadsNext]_readsVars PROVE ReadsInv'
    OBVIOUS
  <1>1. /\ head \in 0 .. MaxLedger /\ head \in Nat /\ rows \subseteq 1 .. 2 * head
        /\ SourceOf \in Sources
    BY ReadsAssumption DEF ReadsInv, ReadsShape, ReaderShape
  <1>2. ASSUME NEW p \in 1 .. 2 * head, Insert(p) PROVE ReadsInv'
    <2>1. PICK more : more = {p}
      OBVIOUS
    <2>2. /\ rows' = rows \cup more /\ reader' = reader /\ head' = head
          /\ \A q : q \in late' <=> q \in late \/ (q \in more /\ Passed(q))
      BY <1>2, <2>1 DEF Insert
    <2>3. head' \in 0 .. MaxLedger /\ head <= head' /\ more \subseteq 1 .. 2 * head'
      BY <1>1, <2>1, <2>2
    <2> QED BY <2>2, <2>3, RowsComeKeep
  <1>3. ASSUME NEW new \in SUBSET PlacesOf(head + 1), CloseLedger(new) PROVE ReadsInv'
    <2>1. /\ rows' = rows \cup new /\ reader' = reader /\ head' = head + 1
          /\ head < MaxLedger /\ \A p : p \in late' <=> p \in late \/ (p \in new /\ Passed(p))
      BY <1>3 DEF CloseLedger
    <2>2. head' \in 0 .. MaxLedger /\ head <= head'
      BY <1>1, <2>1, ReadsAssumption
    <2>3. new \subseteq 1 .. 2 * head'
      BY <1>1, <2>1 DEF PlacesOf
    <2> QED BY <2>1, <2>2, <2>3, RowsComeKeep
  <1>4. CASE BeginsAgain
    <2>1. /\ reader' = NewReader(SourceOf) /\ late' = {} /\ rows' = rows /\ head' = head
      BY <1>4 DEF BeginsAgain, SourceOf
    <2>2. PICK source \in Sources : source = SourceOf
      BY <1>1
    <2>3. reader' = NewReader(source)
      BY <2>1, <2>2
    <2>4. /\ SourceOf' = source /\ CursorAt' = NoCursor(source) /\ GotRows' = {} /\ CountOf' = 0
          /\ ReadState' = "asks"
      BY <2>3 DEF NewReader, SourceOf, CursorAt, GotRows, CountOf, ReadState
    <2>5. CursorAt' \in LedgerPlaces
      BY <2>4, ReadsAssumption DEF NoCursor, LedgerPlaces
    <2>6. ReaderShape'
      BY <2>3, <2>4, <2>5 DEF ReaderShape, NewReader
    <2>7. ReadsShape'
      BY <1>1, <2>1, <2>4, <2>6, FS_EmptySet DEF ReadsShape
    <2>8. \A p \in rows' : Nearer(CursorAt, p)'
      BY <1>1, <2>1, <2>4, ReadsAssumption
         DEF Nearer, Sooner, NoCursor, LatestFirst, ChainOrder
    <2> QED BY <2>4, <2>7, <2>8 DEF ReadsInv, NothingAhead, AllBehind, AllAtEnd
  <1>5. CASE UNCHANGED readsVars
    <2>1. PICK more : more = {}
      OBVIOUS
    <2>2. /\ rows' = rows \cup more /\ reader' = reader /\ head' = head
          /\ \A q : q \in late' <=> q \in late \/ (q \in more /\ Passed(q))
      BY <1>5, <2>1 DEF readsVars
    <2>3. head' \in 0 .. MaxLedger /\ head <= head' /\ more \subseteq 1 .. 2 * head'
      BY <1>1, <2>1, <2>2
    <2> QED BY <2>2, <2>3, RowsComeKeep
  <1> QED BY <1>2, <1>3, <1>4, <1>5, PagesKeep, ScanKeeps DEF ReadsNext

\* A cursor can be trusted, from whichever source the reader entered: every
\* row at or behind it was received, but for those added there too late.
THEOREM CursorsCanBeTrusted == ReadsSpec => []NothingBehind
PROOF
  <1>1. ReadsInv => NothingBehind
    BY DEF ReadsInv, AllBehind, NothingBehind, Nearer, SourceOf, CursorAt, GotRows
  <1> QED BY <1>1, ReadsBegin, ReadsKeep, PTL DEF ReadsSpec

\* A read that ends has every row there was, each of them once; the RPC's read may
\* leave rows of the ledger it ended in, the latest, to the cursor it returns
\* (fetchEvents of ctd-sdk and the paginated routes of the API).
THEOREM ReadsAreComplete == ReadsSpec => []ReadComplete
PROOF
  <1>1. ReadsInv => ReadComplete
    BY DEF ReadsInv, ReadsShape, AllAtEnd, LeftAt, ReadComplete, LeftForNext, ReadState, SourceOf,
           CountOf, GotRows, CursorAt
  <1> QED BY <1>1, ReadsBegin, ReadsKeep, PTL DEF ReadsSpec

-----------------------------------------------------------------------------
(*****************************************************************************)
(* Disclosure: what a verifier accepts.                                      *)
(*****************************************************************************)

\* The circuits, and the transfers on chain.
Circuits == {"disclose_recipient", "disclose_sender"}
TransferEvents == [from : Accounts, to : Accounts, amount : Amounts, sigma : Nat]

\* The bundle answers the request with this nonce about this transfer, and its
\* account meant it to.
MadeFor(bundle, ref, nonce) ==
  /\ bundle.circuit \in Circuits
  /\ bundle.sealed = Seal(events[ref].amount, requests[nonce], nonce)
  /\ bundle.proof =
       PublicInputs(bundle.circuit, events[ref], requests[nonce], nonce, bundle.sealed)
  /\ [account |-> Discloser(bundle.circuit, events[ref]), circuit |-> bundle.circuit,
      amount |-> events[ref].amount, nonce |-> nonce] \in proven

\* Each bundle with what it was made for, and what was accepted.
DisclosureInv ==
  /\ events \in Seq(TransferEvents)
  /\ requests \in Seq(Verifiers)
  /\ \A bundle \in bundles : \E ref \in Events, nonce \in Nonces : MadeFor(bundle, ref, nonce)
  /\ AcceptedIsTrue
  /\ AcceptedWasMeant

\* What is appended leaves what is there as it is.
LEMMA Appended ==
  ASSUME NEW S, NEW s \in Seq(S), NEW e \in S
  PROVE  /\ Append(s, e) \in Seq(S) /\ DOMAIN s \subseteq DOMAIN Append(s, e)
         /\ \A i \in DOMAIN s : Append(s, e)[i] = s[i]
  OBVIOUS

\* Nothing is on chain, asked or disclosed to begin with.
LEMMA DisclosureBegins == DisclosureInit => DisclosureInv
  BY DEF DisclosureInit, DisclosureInv, AcceptedIsTrue, AcceptedWasMeant

\* Transfers and requests are only ever added, and what was meant stays meant:
\* what is true of bundles and of accepted disclosures stays true.
LEMMA HistoryGrows ==
  ASSUME DisclosureInv, bundles' = bundles, accepted' = accepted, proven' = proven,
         events' \in Seq(TransferEvents), requests' \in Seq(Verifiers),
         Events \subseteq Events', \A i \in Events : events'[i] = events[i],
         Nonces \subseteq Nonces', \A i \in Nonces : requests'[i] = requests[i]
  PROVE  DisclosureInv'
PROOF
  <1>1. ASSUME NEW bundle \in bundles
        PROVE  \E ref \in Events', nonce \in Nonces' : MadeFor(bundle, ref, nonce)'
    <2>1. PICK ref \in Events, nonce \in Nonces : MadeFor(bundle, ref, nonce)
      BY DEF DisclosureInv
    <2>2. MadeFor(bundle, ref, nonce)'
      BY <2>1 DEF MadeFor
    <2> QED BY <2>1, <2>2
  <1>2. AcceptedIsTrue' /\ AcceptedWasMeant'
    BY DEF DisclosureInv, AcceptedIsTrue, AcceptedWasMeant
  <1> QED BY <1>1, <1>2 DEF DisclosureInv

\* A holder answers a request about a transfer it is a party to (the witness
\* builders open the amount with the account's key).
LEMMA AnswerIsMeant ==
  ASSUME DisclosureInv, NEW account \in Accounts, NEW ref \in Events, NEW nonce \in Nonces,
         ProveRecipient(account, ref, nonce) \/ ProveSender(account, ref, nonce)
  PROVE  DisclosureInv'
PROOF
  <1>1. PICK circuit \in Circuits :
          Answers(account, circuit, ref, nonce) /\ account = Discloser(circuit, events[ref])
    BY DEF ProveRecipient, ProveSender, OpensAsRecipient, OpensAsSender, Circuits, Discloser
  <1> DEFINE made == [circuit |-> circuit, ref |-> ref,
                      sealed |-> Seal(events[ref].amount, requests[nonce], nonce),
                      proof |-> PublicInputs(circuit, events[ref], requests[nonce], nonce,
                                  Seal(events[ref].amount, requests[nonce], nonce))]
             meant == [account |-> account, circuit |-> circuit,
                       amount |-> events[ref].amount, nonce |-> nonce]
  <1>2. /\ bundles' = bundles \cup {made} /\ proven' = proven \cup {meant}
        /\ events' = events /\ requests' = requests /\ accepted' = accepted
    BY <1>1 DEF Answers
  <1>3. MadeFor(made, ref, nonce)'
    BY <1>1, <1>2 DEF MadeFor
  <1>4. ASSUME NEW bundle \in bundles
        PROVE  \E r \in Events', n \in Nonces' : MadeFor(bundle, r, n)'
    <2>1. PICK r \in Events, n \in Nonces : MadeFor(bundle, r, n)
      BY DEF DisclosureInv
    <2>2. MadeFor(bundle, r, n)'
      BY <1>2, <2>1 DEF MadeFor
    <2> QED BY <1>2, <2>1, <2>2 DEF Events, Nonces
  <1>5. AcceptedIsTrue' /\ AcceptedWasMeant'
    BY <1>2 DEF DisclosureInv, AcceptedIsTrue, AcceptedWasMeant, Events
  <1>6. \A b \in bundles' : \E r \in Events', n \in Nonces' : MadeFor(b, r, n)'
    <2>1. ref \in Events' /\ nonce \in Nonces'
      BY <1>2 DEF Events, Nonces
    <2> QED BY <1>2, <1>3, <1>4, <2>1
  <1> QED BY <1>2, <1>5, <1>6 DEF DisclosureInv

\* The proof ties the bundle to the transfer the verifier found and to the
\* request it checks against (verifyDisclosure).
LEMMA VerifiedIsMeant ==
  ASSUME DisclosureInv, NEW bundle \in bundles, NEW ref \in Events, NEW nonce \in Nonces,
         Verify(bundle, ref, nonce)
  PROVE  DisclosureInv'
PROOF
  <1>1. PICK r \in Events, n \in Nonces : MadeFor(bundle, r, n)
    BY DEF DisclosureInv
  <1>2. PublicInputs(bundle.circuit, events[ref], requests[nonce], nonce, bundle.sealed)
          = PublicInputs(bundle.circuit, events[r], requests[n], n, bundle.sealed)
    BY <1>1 DEF MadeFor, Verify
  <1>3. events[ref] = events[r] /\ nonce = n
    BY <1>2 DEF PublicInputs
  <1>4. bundle.sealed.amount = events[ref].amount
    BY <1>1, <1>3 DEF MadeFor, Seal
  <1> DEFINE taken == [account |-> Discloser(bundle.circuit, events[ref]),
                       circuit |-> bundle.circuit, ref |-> ref,
                       amount |-> bundle.sealed.amount, nonce |-> nonce]
  <1>5. /\ accepted' = {taken}
        /\ events' = events /\ requests' = requests /\ bundles' = bundles /\ proven' = proven
    BY DEF Verify
  <1>6. AcceptedIsTrue'
    BY <1>4, <1>5 DEF AcceptedIsTrue, Events
  <1>7. [account |-> taken.account, circuit |-> taken.circuit, amount |-> taken.amount,
         nonce |-> taken.nonce] \in proven
    BY <1>1, <1>3, <1>4 DEF MadeFor
  <1>8. AcceptedWasMeant'
    BY <1>5, <1>7 DEF AcceptedWasMeant
  <1>9. \A b \in bundles' : \E r1 \in Events', n1 \in Nonces' : MadeFor(b, r1, n1)'
    BY <1>5 DEF DisclosureInv, MadeFor, Events, Nonces
  <1> QED BY <1>5, <1>6, <1>8, <1>9 DEF DisclosureInv

\* The invariant is kept by the chain, the sources, the holders and the verifiers.
LEMMA DisclosureKeeps == DisclosureInv /\ [DisclosureNext]_disclosureVars => DisclosureInv'
PROOF
  <1> SUFFICES ASSUME DisclosureInv, [DisclosureNext]_disclosureVars PROVE DisclosureInv'
    OBVIOUS
  <1>1. ASSUME NEW from \in Accounts, NEW to \in Accounts, NEW amount \in Amounts,
               Transfer(from, to, amount)
        PROVE  DisclosureInv'
    <2>1. events \in Seq(TransferEvents) /\ Len(events) \in Nat
      BY DEF DisclosureInv
    <2>2. [from |-> from, to |-> to, amount |-> amount, sigma |-> Len(events) + 1]
            \in TransferEvents
      BY <2>1 DEF TransferEvents
    <2>3. /\ events' \in Seq(TransferEvents) /\ Events \subseteq Events'
          /\ \A i \in Events : events'[i] = events[i]
      BY <1>1, <2>1, <2>2, Appended DEF Transfer, Events
    <2>4. /\ requests' = requests /\ bundles' = bundles /\ accepted' = accepted
          /\ proven' = proven /\ requests' \in Seq(Verifiers) /\ Nonces' = Nonces
      BY <1>1 DEF Transfer, DisclosureInv, Nonces
    <2> QED BY <2>3, <2>4, HistoryGrows
  <1>2. CASE Expire \/ IndexNext \/ UNCHANGED disclosureVars
    BY <1>2, HistoryGrows DEF Expire, IndexNext, disclosureVars, DisclosureInv, Events, Nonces
  <1>3. ASSUME NEW verifier \in Verifiers, NewRequest(verifier) PROVE DisclosureInv'
    <2>1. /\ requests' \in Seq(Verifiers) /\ Nonces \subseteq Nonces'
          /\ \A i \in Nonces : requests'[i] = requests[i]
      BY <1>3, Appended DEF NewRequest, DisclosureInv, Nonces
    <2>2. /\ events' = events /\ bundles' = bundles /\ accepted' = accepted
          /\ proven' = proven /\ events' \in Seq(TransferEvents) /\ Events' = Events
      BY <1>3 DEF NewRequest, DisclosureInv, Events
    <2> QED BY <2>1, <2>2, HistoryGrows
  <1> QED
    BY <1>1, <1>2, <1>3, AnswerIsMeant, VerifiedIsMeant DEF DisclosureNext

\* The invariant holds in every reachable state.
LEMMA DisclosureInvariant == DisclosureSpec => []DisclosureInv
  BY DisclosureBegins, DisclosureKeeps, PTL DEF DisclosureSpec

\* What a verifier accepts is a transfer on chain and its true amount, whichever
\* bundles and references it is given.
THEOREM DisclosureIsTrue == DisclosureSpec => []AcceptedIsTrue
PROOF
  <1>1. DisclosureInv => AcceptedIsTrue
    BY DEF DisclosureInv
  <1> QED BY <1>1, DisclosureInvariant, PTL

\* What a verifier accepts was disclosed by the account itself, to this verifier
\* and for this request.
THEOREM DisclosureWasMeant == DisclosureSpec => []AcceptedWasMeant
PROOF
  <1>1. DisclosureInv => AcceptedWasMeant
    BY DEF DisclosureInv
  <1> QED BY <1>1, DisclosureInvariant, PTL

-----------------------------------------------------------------------------
(*****************************************************************************)
(* ArchiveDump: the script that recovers the pools' history.                 *)
(*****************************************************************************)

\* Quotient and remainder.
LEMMA Divided ==
  ASSUME NEW n \in Nat, NEW k \in Nat \ {0}
  PROVE  n \div k \in Nat /\ n % k \in 0 .. k - 1 /\ n % k = n - k * (n \div k)
PROOF
  <1>1. n \div k \in Nat
    OBVIOUS
  <1>2. n % k \in 0 .. k - 1
    OBVIOUS
  <1>3. n % k = n - k * (n \div k)
    BY Z3
  <1> QED BY <1>1, <1>2, <1>3

\* Dividing what was packed gives back its two places.
LEMMA Unpacked ==
  ASSUME NEW k \in Nat \ {0}, NEW q \in Nat, NEW r \in 0 .. k - 1
  PROVE  q * k + r \in Nat /\ (q * k + r) \div k = q /\ (q * k + r) % k = r
PROOF
  <1>1. PICK n \in Nat : n = q * k + r
    <2>1. q * k \in Nat
      OBVIOUS
    <2> QED BY <2>1
  <1>2. PICK d \in Nat : d = n \div k
    BY Divided
  <1>3. PICK s \in 0 .. k - 1 : s = n % k
    BY Divided
  <1>4. s = n - k * d
    BY <1>2, <1>3, Divided
  <1>5. q * k + r = d * k + s
    BY <1>1, <1>4
  <1>6. ~(q < d)
    <2> SUFFICES ASSUME q < d PROVE FALSE
      OBVIOUS
    <2>1. PICK x \in Nat : d = q + 1 + x
      <3>1. d - q - 1 \in Nat /\ d = q + 1 + (d - q - 1)
        OBVIOUS
      <3> QED BY <3>1
    <2>2. d * k = q * k + k + x * k /\ x * k \in Nat /\ q * k \in Nat
      BY <2>1
    <2> QED BY <1>5, <2>2
  <1>7. ~(d < q)
    <2> SUFFICES ASSUME d < q PROVE FALSE
      OBVIOUS
    <2>1. PICK x \in Nat : q = d + 1 + x
      <3>1. q - d - 1 \in Nat /\ q = d + 1 + (q - d - 1)
        OBVIOUS
      <3> QED BY <3>1
    <2>2. q * k = d * k + k + x * k /\ x * k \in Nat /\ d * k \in Nat
      BY <2>1
    <2> QED BY <1>5, <2>2
  <1>8. q = d
    BY <1>6, <1>7
  <1>9. r = s
    <2>1. q * k \in Nat
      OBVIOUS
    <2> QED BY <1>5, <1>8, <2>1
  <1> QED BY <1>1, <1>2, <1>3, <1>8, <1>9

\* An archived event.
Archived ==
  [contract : {Contracts[i] : i \in DOMAIN Contracts}, ledger : Nat,
   tx : 0 .. TxOrders - 1, op : 0 .. OpOrders - 1, index : Nat]

\* The archive's name of an event tells its places, and its transaction's name.
LEMMA ToidTells ==
  ASSUME NEW e \in Archived
  PROVE  /\ ToidOf(e) \in Nat
         /\ DecomposeToid(ToidOf(e)) = [ledger |-> e.ledger, tx |-> e.tx, op |-> e.op]
         /\ TxToid(ToidOf(e)) = Toid(e.ledger, e.tx, 0)
         /\ TxToid(ToidOf(e)) \in Nat /\ TxToid(ToidOf(e)) <= ToidOf(e)
PROOF
  <1>1. e.ledger \in Nat /\ e.tx \in 0 .. TxOrders - 1 /\ e.op \in 0 .. OpOrders - 1
    BY DEF Archived
  <1>2. OpOrders \in Nat \ {0} /\ TxOrders \in Nat \ {0}
    BY DumpAssumption
  <1>3. PICK q \in Nat : q = e.ledger * TxOrders + e.tx
    BY <1>1, <1>2, Unpacked
  <1>4. q \div TxOrders = e.ledger /\ q % TxOrders = e.tx
    BY <1>1, <1>2, <1>3, Unpacked
  <1>5. PICK n \in Nat : n = q * OpOrders + e.op
    BY <1>1, <1>2, Unpacked
  <1>6. n \div OpOrders = q /\ n % OpOrders = e.op
    BY <1>1, <1>2, <1>5, Unpacked
  <1>7. ToidOf(e) = n
    BY <1>3, <1>5 DEF ToidOf, Toid
  <1>8. DecomposeToid(n) = [ledger |-> e.ledger, tx |-> e.tx, op |-> e.op]
    BY <1>4, <1>6 DEF DecomposeToid
  <1>9. TxToid(n) = n - e.op
    BY <1>6 DEF TxToid
  <1>10. Toid(e.ledger, e.tx, 0) = q * OpOrders + 0
    BY <1>3 DEF Toid
  <1>11. q * OpOrders \in Nat
    BY <1>2
  <1>12. n - e.op = q * OpOrders + 0 /\ n - e.op \in Nat /\ n - e.op <= n
    BY <1>1, <1>2, <1>5, <1>11
  <1> QED BY <1>5, <1>7, <1>8, <1>9, <1>10, <1>12

\* Events with one name have the same places.
LEMMA ToidNames ==
  ASSUME NEW e \in Archived, NEW f \in Archived, ToidOf(e) = ToidOf(f)
  PROVE  e.ledger = f.ledger /\ e.tx = f.tx /\ e.op = f.op
PROOF
  <1>1. [ledger |-> e.ledger, tx |-> e.tx, op |-> e.op]
          = [ledger |-> f.ledger, tx |-> f.tx, op |-> f.op]
    BY ToidTells
  <1> QED BY <1>1

\* The order of the archive: strict, and between any two that differ in their
\* place.
LEMMA OrderIsStrict ==
  ASSUME NEW e \in Archived, NEW f \in Archived, NEW g \in Archived
  PROVE  /\ ~ArchiveOrder(e, e)
         /\ ArchiveOrder(e, f) => ~ArchiveOrder(f, e)
         /\ ArchiveOrder(e, f) /\ ArchiveOrder(f, g) => ArchiveOrder(e, g)
         /\ ToidOf(e) # ToidOf(f) \/ e.index # f.index
              => ArchiveOrder(e, f) \/ ArchiveOrder(f, e)
PROOF
  <1>1. /\ ToidOf(e) \in Nat /\ ToidOf(f) \in Nat /\ ToidOf(g) \in Nat
        /\ e.index \in Nat /\ f.index \in Nat /\ g.index \in Nat
    BY ToidTells DEF Archived
  <1> QED BY <1>1 DEF ArchiveOrder

\* A row is its event: the same places, and so the same order.
LEMMA RowIsEvent ==
  ASSUME NEW e \in Archived, NEW f \in Archived
  PROVE  /\ RowOf(e) = RowOf(f) => e = f
         /\ ArchiveOrder(RowOf(e), RowOf(f)) <=> ArchiveOrder(e, f)
         /\ ArchiveOrder(RowOf(e), f) <=> ArchiveOrder(e, f)
PROOF
  <1>1. /\ RowOf(e).contract = e.contract /\ RowOf(e).ledger = e.ledger /\ RowOf(e).tx = e.tx
        /\ RowOf(e).op = e.op /\ RowOf(e).index = e.index
    BY DEF RowOf
  <1>2. /\ RowOf(f).contract = f.contract /\ RowOf(f).ledger = f.ledger /\ RowOf(f).tx = f.tx
        /\ RowOf(f).op = f.op /\ RowOf(f).index = f.index
    BY DEF RowOf
  <1>3. RowOf(e) = RowOf(f) => e = f
    <2> SUFFICES ASSUME RowOf(e) = RowOf(f) PROVE e = f
      OBVIOUS
    <2>1. /\ e.contract = f.contract /\ e.ledger = f.ledger /\ e.tx = f.tx
          /\ e.op = f.op /\ e.index = f.index
      BY <1>1, <1>2
    <2> QED BY <2>1 DEF Archived
  <1>4. ToidOf(RowOf(e)) = ToidOf(e) /\ ToidOf(RowOf(f)) = ToidOf(f)
    BY <1>1, <1>2 DEF ToidOf
  <1> QED BY <1>1, <1>2, <1>3, <1>4 DEF ArchiveOrder

\* Of these places the ones before a place.
Before(Less, n, i) == {j \in 1 .. n : <<j, i>> \in Less}

\* An order of n places can be counted off.
LEMMA Ranked ==
  ASSUME NEW n \in Nat, NEW Less,
         \A i \in 1 .. n : <<i, i>> \notin Less,
         \A i, j, k \in 1 .. n : <<i, j>> \in Less /\ <<j, k>> \in Less => <<i, k>> \in Less,
         \A i, j \in 1 .. n : i # j => <<i, j>> \in Less \/ <<j, i>> \in Less
  PROVE  \E p \in [1 .. n -> 1 .. n] :
           /\ \A i, j \in 1 .. n : i # j => p[i] # p[j]
           /\ \A i, j \in 1 .. n : i < j => <<p[i], p[j]>> \in Less
PROOF
  <1> DEFINE B(i) == Before(Less, n, i)
  <1>1. IsFiniteSet(1 .. n) /\ Cardinality(1 .. n) = n
    BY FS_Interval
  <1>2. ASSUME NEW i \in 1 .. n
        PROVE  IsFiniteSet(B(i)) /\ Cardinality(B(i)) \in Nat /\ Cardinality(B(i)) < n
    <2>1. B(i) \in SUBSET ((1 .. n) \ {i})
      BY DEF Before
    <2>2. IsFiniteSet((1 .. n) \ {i}) /\ Cardinality((1 .. n) \ {i}) = n - 1
      BY <1>1, FS_RemoveElement
    <2>3. IsFiniteSet(B(i)) /\ Cardinality(B(i)) <= n - 1
      BY <2>1, <2>2, FS_Subset
    <2>4. Cardinality(B(i)) \in Nat
      BY <2>3, FS_CardinalityType
    <2> QED BY <2>3, <2>4
  <1>3. ASSUME NEW i \in 1 .. n, NEW j \in 1 .. n, <<i, j>> \in Less
        PROVE  Cardinality(B(i)) < Cardinality(B(j))
    <2>1. B(i) \cup {i} \in SUBSET B(j)
      BY <1>3 DEF Before
    <2>2. i \notin B(i)
      BY DEF Before
    <2>3. Cardinality(B(i) \cup {i}) = Cardinality(B(i)) + 1
      BY <1>2, <2>2, FS_AddElement
    <2>4. Cardinality(B(i) \cup {i}) <= Cardinality(B(j))
      BY <1>2, <2>1, FS_Subset
    <2> QED BY <1>2, <2>3, <2>4
  <1> DEFINE rank == [i \in 1 .. n |-> Cardinality(B(i)) + 1]
  <1>4. rank \in [1 .. n -> 1 .. n]
    BY <1>2
  <1>5. \A i, j \in 1 .. n : <<i, j>> \in Less => rank[i] < rank[j]
    BY <1>2, <1>3
  <1> HIDE DEF rank, B
  <1>6. rank \in Injection(1 .. n, 1 .. n)
    <2>1. ASSUME NEW i \in 1 .. n, NEW j \in 1 .. n, i # j
          PROVE  rank[i] # rank[j]
      <3>1. rank[i] \in Nat /\ rank[j] \in Nat
        BY <1>4
      <3>2. rank[i] < rank[j] \/ rank[j] < rank[i]
        BY <1>5, <2>1
      <3> QED BY <3>1, <3>2
    <2> QED BY <1>4, <2>1 DEF Injection, IsInjective
  <1>7. rank \in Surjection(1 .. n, 1 .. n)
    BY <1>1, <1>6, FS_Injection
  <1>8. \A k \in 1 .. n : \E i \in 1 .. n : rank[i] = k
    BY <1>7 DEF Surjection
  <1> DEFINE p == [k \in 1 .. n |-> CHOOSE i \in 1 .. n : rank[i] = k]
  <1>9. p \in [1 .. n -> 1 .. n] /\ \A k \in 1 .. n : rank[p[k]] = k
    BY <1>8
  <1> HIDE DEF p
  <1>10. \A i, j \in 1 .. n : i # j => p[i] # p[j]
    BY <1>9
  <1>11. ASSUME NEW i \in 1 .. n, NEW j \in 1 .. n, i < j
         PROVE  <<p[i], p[j]>> \in Less
    <2>1. p[i] # p[j] /\ p[i] \in 1 .. n /\ p[j] \in 1 .. n
      BY <1>9, <1>10, <1>11
    <2>2. <<p[j], p[i]>> \notin Less
      <3>1. SUFFICES ASSUME <<p[j], p[i]>> \in Less PROVE FALSE
        OBVIOUS
      <3>2. rank[p[j]] < rank[p[i]]
        BY <1>5, <2>1, <3>1
      <3>3. j < i
        BY <1>9, <3>2
      <3> QED BY <1>11, <3>3
    <2> QED BY <2>1, <2>2
  <1> QED BY <1>9, <1>10, <1>11

\* The elements of a sequence are in strict order, none as high as another.
Ordered(s, n) ==
  /\ \A i \in 1 .. n : ~ArchiveOrder(s[i], s[i])
  /\ \A i, j, k \in 1 .. n :
       ArchiveOrder(s[i], s[j]) /\ ArchiveOrder(s[j], s[k]) => ArchiveOrder(s[i], s[k])
  /\ \A i, j \in 1 .. n : i # j => ArchiveOrder(s[i], s[j]) \/ ArchiveOrder(s[j], s[i])

\* The enumerations of a finite set are the bijections.
LEMMA Enumerates ==
  ASSUME NEW S, IsFiniteSet(S)
  PROVE  /\ SeqExt!SetToSeqs(S) = {f \in [1 .. Cardinality(S) -> S] :
                \A i, j \in 1 .. Cardinality(S) : i # j => f[i] # f[j]}
         /\ \A f \in SeqExt!SetToSeqs(S) : \A x \in S : \E i \in 1 .. Cardinality(S) : f[i] = x
PROOF
  <1>1. SeqExt!Cardinality(S) = Cardinality(S)
    BY DEF SeqExt!Cardinality, Cardinality
  <1>2. SeqExt!SetToSeqs(S) = {f \in [1 .. Cardinality(S) -> S] :
                \A i, j \in 1 .. Cardinality(S) : i # j => f[i] # f[j]}
    BY <1>1 DEF SeqExt!SetToSeqs
  <1>3. Cardinality(S) \in Nat
    BY FS_CardinalityType
  <1>4. IsFiniteSet(1 .. Cardinality(S)) /\ Cardinality(1 .. Cardinality(S)) = Cardinality(S)
    BY <1>3, FS_Interval
  <1>5. ASSUME NEW f \in SeqExt!SetToSeqs(S)
        PROVE  \A x \in S : \E i \in 1 .. Cardinality(S) : f[i] = x
    <2>1. f \in Injection(1 .. Cardinality(S), S)
      BY <1>2 DEF Injection, IsInjective
    <2>2. f \in Surjection(1 .. Cardinality(S), S)
      BY <1>4, <2>1, FS_Injection
    <2> QED BY <2>2 DEF Surjection
  <1> QED BY <1>2, <1>5

\* Places that are in strict order can be put in sequence.
LEMMA Arranged ==
  ASSUME NEW n \in Nat, NEW s, Ordered(s, n)
  PROVE  \E p \in [1 .. n -> 1 .. n] :
           /\ \A i, j \in 1 .. n : i # j => p[i] # p[j]
           /\ \A i, j \in 1 .. n : i < j => ~ArchiveOrder(s[p[j]], s[p[i]])
PROOF
  <1> DEFINE Less == {q \in (1 .. n) \X (1 .. n) : ArchiveOrder(s[q[1]], s[q[2]])}
  <1>1. \A i, j \in 1 .. n : <<i, j>> \in Less <=> ArchiveOrder(s[i], s[j])
    OBVIOUS
  <1> HIDE DEF Less
  <1>2. \A i \in 1 .. n : <<i, i>> \notin Less
    BY <1>1 DEF Ordered
  <1>3. \A i, j, k \in 1 .. n : <<i, j>> \in Less /\ <<j, k>> \in Less => <<i, k>> \in Less
    BY <1>1 DEF Ordered
  <1>4. \A i, j \in 1 .. n : i # j => <<i, j>> \in Less \/ <<j, i>> \in Less
    BY <1>1 DEF Ordered
  <1>5. PICK p \in [1 .. n -> 1 .. n] :
           /\ \A i, j \in 1 .. n : i # j => p[i] # p[j]
           /\ \A i, j \in 1 .. n : i < j => <<p[i], p[j]>> \in Less
    BY <1>2, <1>3, <1>4, Ranked
  <1>6. ASSUME NEW i \in 1 .. n, NEW j \in 1 .. n, i < j
        PROVE  ~ArchiveOrder(s[p[j]], s[p[i]])
    <2>1. p[i] \in 1 .. n /\ p[j] \in 1 .. n
      BY <1>5
    <2>2. <<p[i], p[j]>> \in Less
      BY <1>5, <1>6
    <2>3. ~(<<p[j], p[i]>> \in Less)
      BY <1>2, <1>3, <2>1, <2>2
    <2> QED BY <1>1, <2>1, <2>3
  <1> QED BY <1>5, <1>6

\* What is put in order is one of the sequences that could be, and in order.
LEMMA PutInOrder ==
  ASSUME NEW seqs, NEW t \in seqs,
         \A i, j \in DOMAIN t : i < j => ~ArchiveOrder(t[j], t[i])
  PROVE  /\ InOrder(seqs) \in seqs
         /\ \A i, j \in DOMAIN InOrder(seqs) :
              i < j => ~ArchiveOrder(InOrder(seqs)[j], InOrder(seqs)[i])
  BY DEF InOrder

\* A sequence has the elements of another, in strict order.
SortedFrom(s, list, n) ==
  /\ DOMAIN s = 1 .. n
  /\ \A i, j \in DOMAIN s : i < j => ArchiveOrder(s[i], s[j])
  /\ \A i \in 1 .. n : \E j \in 1 .. n : s[i] = list[j]
  /\ \A j \in 1 .. n : \E i \in 1 .. n : s[i] = list[j]

\* A sorted file: the rows it was made of, in strict order.
LEMMA SortedRows ==
  ASSUME NEW list, NEW n \in Nat, DOMAIN list = 1 .. n, Ordered(list, n),
         NEW s, s = InOrder(Rearranged(list))
  PROVE  SortedFrom(s, list, n)
PROOF
  <1>1. IsFiniteSet(1 .. n) /\ Cardinality(1 .. n) = n
    BY FS_Interval
  <1>2. /\ SeqExt!SetToSeqs(1 .. n) =
             {f \in [1 .. n -> 1 .. n] : \A i, j \in 1 .. n : i # j => f[i] # f[j]}
        /\ \A f \in SeqExt!SetToSeqs(1 .. n) : \A x \in 1 .. n : \E i \in 1 .. n : f[i] = x
    <2>1. PICK D : D = 1 .. n
      OBVIOUS
    <2>2. IsFiniteSet(D) /\ Cardinality(D) = n
      BY <1>1, <2>1
    <2>3. /\ SeqExt!SetToSeqs(D) = {f \in [1 .. n -> D] : \A i, j \in 1 .. n : i # j => f[i] # f[j]}
          /\ \A f \in SeqExt!SetToSeqs(D) : \A x \in D : \E i \in 1 .. n : f[i] = x
      BY <2>2, Enumerates
    <2> QED BY <2>1, <2>3
  <1>3. PICK q \in [1 .. n -> 1 .. n] :
           /\ \A i, j \in 1 .. n : i # j => q[i] # q[j]
           /\ \A i, j \in 1 .. n : i < j => ~ArchiveOrder(list[q[j]], list[q[i]])
    BY Arranged
  <1>4. q \in SeqExt!SetToSeqs(1 .. n)
    BY <1>2, <1>3
  <1> DEFINE t == [i \in 1 .. n |-> list[q[i]]]
  <1>5. t \in Rearranged(list)
    BY <1>4 DEF Rearranged
  <1>6. \A i, j \in DOMAIN t : i < j => ~ArchiveOrder(t[j], t[i])
    BY <1>3
  <1>7. s \in Rearranged(list) /\ \A i, j \in DOMAIN s : i < j => ~ArchiveOrder(s[j], s[i])
    BY <1>5, <1>6, PutInOrder
  <1>8. PICK p \in SeqExt!SetToSeqs(1 .. n) : s = [i \in 1 .. n |-> list[p[i]]]
    BY <1>7 DEF Rearranged
  <1>9. p \in [1 .. n -> 1 .. n] /\ \A i, j \in 1 .. n : i # j => p[i] # p[j]
    BY <1>2
  <1>10. \A x \in 1 .. n : \E i \in 1 .. n : p[i] = x
    BY <1>2
  <1>11. DOMAIN s = 1 .. n /\ \A i \in 1 .. n : s[i] = list[p[i]] /\ p[i] \in 1 .. n
    BY <1>8, <1>9
  <1>12. ASSUME NEW i \in 1 .. n, NEW j \in 1 .. n, i < j
         PROVE  ArchiveOrder(s[i], s[j])
    <2>1. ~ArchiveOrder(s[j], s[i])
      BY <1>7, <1>11, <1>12
    <2>2. p[i] # p[j] /\ p[i] \in 1 .. n /\ p[j] \in 1 .. n
      BY <1>9, <1>12
    <2> QED BY <1>11, <2>1, <2>2 DEF Ordered
  <1>13. \A i \in 1 .. n : \E j \in 1 .. n : s[i] = list[j]
    BY <1>11
  <1>14. ASSUME NEW j \in 1 .. n
         PROVE  \E i \in 1 .. n : s[i] = list[j]
    <2>1. PICK i \in 1 .. n : p[i] = j
      BY <1>10
    <2> QED BY <1>11, <2>1
  <1> QED BY <1>11, <1>12, <1>13, <1>14 DEF SortedFrom

\* A sorted page list: each of the set's members once, in strict order.
LEMMA SortedSet ==
  ASSUME NEW S, IsFiniteSet(S),
         \A x \in S : ~ArchiveOrder(x, x),
         \A x, y, z \in S : ArchiveOrder(x, y) /\ ArchiveOrder(y, z) => ArchiveOrder(x, z),
         \A x, y \in S : x # y => ArchiveOrder(x, y) \/ ArchiveOrder(y, x),
         NEW s, s = InOrder(SeqExt!SetToSeqs(S))
  PROVE  /\ s \in Seq(S)
         /\ \A i, j \in DOMAIN s : i < j => ArchiveOrder(s[i], s[j])
         /\ \A x \in S : \E i \in DOMAIN s : s[i] = x
PROOF
  <1>1. PICK n \in Nat : n = Cardinality(S)
    BY FS_CardinalityType
  <1>2. PICK b : b \in Bijection(1 .. n, S)
    BY <1>1, FS_CardinalityType DEF ExistsBijection
  <1>3. b \in [1 .. n -> S] /\ \A i, j \in 1 .. n : i # j => b[i] # b[j]
    BY <1>2 DEF Bijection, Injection, IsInjective
  <1>4. Ordered(b, n)
    BY <1>3 DEF Ordered
  <1>5. PICK q \in [1 .. n -> 1 .. n] :
           /\ \A i, j \in 1 .. n : i # j => q[i] # q[j]
           /\ \A i, j \in 1 .. n : i < j => ~ArchiveOrder(b[q[j]], b[q[i]])
    BY <1>4, Arranged
  <1>6. /\ SeqExt!SetToSeqs(S) =
             {f \in [1 .. n -> S] : \A i, j \in 1 .. n : i # j => f[i] # f[j]}
        /\ \A f \in SeqExt!SetToSeqs(S) : \A x \in S : \E i \in 1 .. n : f[i] = x
    BY <1>1, Enumerates
  <1> DEFINE t == [i \in 1 .. n |-> b[q[i]]]
  <1>7. t \in [1 .. n -> S] /\ \A i, j \in 1 .. n : i # j => t[i] # t[j]
    BY <1>3, <1>5
  <1>8. t \in SeqExt!SetToSeqs(S)
    BY <1>6, <1>7
  <1>9. \A i, j \in DOMAIN t : i < j => ~ArchiveOrder(t[j], t[i])
    BY <1>5
  <1>10. s \in SeqExt!SetToSeqs(S) /\ \A i, j \in DOMAIN s : i < j => ~ArchiveOrder(s[j], s[i])
    BY <1>8, <1>9, PutInOrder
  <1>11. s \in [1 .. n -> S] /\ \A i, j \in 1 .. n : i # j => s[i] # s[j]
    BY <1>6, <1>10
  <1>12. DOMAIN s = 1 .. n /\ s \in Seq(S)
    BY <1>11
  <1>13. ASSUME NEW i \in 1 .. n, NEW j \in 1 .. n, i < j
         PROVE  ArchiveOrder(s[i], s[j])
    <2>1. s[i] # s[j] /\ s[i] \in S /\ s[j] \in S
      BY <1>11, <1>13
    <2> QED BY <1>10, <1>12, <1>13, <2>1
  <1>14. \A x \in S : \E i \in DOMAIN s : s[i] = x
    BY <1>6, <1>10, <1>12
  <1> QED BY <1>12, <1>13, <1>14

\* The script's fields.
Stage == dump.at
Todo == dump.todo
Written == dump.rows

\* An event that the script has a row of, or is about to.
Noted(e) == \E i \in DOMAIN Written : Written[i] = RowOf(e)
Due(e) == \E i \in DOMAIN Todo : Todo[i] = e
InHand(e) == Noted(e) \/ Due(e)

\* The archive: events, no two in one place.
ArchiveOK ==
  /\ archive \subseteq Archived /\ IsFiniteSet(archive)
  /\ \A e, f \in archive : ToidOf(e) = ToidOf(f) /\ e.index = f.index => e = f

\* The rows and their hashes.
AllHashes == {HashOf(t) : t \in Nat}
AllRows ==
  [contract : {Contracts[i] : i \in DOMAIN Contracts}, ledger : Nat,
   tx : 0 .. TxOrders - 1, op : 0 .. OpOrders - 1, index : Nat, hash : AllHashes]

Scripts ==
  [at : {"stopped", "fetch", "resolve", "write"}, contract : Nat, todo : Seq(Archived),
   rows : Seq(AllRows), cache : SUBSET [tx : Nat, hash : AllHashes]]

\* A script that is well-formed: its hashes are true, it has a contract to read,
\* and nothing is due but while it resolves.
ScriptShape ==
  /\ dump \in Scripts
  /\ \A c \in dump.cache : c.hash = HashOf(c.tx)
  /\ Stage \in {"fetch", "resolve"} => dump.contract \in DOMAIN Contracts
  /\ Stage # "resolve" => Todo = <<>>

\* Each row is that of another event there was; what is due has none yet, and
\* is in order.
RowsOK ==
  /\ \A i \in DOMAIN Written : \E e \in archive : Written[i] = RowOf(e)
  /\ \A i, j \in DOMAIN Written : i # j => Written[i] # Written[j]
DueOK ==
  /\ \A i \in DOMAIN Todo : Todo[i] \in archive /\ ~Noted(Todo[i])
  /\ \A i, j \in DOMAIN Todo : i < j => ArchiveOrder(Todo[i], Todo[j])

\* What is in hand is of the contracts so far, and of none of them an event is
\* missing before one that is in hand.
HandOK ==
  /\ \A e, f \in archive :
       e.contract = f.contract /\ ArchiveOrder(e, f) /\ InHand(f) => InHand(e)
  /\ \A e \in archive : InHand(e) =>
       \E i \in DOMAIN Contracts : /\ e.contract = Contracts[i] /\ i <= dump.contract
                                   /\ Stage = "fetch" => i < dump.contract

DumpInv == ArchiveOK /\ ScriptShape /\ RowsOK /\ DueOK /\ HandOK /\ DumpFaithful

\* The fields of a script that is well-formed.
LEMMA ScriptFields ==
  ASSUME ScriptShape
  PROVE  /\ Stage \in {"stopped", "fetch", "resolve", "write"} /\ dump.contract \in Nat
         /\ Todo \in Seq(Archived) /\ Written \in Seq(AllRows)
         /\ dump.cache \in SUBSET [tx : Nat, hash : AllHashes]
  BY DEF ScriptShape, Scripts, Stage, Todo, Written

\* A script that has not begun.
LEMMA NotRunningOK ==
  ASSUME ArchiveOK, dump' = NotRunning, archive' = archive
  PROVE  ScriptShape' /\ RowsOK' /\ DueOK' /\ HandOK'
PROOF
  <1>1. /\ dump'.at = "stopped" /\ dump'.contract = 0 /\ dump'.todo = <<>> /\ dump'.rows = <<>>
        /\ dump'.cache = {}
    BY DEF NotRunning
  <1>2. dump' \in Scripts
    BY DEF Scripts, NotRunning
  <1>3. Written' = <<>> /\ Todo' = <<>> /\ Stage' = "stopped"
    BY <1>1 DEF Written, Todo, Stage
  <1>4. ScriptShape'
    BY <1>1, <1>2, <1>3 DEF ScriptShape
  <1>5. RowsOK' /\ DueOK'
    BY <1>3 DEF RowsOK, DueOK
  <1>6. \A e : ~InHand(e)'
    BY <1>3 DEF InHand, Noted, Due
  <1>7. HandOK'
    BY <1>6 DEF HandOK
  <1> QED BY <1>4, <1>5, <1>7

\* The initial states.
LEMMA DumpBegins ==
  ASSUME DumpInit
  PROVE  DumpInv
PROOF
  <1>1. archive = {} /\ dump = NotRunning /\ fixture = NoFixture
    BY DEF DumpInit
  <1>2. ArchiveOK
    BY <1>1, FS_EmptySet DEF ArchiveOK
  <1>3. /\ dump.at = "stopped" /\ dump.contract = 0 /\ dump.todo = <<>> /\ dump.rows = <<>>
        /\ dump.cache = {}
    BY <1>1 DEF NotRunning
  <1>4. dump \in Scripts
    BY <1>1 DEF Scripts, NotRunning
  <1>5. ScriptShape
    BY <1>3, <1>4 DEF ScriptShape, Stage, Todo
  <1>6. RowsOK /\ DueOK /\ HandOK
    BY <1>1, <1>3 DEF RowsOK, DueOK, HandOK, Written, Todo
  <1>7. DumpFaithful
    BY <1>1 DEF DumpFaithful
  <1> QED BY <1>2, <1>5, <1>6, <1>7 DEF DumpInv

\* A transaction's events come after those of the transactions before it.
LEMMA EmitsLater ==
  ASSUME NEW e \in Archived, NEW f \in Archived,
         TxToid(ToidOf(e)) < Toid(f.ledger, f.tx, 0)
  PROVE  ToidOf(e) < ToidOf(f)
PROOF
  <1>1. /\ e.ledger \in Nat /\ e.tx \in Nat /\ e.op \in 0 .. OpOrders - 1
        /\ f.ledger \in Nat /\ f.tx \in Nat /\ f.op \in 0 .. OpOrders - 1
    BY DumpAssumption DEF Archived
  <1>2. OpOrders \in Nat \ {0} /\ TxOrders \in Nat \ {0}
    BY DumpAssumption
  <1>3. PICK q \in Nat : q = e.ledger * TxOrders + e.tx
    BY <1>1, <1>2
  <1>4. PICK r \in Nat : r = f.ledger * TxOrders + f.tx
    BY <1>1, <1>2
  <1>5. ToidOf(e) = q * OpOrders + e.op /\ ToidOf(f) = r * OpOrders + f.op
    BY <1>3, <1>4 DEF ToidOf, Toid
  <1>6. Toid(e.ledger, e.tx, 0) = q * OpOrders + 0 /\ Toid(f.ledger, f.tx, 0) = r * OpOrders + 0
    BY <1>3, <1>4 DEF Toid
  <1>7. q * OpOrders \in Nat /\ r * OpOrders \in Nat
    BY <1>2
  <1>8. q * OpOrders < r * OpOrders
    BY <1>6, <1>7, ToidTells
  <1>9. q < r
    <2>1. SUFFICES ASSUME r <= q PROVE FALSE
      OBVIOUS
    <2>2. PICK x \in Nat : q = r + x
      <3>1. q - r \in Nat /\ q = r + (q - r)
        BY <2>1
      <3> QED BY <3>1
    <2>3. q * OpOrders = r * OpOrders + x * OpOrders /\ x * OpOrders \in Nat
      BY <1>2, <2>2
    <2> QED BY <1>7, <1>8, <2>3
  <1>10. q * OpOrders + OpOrders <= r * OpOrders
    <2>1. PICK x \in Nat : r = q + 1 + x
      <3>1. r - q - 1 \in Nat /\ r = q + 1 + (r - q - 1)
        BY <1>9
      <3> QED BY <3>1
    <2>2. r * OpOrders = q * OpOrders + OpOrders + x * OpOrders /\ x * OpOrders \in Nat
      BY <1>2, <2>1
    <2> QED BY <1>2, <1>7, <2>2
  <1> QED BY <1>1, <1>2, <1>5, <1>7, <1>10

\* A transaction.
LEMMA EmitsKeeps ==
  ASSUME DumpInv, NEW ledger \in 1 .. MaxTxs, NEW tx \in 1 .. MaxTxs,
         NEW places \in SUBSET Positions \ {{}},
         NEW emitted \in [places -> {Contracts[i] : i \in DOMAIN Contracts}],
         Emits(ledger, tx, emitted)
  PROVE  DumpInv'
PROOF
  <1> DEFINE Event(p) ==
        [contract |-> emitted[p], ledger |-> ledger, tx |-> tx, op |-> p[1], index |-> p[2]]
  <1> DEFINE Fresh == {Event(p) : p \in places}
  <1>1. /\ archive' = archive \cup Fresh /\ dump' = dump /\ fixture' = fixture
        /\ tx < TxOrders /\ \A t \in Txs : t < Toid(ledger, tx, 0)
    BY DEF Emits
  <1>2. /\ MaxTxs \in Nat /\ IsFiniteSet(Positions) /\ Positions \subseteq (0 .. OpOrders - 1) \X Nat
        /\ TxOrders \in Nat
    BY DumpAssumption
  <1>3. archive \subseteq Archived /\ IsFiniteSet(archive)
    BY DEF DumpInv, ArchiveOK
  <1>4. \A p \in places : p[1] \in 0 .. OpOrders - 1 /\ p[2] \in Nat /\ p = <<p[1], p[2]>>
    BY <1>2
  <1>5. Fresh \subseteq Archived
    <2> SUFFICES ASSUME NEW p \in places PROVE Event(p) \in Archived
      OBVIOUS
    <2>1. ledger \in Nat /\ tx \in 0 .. TxOrders - 1
      BY <1>1, <1>2
    <2> QED BY <1>4, <2>1 DEF Archived
  <1>6. \A g \in Fresh : g.ledger = ledger /\ g.tx = tx
    OBVIOUS
  <1>7. \A g, h \in Fresh : g.op = h.op /\ g.index = h.index => g = h
    BY <1>4
  <1>8. IsFiniteSet(Fresh)
    <2>1. IsFiniteSet(places)
      BY <1>2, FS_Subset
    <2> DEFINE made == [p \in places |-> Event(p)]
    <2>2. made \in Surjection(places, Fresh)
      BY DEF Surjection
    <2> HIDE DEF Fresh, made
    <2> QED BY <2>1, <2>2, FS_Surjection
  <1> HIDE DEF Fresh
  <1>9. ASSUME NEW e \in archive, NEW g \in Fresh
        PROVE  ToidOf(e) < ToidOf(g)
    <2>1. TxToid(ToidOf(e)) \in Txs
      BY DEF Txs
    <2>2. TxToid(ToidOf(e)) < Toid(g.ledger, g.tx, 0)
      BY <1>1, <1>6, <2>1
    <2> QED BY <1>3, <1>5, <2>2, EmitsLater
  <1>10. ArchiveOK'
    <2>1. archive' \subseteq Archived
      BY <1>1, <1>3, <1>5
    <2>2. IsFiniteSet(archive')
      BY <1>1, <1>3, <1>8, FS_Union
    <2>3. ASSUME NEW e \in archive', NEW f \in archive', ToidOf(e) = ToidOf(f), e.index = f.index
          PROVE  e = f
      <3>0. ToidOf(e) \in Nat
        BY <2>1, ToidTells
      <3>1. CASE e \in archive /\ f \in archive
        BY <2>3, <3>1 DEF DumpInv, ArchiveOK
      <3>2. CASE e \in archive /\ f \in Fresh
        BY <1>9, <2>3, <3>0, <3>2
      <3>3. CASE e \in Fresh /\ f \in archive
        BY <1>9, <2>3, <3>0, <3>3
      <3>4. CASE e \in Fresh /\ f \in Fresh
        <4>1. e.op = f.op
          BY <2>1, <2>3, ToidNames
        <4> QED BY <1>7, <2>3, <3>4, <4>1
      <3> QED BY <1>1, <3>1, <3>2, <3>3, <3>4
    <2>4. \A e, f \in archive' : ToidOf(e) = ToidOf(f) /\ e.index = f.index => e = f
      BY <2>3
    <2>5. (\A e, f \in archive : ToidOf(e) = ToidOf(f) /\ e.index = f.index => e = f)'
      BY <2>4 DEF ToidOf, Toid
    <2> QED BY <2>1, <2>2, <2>5 DEF ArchiveOK
  <1>11. ScriptShape'
    BY <1>1 DEF DumpInv, ScriptShape, Stage, Todo
  <1>12. Written' = Written /\ Todo' = Todo /\ Stage' = Stage /\ \A e : RowOf(e)' = RowOf(e)
    BY <1>1 DEF Written, Todo, Stage, RowOf, HashOf, Toid
  <1>13. \A e : Noted(e)' = Noted(e) /\ InHand(e)' = InHand(e)
    BY <1>12 DEF Noted, InHand, Due
  <1>14. \A e, f : ArchiveOrder(e, f)' = ArchiveOrder(e, f)
    BY DEF ArchiveOrder, ToidOf, Toid
  <1>15. RowsOK'
    BY <1>1, <1>12 DEF DumpInv, RowsOK
  <1>16. DueOK'
    BY <1>1, <1>12, <1>13, <1>14 DEF DumpInv, DueOK
  <1>17. ASSUME NEW f \in archive', InHand(f)
         PROVE  f \in archive
    <2>1. CASE Noted(f)
      <3>1. PICK e \in archive : RowOf(e) = RowOf(f)
        BY <2>1 DEF Noted, DumpInv, RowsOK
      <3>2. e = f
        BY <1>1, <1>3, <1>5, <3>1, RowIsEvent
      <3> QED BY <3>2
    <2>2. CASE Due(f)
      BY <2>2 DEF Due, DumpInv, DueOK
    <2> QED BY <1>17, <2>1, <2>2 DEF InHand
  <1>18. ASSUME NEW e \in archive', NEW f \in archive, ArchiveOrder(e, f)
         PROVE  e \in archive
    <2>1. SUFFICES ASSUME e \in Fresh PROVE FALSE
      BY <1>1
    <2>2. ToidOf(f) < ToidOf(e) /\ ToidOf(f) \in Nat /\ ToidOf(e) \in Nat
      BY <1>3, <1>5, <1>9, <2>1, ToidTells
    <2> QED BY <1>18, <2>2 DEF ArchiveOrder
  <1>19. HandOK'
    <2>1. ASSUME NEW e \in archive', NEW f \in archive',
                 e.contract = f.contract, ArchiveOrder(e, f), InHand(f)
          PROVE  InHand(e)
      <3>1. f \in archive /\ e \in archive
        BY <1>17, <1>18, <2>1
      <3> QED BY <2>1, <3>1 DEF DumpInv, HandOK
    <2>2. \A e \in archive' : InHand(e) =>
       \E i \in DOMAIN Contracts : /\ e.contract = Contracts[i] /\ i <= dump.contract
                                   /\ Stage = "fetch" => i < dump.contract
      BY <1>17 DEF DumpInv, HandOK
    <2> QED BY <1>1, <1>12, <1>13, <1>14, <2>1, <2>2 DEF HandOK
  <1>20. DumpFaithful'
    <2>1. SUFFICES ASSUME fixture # NoFixture PROVE DumpFaithful'
      BY <1>1 DEF DumpFaithful, NoFixture
    <2> DEFINE file == {fixture[i] : i \in DOMAIN fixture}
    <2>2. /\ \A i, j \in DOMAIN fixture : i < j => ArchiveOrder(fixture[i], fixture[j])
          /\ \A r \in file : \E e \in archive : r = RowOf(e)
          /\ \A e, f \in archive :
               e.contract = f.contract /\ ArchiveOrder(e, f) /\ RowOf(f) \in file => RowOf(e) \in file
      BY <2>1 DEF DumpInv, DumpFaithful
    <2> HIDE DEF file
    <2>3. \A r \in file : \E e \in archive' : r = RowOf(e)
      BY <1>1, <2>2
    <2>4. ASSUME NEW e \in archive', NEW f \in archive',
                 e.contract = f.contract, ArchiveOrder(e, f), RowOf(f) \in file
          PROVE  RowOf(e) \in file
      <3>1. PICK g \in archive : RowOf(f) = RowOf(g)
        BY <2>2, <2>4
      <3>2. f = g
        BY <1>1, <1>3, <1>5, <3>1, RowIsEvent
      <3>3. e \in archive
        BY <1>18, <2>4, <3>2
      <3> QED BY <2>2, <2>4, <3>2, <3>3
    <2>5. file = {fixture'[i] : i \in DOMAIN fixture'}
      BY <1>1 DEF file
    <2> QED BY <1>1, <1>12, <1>14, <2>2, <2>3, <2>4, <2>5 DEF DumpFaithful
  <1> QED BY <1>10, <1>11, <1>15, <1>16, <1>19, <1>20 DEF DumpInv

\* Horizon's transactions are no part of what the file holds.
LEMMA HorizonKeeps ==
  ASSUME DumpInv, UNCHANGED <<archive, dump, fixture>>
  PROVE  DumpInv'
PROOF
  <1>1. archive' = archive /\ dump' = dump /\ fixture' = fixture
    OBVIOUS
  <1>2. Written' = Written /\ Todo' = Todo /\ Stage' = Stage /\ \A e : RowOf(e)' = RowOf(e)
    BY <1>1 DEF Written, Todo, Stage, RowOf, HashOf, Toid
  <1>3. \A e : Noted(e)' = Noted(e) /\ InHand(e)' = InHand(e)
    BY <1>2 DEF Noted, InHand, Due
  <1>4. \A e, f : ArchiveOrder(e, f)' = ArchiveOrder(e, f)
    BY DEF ArchiveOrder, ToidOf, Toid
  <1>5. ArchiveOK'
    BY <1>1 DEF DumpInv, ArchiveOK, ToidOf, Toid
  <1>6. ScriptShape'
    BY <1>1, <1>2 DEF DumpInv, ScriptShape
  <1>7. RowsOK'
    BY <1>1, <1>2 DEF DumpInv, RowsOK
  <1>8. DueOK'
    BY <1>1, <1>2, <1>3, <1>4 DEF DumpInv, DueOK
  <1>9. HandOK'
    BY <1>1, <1>2, <1>3, <1>4 DEF DumpInv, HandOK
  <1>10. DumpFaithful'
    BY <1>1, <1>2, <1>4 DEF DumpInv, DumpFaithful
  <1> QED BY <1>5, <1>6, <1>7, <1>8, <1>9, <1>10 DEF DumpInv

\* The archive and the file, while the script alone takes a step.
LEMMA ScriptAlone ==
  ASSUME DumpInv, UNCHANGED <<archive, fixture>>
  PROVE  ArchiveOK' /\ DumpFaithful'
PROOF
  <1>1. archive' = archive /\ fixture' = fixture /\ \A e : RowOf(e)' = RowOf(e)
    BY DEF RowOf, HashOf, Toid
  <1>2. \A e, f : ArchiveOrder(e, f)' = ArchiveOrder(e, f)
    BY DEF ArchiveOrder, ToidOf, Toid
  <1>3. ArchiveOK'
    BY <1>1 DEF DumpInv, ArchiveOK, ToidOf, Toid
  <1>4. DumpFaithful'
    BY <1>1, <1>2 DEF DumpInv, DumpFaithful
  <1> QED BY <1>3, <1>4

\* The script begins.
LEMMA StartKeeps ==
  ASSUME DumpInv, StartDump
  PROVE  DumpInv'
PROOF
  <1>1. UNCHANGED <<archive, fixture>> /\ archive' = archive
    BY DEF StartDump
  <1>2. ArchiveOK' /\ DumpFaithful'
    BY <1>1, ScriptAlone
  <1>3. dump' = [at |-> "fetch", contract |-> 1, todo |-> <<>>, rows |-> <<>>, cache |-> {}]
    BY DEF StartDump, NotRunning
  <1>4. /\ dump'.at = "fetch" /\ dump'.contract = 1 /\ dump'.todo = <<>> /\ dump'.rows = <<>>
        /\ dump'.cache = {}
    BY <1>3
  <1>5. dump' \in Scripts
    BY <1>3 DEF Scripts
  <1>6. Written' = <<>> /\ Todo' = <<>> /\ Stage' = "fetch"
    BY <1>4 DEF Written, Todo, Stage
  <1>7. 1 \in DOMAIN Contracts
    BY DumpAssumption
  <1>8. ScriptShape'
    BY <1>4, <1>5, <1>6, <1>7 DEF ScriptShape
  <1>9. RowsOK' /\ DueOK'
    BY <1>6 DEF RowsOK, DueOK
  <1>10. \A e : ~InHand(e)'
    BY <1>6 DEF InHand, Noted, Due
  <1>11. HandOK'
    BY <1>10 DEF HandOK
  <1> QED BY <1>2, <1>8, <1>9, <1>11 DEF DumpInv

\* The script fails.
LEMMA FailKeeps ==
  ASSUME DumpInv, DumpFails
  PROVE  DumpInv'
PROOF
  <1>1. UNCHANGED <<archive, fixture>> /\ archive' = archive /\ dump' = NotRunning
    BY DEF DumpFails
  <1>2. ArchiveOK' /\ DumpFaithful'
    BY <1>1, ScriptAlone
  <1>3. ScriptShape' /\ RowsOK' /\ DueOK' /\ HandOK'
    BY <1>1, NotRunningOK DEF DumpInv
  <1> QED BY <1>2, <1>3 DEF DumpInv

\* A contract's events are read: all of it there are, and none of it was in
\* hand.
LEMMA FetchKeeps ==
  ASSUME DumpInv, FetchContract
  PROVE  DumpInv'
PROOF
  <1>1. UNCHANGED <<archive, fixture>> /\ archive' = archive /\ Stage = "fetch"
    BY DEF FetchContract, Stage
  <1>2. ArchiveOK' /\ DumpFaithful'
    BY <1>1, ScriptAlone
  <1> DEFINE records == {e \in archive : e.contract = Contracts[dump.contract]}
  <1>3. PICK s : s = InOrder(SeqExt!SetToSeqs(records))
    OBVIOUS
  <1>4. dump' = [dump EXCEPT !.at = "resolve", !.todo = s]
    BY <1>3 DEF FetchContract
  <1>5. ScriptShape
    BY DEF DumpInv
  <1>6. archive \subseteq Archived /\ IsFiniteSet(archive)
    BY DEF DumpInv, ArchiveOK
  <1>7. \A e, f \in archive : ToidOf(e) = ToidOf(f) /\ e.index = f.index => e = f
    BY DEF DumpInv, ArchiveOK
  <1>8. records \subseteq archive
    OBVIOUS
  <1>9. \A x \in records : x \in archive /\ x.contract = Contracts[dump.contract]
    OBVIOUS
  <1>10. \A x \in archive : x.contract = Contracts[dump.contract] => x \in records
    OBVIOUS
  <1> HIDE DEF records
  <1>11. IsFiniteSet(records)
    BY <1>6, <1>8, FS_Subset
  <1>12. /\ \A x \in records : ~ArchiveOrder(x, x)
         /\ \A x, y, z \in records : ArchiveOrder(x, y) /\ ArchiveOrder(y, z) => ArchiveOrder(x, z)
    BY <1>6, <1>8, OrderIsStrict
  <1>13. \A x, y \in records : x # y => ArchiveOrder(x, y) \/ ArchiveOrder(y, x)
    BY <1>6, <1>7, <1>8, OrderIsStrict
  <1>14. /\ s \in Seq(records)
         /\ \A i, j \in DOMAIN s : i < j => ArchiveOrder(s[i], s[j])
         /\ \A x \in records : \E i \in DOMAIN s : s[i] = x
    BY <1>3, <1>11, <1>12, <1>13, SortedSet
  <1>15. \A i \in DOMAIN s : s[i] \in records
    BY <1>14
  <1>16. s \in Seq(Archived)
    BY <1>6, <1>8, <1>14
  <1>17. /\ dump'.at = "resolve" /\ dump'.contract = dump.contract /\ dump'.todo = s
         /\ dump'.rows = dump.rows /\ dump'.cache = dump.cache
    BY <1>4, <1>5 DEF ScriptShape, Scripts
  <1>18. dump' \in Scripts
    BY <1>4, <1>5, <1>16 DEF Scripts, ScriptShape
  <1>19. Written' = Written /\ Todo' = s /\ Stage' = "resolve" /\ \A e : RowOf(e)' = RowOf(e)
    BY <1>17 DEF Written, Todo, Stage, RowOf, HashOf, Toid
  <1>20. \A e, f : ArchiveOrder(e, f)' = ArchiveOrder(e, f)
    BY DEF ArchiveOrder, ToidOf, Toid
  <1>21. ScriptShape'
    BY <1>1, <1>5, <1>17, <1>18, <1>19 DEF ScriptShape
  <1>22. RowsOK'
    BY <1>1, <1>19 DEF DumpInv, RowsOK
  <1>23. \A e : Noted(e)' = Noted(e)
    BY <1>19 DEF Noted
  <1>24. Todo = <<>>
    BY <1>1, <1>5 DEF ScriptShape
  <1>25. \A e : ~Due(e)
    BY <1>24 DEF Due
  <1>26. dump.contract \in DOMAIN Contracts
    BY <1>1, <1>5 DEF ScriptShape
  <1>27. ASSUME NEW e \in records
         PROVE  ~InHand(e)
    <2>1. SUFFICES ASSUME InHand(e) PROVE FALSE
      OBVIOUS
    <2>2. PICK i \in DOMAIN Contracts : e.contract = Contracts[i] /\ i < dump.contract
      BY <1>1, <1>9, <2>1 DEF DumpInv, HandOK
    <2>3. i = dump.contract
      BY <1>9, <1>26, <2>2, DumpAssumption
    <2>4. dump.contract \in Nat
      BY <1>5, ScriptFields
    <2> QED BY <2>2, <2>3, <2>4
  <1>28. DueOK'
    <2>1. \A i \in DOMAIN s : s[i] \in archive /\ ~Noted(s[i])
      BY <1>9, <1>15, <1>27 DEF InHand
    <2> QED BY <1>1, <1>14, <1>19, <1>20, <1>23, <2>1 DEF DueOK
  <1>29. \A e \in archive : Due(e)' <=> e \in records
    BY <1>14, <1>15, <1>19 DEF Due
  <1>30. \A e \in archive : InHand(e)' <=> InHand(e) \/ e \in records
    BY <1>23, <1>25, <1>29 DEF InHand
  <1>31. HandOK'
    <2>1. ASSUME NEW e \in archive, NEW f \in archive,
                 e.contract = f.contract, ArchiveOrder(e, f), InHand(f)'
          PROVE  InHand(e)'
      <3>1. CASE f \in records
        <4>1. e \in records
          BY <1>9, <1>10, <2>1, <3>1
        <4> QED BY <1>30, <4>1
      <3>2. CASE InHand(f)
        <4>1. InHand(e)
          BY <2>1, <3>2 DEF DumpInv, HandOK
        <4> QED BY <1>30, <4>1
      <3> QED BY <1>30, <2>1, <3>1, <3>2
    <2>2. ASSUME NEW e \in archive, InHand(e)'
          PROVE  \E i \in DOMAIN Contracts : e.contract = Contracts[i] /\ i <= dump.contract
      <3>1. CASE e \in records
        <4>1. dump.contract <= dump.contract
          BY <1>5, ScriptFields
        <4> QED BY <1>9, <1>26, <3>1, <4>1
      <3>2. CASE InHand(e)
        BY <3>2 DEF DumpInv, HandOK
      <3> QED BY <1>30, <2>2, <3>1, <3>2
    <2> QED BY <1>1, <1>17, <1>19, <1>20, <2>1, <2>2 DEF HandOK
  <1> QED BY <1>2, <1>21, <1>22, <1>28, <1>31 DEF DumpInv

\* A contract is done.
LEMMA NextKeeps ==
  ASSUME DumpInv, NextContract
  PROVE  DumpInv'
PROOF
  <1>1. UNCHANGED <<archive, fixture>> /\ archive' = archive /\ Stage = "resolve" /\ Todo = <<>>
    BY DEF NextContract, Stage, Todo
  <1>2. ArchiveOK' /\ DumpFaithful'
    BY <1>1, ScriptAlone
  <1>3. ScriptShape
    BY DEF DumpInv
  <1>4. dump.contract \in DOMAIN Contracts /\ dump.contract \in Nat
    BY <1>1, <1>3, ScriptFields DEF ScriptShape
  <1>5. PICK a \in {"fetch", "write"}, c \in Nat :
           /\ dump' \in Scripts
           /\ dump'.at = a /\ dump'.contract = c /\ dump'.todo = dump.todo
           /\ dump'.rows = dump.rows /\ dump'.cache = dump.cache
           /\ dump.contract <= c
           /\ a = "fetch" => dump.contract < c /\ c \in DOMAIN Contracts
    <2>1. CASE dump.contract < Len(Contracts)
      <3>1. PICK c \in Nat : c = dump.contract + 1
        BY <1>4
      <3>2. dump' = [dump EXCEPT !.at = "fetch", !.contract = c]
        BY <2>1, <3>1 DEF NextContract
      <3>3. c \in DOMAIN Contracts
        BY <1>4, <2>1, <3>1, DumpAssumption
      <3>4. /\ dump'.at = "fetch" /\ dump'.contract = c /\ dump'.todo = dump.todo
            /\ dump'.rows = dump.rows /\ dump'.cache = dump.cache
        BY <1>3, <3>2 DEF ScriptShape, Scripts
      <3>5. dump' \in Scripts
        BY <1>3, <3>2 DEF Scripts, ScriptShape
      <3>6. dump.contract < c /\ dump.contract <= c
        BY <1>4, <3>1
      <3>7. PICK a : a = "fetch"
        OBVIOUS
      <3> QED BY <3>3, <3>4, <3>5, <3>6, <3>7
    <2>2. CASE ~(dump.contract < Len(Contracts))
      <3>1. dump' = [dump EXCEPT !.at = "write"]
        BY <2>2 DEF NextContract
      <3>2. /\ dump'.at = "write" /\ dump'.contract = dump.contract /\ dump'.todo = dump.todo
            /\ dump'.rows = dump.rows /\ dump'.cache = dump.cache
        BY <1>3, <3>1 DEF ScriptShape, Scripts
      <3>3. dump' \in Scripts
        BY <1>3, <3>1 DEF Scripts, ScriptShape
      <3>4. "write" \in {"fetch", "write"} /\ "write" # "fetch" /\ dump.contract <= dump.contract
        BY <1>4
      <3> QED BY <1>4, <3>2, <3>3, <3>4
    <2> QED BY <2>1, <2>2
  <1>6. /\ dump'.at = a /\ dump'.contract = c /\ dump'.todo = dump.todo
        /\ dump'.rows = dump.rows /\ dump'.cache = dump.cache
    BY <1>5
  <1>7. dump' \in Scripts
    BY <1>5 DEF Scripts
  <1>8. Written' = Written /\ Todo' = Todo /\ Stage' = a /\ \A e : RowOf(e)' = RowOf(e)
    BY <1>6 DEF Written, Todo, Stage, RowOf, HashOf, Toid
  <1>9. \A e : Noted(e)' = Noted(e) /\ InHand(e)' = InHand(e)
    BY <1>8 DEF Noted, InHand, Due
  <1>10. \A e, f : ArchiveOrder(e, f)' = ArchiveOrder(e, f)
    BY DEF ArchiveOrder, ToidOf, Toid
  <1>11. ScriptShape'
    BY <1>1, <1>3, <1>5, <1>6, <1>7, <1>8 DEF ScriptShape
  <1>12. RowsOK'
    BY <1>1, <1>8 DEF DumpInv, RowsOK
  <1>13. DueOK'
    BY <1>1, <1>8, <1>9, <1>10 DEF DumpInv, DueOK
  <1>14. HandOK'
    <2>1. \A e, f \in archive :
             e.contract = f.contract /\ ArchiveOrder(e, f) /\ InHand(f) => InHand(e)
      BY DEF DumpInv, HandOK
    <2>2. ASSUME NEW e \in archive, InHand(e)
          PROVE  \E i \in DOMAIN Contracts : /\ e.contract = Contracts[i] /\ i <= c
                                             /\ a = "fetch" => i < c
      <3>1. PICK i \in DOMAIN Contracts : e.contract = Contracts[i] /\ i <= dump.contract
        BY <2>2 DEF DumpInv, HandOK
      <3>2. i \in Nat
        BY DumpAssumption
      <3>3. i <= c /\ (a = "fetch" => i < c)
        BY <1>4, <1>5, <3>1, <3>2
      <3> QED BY <3>1, <3>3
    <2> QED BY <1>1, <1>6, <1>8, <1>9, <1>10, <2>1, <2>2 DEF HandOK
  <1> QED BY <1>2, <1>11, <1>12, <1>13, <1>14 DEF DumpInv

\* The hash that is found for an event's transaction is that transaction's.
LEMMA HashFound ==
  ASSUME ScriptShape, NEW toid, NEW hash \in Hashes(toid)
  PROVE  hash = HashOf(TxToid(toid))
  BY DEF ScriptShape, Hashes, AskHorizon

\* The row that is written of an event is the one it should have.
LEMMA RowMapped ==
  ASSUME NEW e \in Archived
  PROVE  /\ MapRecord(e, HashOf(TxToid(ToidOf(e)))) = RowOf(e)
         /\ RowOf(e) \in AllRows
PROOF
  <1>1. /\ DecomposeToid(ToidOf(e)).ledger = e.ledger /\ DecomposeToid(ToidOf(e)).tx = e.tx
        /\ DecomposeToid(ToidOf(e)).op = e.op
    BY ToidTells
  <1>2. TxToid(ToidOf(e)) = Toid(e.ledger, e.tx, 0) /\ TxToid(ToidOf(e)) \in Nat
    BY ToidTells
  <1>3. MapRecord(e, HashOf(TxToid(ToidOf(e)))) = RowOf(e)
    BY <1>1, <1>2 DEF MapRecord, RowOf
  <1>4. PICK h \in AllHashes : h = HashOf(Toid(e.ledger, e.tx, 0))
    BY <1>2 DEF AllHashes
  <1>5. RowOf(e) = [contract |-> e.contract, ledger |-> e.ledger, tx |-> e.tx, op |-> e.op,
                    index |-> e.index, hash |-> h]
    BY <1>4 DEF RowOf
  <1>6. RowOf(e) \in AllRows
    BY <1>5 DEF AllRows, Archived
  <1> QED BY <1>3, <1>6

\* A record gets its row.
LEMMA ResolveKeeps ==
  ASSUME DumpInv, ResolveRecord
  PROVE  DumpInv'
PROOF
  <1>1. UNCHANGED <<archive, fixture>> /\ archive' = archive /\ Stage = "resolve" /\ Todo # <<>>
    BY DEF ResolveRecord, Stage, Todo
  <1>2. ArchiveOK' /\ DumpFaithful'
    BY <1>1, ScriptAlone
  <1>3. ScriptShape /\ archive \subseteq Archived
    BY DEF DumpInv, ArchiveOK
  <1>4. PICK e : e = Head(Todo)
    OBVIOUS
  <1>5. PICK hash \in Hashes(ToidOf(e)) :
          dump' = [dump EXCEPT
             !.todo = Tail(Todo),
             !.rows = Append(Written, MapRecord(e, hash)),
             !.cache = dump.cache \cup {[tx |-> TxToid(ToidOf(e)), hash |-> hash]}]
    BY <1>4 DEF ResolveRecord, Todo, Written
  <1>6. Todo \in Seq(Archived) /\ Written \in Seq(AllRows)
    BY <1>3, ScriptFields
  <1>7. /\ 1 \in DOMAIN Todo /\ e = Todo[1] /\ Tail(Todo) \in Seq(Archived)
        /\ \A i \in DOMAIN Tail(Todo) : i + 1 \in DOMAIN Todo /\ Tail(Todo)[i] = Todo[i + 1] /\ i \in Nat /\ i > 0
        /\ \A i \in DOMAIN Todo : i # 1 => i - 1 \in DOMAIN Tail(Todo) /\ Todo[i] = Tail(Todo)[i - 1]
    BY <1>1, <1>4, <1>6
  <1>8. e \in archive /\ e \in Archived /\ ~Noted(e)
    BY <1>3, <1>7 DEF DumpInv, DueOK
  <1>9. hash = HashOf(TxToid(ToidOf(e)))
    BY <1>3, HashFound
  <1>10. PICK row \in AllRows : row = RowOf(e) /\ row = MapRecord(e, hash)
    BY <1>8, <1>9, RowMapped
  <1>11. PICK list : list = Append(Written, row)
    OBVIOUS
  <1>12. list \in Seq(AllRows)
    BY <1>6, <1>11
  <1>13. /\ DOMAIN list = DOMAIN Written \cup {Len(Written) + 1}
         /\ Len(Written) + 1 \notin DOMAIN Written
         /\ \A i \in DOMAIN Written : list[i] = Written[i]
         /\ list[Len(Written) + 1] = RowOf(e)
    BY <1>6, <1>10, <1>11
  <1>14. PICK cached : cached = dump.cache \cup {[tx |-> TxToid(ToidOf(e)), hash |-> hash]}
    OBVIOUS
  <1>15. cached \in SUBSET [tx : Nat, hash : AllHashes] /\ \A c \in cached : c.hash = HashOf(c.tx)
    <2>1. TxToid(ToidOf(e)) \in Nat /\ hash \in AllHashes
      BY <1>8, <1>9, ToidTells DEF AllHashes
    <2>2. dump.cache \in SUBSET [tx : Nat, hash : AllHashes] /\ \A c \in dump.cache : c.hash = HashOf(c.tx)
      BY <1>3, ScriptFields DEF ScriptShape
    <2> QED BY <1>9, <1>14, <2>1, <2>2
  <1>16. PICK rest \in Seq(Archived) : rest = Tail(Todo)
    BY <1>7
  <1>17. dump' = [dump EXCEPT !.todo = rest, !.rows = list, !.cache = cached]
    BY <1>5, <1>10, <1>11, <1>14, <1>16
  <1>18. /\ dump'.at = dump.at /\ dump'.contract = dump.contract /\ dump'.todo = rest
         /\ dump'.rows = list /\ dump'.cache = cached
    BY <1>3, <1>17 DEF ScriptShape, Scripts
  <1>19. dump' \in Scripts
    BY <1>3, <1>17, <1>12, <1>15 DEF Scripts, ScriptShape
  <1>20. Written' = list /\ Todo' = rest /\ Stage' = Stage /\ \A x : RowOf(x)' = RowOf(x)
    BY <1>18 DEF Written, Todo, Stage, RowOf, HashOf, Toid
  <1>21. \A x, y : ArchiveOrder(x, y)' = ArchiveOrder(x, y)
    BY DEF ArchiveOrder, ToidOf, Toid
  <1>22. ScriptShape'
    BY <1>1, <1>3, <1>18, <1>19, <1>20, <1>15 DEF ScriptShape
  <1>23. \A i, j \in DOMAIN Todo : i < j => ArchiveOrder(Todo[i], Todo[j])
    BY DEF DumpInv, DueOK
  <1>24. \A i \in DOMAIN Todo : Todo[i] \in archive /\ ~Noted(Todo[i])
    BY DEF DumpInv, DueOK
  <1>25. \A i \in DOMAIN Todo : i # 1 => Todo[i] # e
    <2>1. ~ArchiveOrder(e, e)
      BY <1>8, OrderIsStrict
    <2>2. \A i \in DOMAIN Todo : i # 1 => 1 < i
      BY <1>6
    <2> QED BY <1>7, <1>23, <2>1, <2>2
  <1>26. \A x \in archive : Noted(x)' <=> Noted(x) \/ x = e
    <2>1. ASSUME NEW x \in archive, Noted(x)', x # e
          PROVE  Noted(x)
      <3>1. PICK i \in DOMAIN list : list[i] = RowOf(x)
        BY <1>20, <2>1 DEF Noted
      <3>2. RowOf(x) # RowOf(e)
        BY <1>3, <1>8, <2>1, RowIsEvent
      <3>3. i \in DOMAIN Written
        BY <1>13, <3>1, <3>2
      <3> QED BY <1>13, <3>1, <3>3 DEF Noted
    <2>2. ASSUME NEW x \in archive, Noted(x)
          PROVE  Noted(x)'
      <3>1. PICK i \in DOMAIN Written : Written[i] = RowOf(x)
        BY <2>2 DEF Noted
      <3>2. i \in DOMAIN list /\ list[i] = RowOf(x)
        BY <1>13, <3>1
      <3> QED BY <1>20, <3>2 DEF Noted
    <2>3. Noted(e)'
      BY <1>13, <1>20 DEF Noted
    <2> QED BY <2>1, <2>2, <2>3
  <1>27. \A x \in archive : Due(x) <=> Due(x)' \/ x = e
    <2>1. ASSUME NEW x \in archive, Due(x), x # e
          PROVE  Due(x)'
      <3>1. PICK i \in DOMAIN Todo : Todo[i] = x
        BY <2>1 DEF Due
      <3>2. i - 1 \in DOMAIN rest /\ rest[i - 1] = x
        BY <1>7, <1>16, <2>1, <3>1
      <3> QED BY <1>20, <3>2 DEF Due
    <2>2. ASSUME NEW x \in archive, Due(x)'
          PROVE  Due(x)
      <3>1. PICK i \in DOMAIN rest : rest[i] = x
        BY <1>20, <2>2 DEF Due
      <3> QED BY <1>7, <1>16, <3>1 DEF Due
    <2>3. Due(e)
      BY <1>7 DEF Due
    <2> QED BY <2>1, <2>2, <2>3
  <1>28. \A x \in archive : InHand(x)' <=> InHand(x)
    BY <1>26, <1>27 DEF InHand
  <1>29. RowsOK'
    <2>1. \A i \in DOMAIN list : \E x \in archive : list[i] = RowOf(x)
      <3>1. \A i \in DOMAIN Written : \E x \in archive : Written[i] = RowOf(x)
        BY DEF DumpInv, RowsOK
      <3> QED BY <1>8, <1>13, <3>1
    <2>2. \A i, j \in DOMAIN list : i # j => list[i] # list[j]
      <3>1. \A i, j \in DOMAIN Written : i # j => Written[i] # Written[j]
        BY DEF DumpInv, RowsOK
      <3>2. \A i \in DOMAIN Written : Written[i] # RowOf(e)
        BY <1>8 DEF Noted
      <3> QED BY <1>13, <3>1, <3>2
    <2> QED BY <1>1, <1>20, <2>1, <2>2 DEF RowsOK
  <1>30. DueOK'
    <2>1. ASSUME NEW i \in DOMAIN rest
          PROVE  rest[i] \in archive /\ ~Noted(rest[i])'
      <3>1. i + 1 \in DOMAIN Todo /\ rest[i] = Todo[i + 1] /\ i + 1 # 1
        BY <1>7, <1>16
      <3>2. rest[i] \in archive /\ ~Noted(rest[i]) /\ rest[i] # e
        BY <1>24, <1>25, <3>1
      <3> QED BY <1>26, <3>2
    <2>2. ASSUME NEW i \in DOMAIN rest, NEW j \in DOMAIN rest, i < j
          PROVE  ArchiveOrder(rest[i], rest[j])
      <3>1. i + 1 \in DOMAIN Todo /\ j + 1 \in DOMAIN Todo /\ i + 1 < j + 1
        BY <1>7, <1>16, <2>2
      <3>2. rest[i] = Todo[i + 1] /\ rest[j] = Todo[j + 1]
        BY <1>7, <1>16
      <3> QED BY <1>23, <3>1, <3>2
    <2>3. \A i \in DOMAIN rest : ~Noted(rest[i])'
      BY <2>1
    <2>4. (\A i \in DOMAIN Todo : ~Noted(Todo[i]))'
      <3>1. \A i \in DOMAIN rest : rest[i] = Todo'[i]
        BY <1>20
      <3> QED BY <1>20, <2>3, <3>1 DEF Noted
    <2> QED BY <1>1, <1>20, <1>21, <2>1, <2>2, <2>4 DEF DueOK
  <1>31. HandOK'
    BY <1>1, <1>18, <1>20, <1>21, <1>28 DEF DumpInv, HandOK
  <1> QED BY <1>2, <1>22, <1>29, <1>30, <1>31 DEF DumpInv

\* The file is written.
LEMMA WriteKeeps ==
  ASSUME DumpInv, WriteFixture
  PROVE  DumpInv'
PROOF
  <1>1. archive' = archive /\ dump' = NotRunning /\ Stage = "write"
    BY DEF WriteFixture, Stage
  <1>2. ArchiveOK /\ archive \subseteq Archived /\ ScriptShape
    BY DEF DumpInv, ArchiveOK
  <1>3. ArchiveOK'
    BY <1>1, <1>2 DEF ArchiveOK, ToidOf, Toid
  <1>4. ScriptShape' /\ RowsOK' /\ DueOK' /\ HandOK'
    BY <1>1, <1>2, NotRunningOK
  <1>5. PICK list : list = Written
    OBVIOUS
  <1>6. PICK n \in Nat : DOMAIN list = 1 .. n
    <2>1. list \in Seq(AllRows)
      BY <1>2, <1>5, ScriptFields
    <2>2. Len(list) \in Nat /\ DOMAIN list = 1 .. Len(list)
      BY <2>1
    <2> QED BY <2>2
  <1>7. \A i \in 1 .. n : \E e \in archive : list[i] = RowOf(e)
    BY <1>5, <1>6 DEF DumpInv, RowsOK
  <1>8. Ordered(list, n)
    <2>1. ASSUME NEW i \in 1 .. n
          PROVE  ~ArchiveOrder(list[i], list[i])
      <3>1. PICK e \in archive : list[i] = RowOf(e)
        BY <1>7
      <3> QED BY <1>2, <3>1, RowIsEvent, OrderIsStrict
    <2>2. ASSUME NEW i \in 1 .. n, NEW j \in 1 .. n, NEW k \in 1 .. n,
                 ArchiveOrder(list[i], list[j]), ArchiveOrder(list[j], list[k])
          PROVE  ArchiveOrder(list[i], list[k])
      <3>1. PICK e \in archive : list[i] = RowOf(e)
        BY <1>7
      <3>2. PICK f \in archive : list[j] = RowOf(f)
        BY <1>7
      <3>3. PICK g \in archive : list[k] = RowOf(g)
        BY <1>7
      <3>4. ArchiveOrder(e, f) /\ ArchiveOrder(f, g)
        BY <1>2, <2>2, <3>1, <3>2, <3>3, RowIsEvent
      <3>5. ArchiveOrder(e, g)
        BY <1>2, <3>4, OrderIsStrict
      <3> QED BY <1>2, <3>1, <3>3, <3>5, RowIsEvent
    <2>3. ASSUME NEW i \in 1 .. n, NEW j \in 1 .. n, i # j
          PROVE  ArchiveOrder(list[i], list[j]) \/ ArchiveOrder(list[j], list[i])
      <3>1. PICK e \in archive : list[i] = RowOf(e)
        BY <1>7
      <3>2. PICK f \in archive : list[j] = RowOf(f)
        BY <1>7
      <3>3. list[i] # list[j]
        BY <1>5, <1>6, <2>3 DEF DumpInv, RowsOK
      <3>4. e # f
        BY <3>1, <3>2, <3>3
      <3>5. ToidOf(e) # ToidOf(f) \/ e.index # f.index
        BY <1>2, <3>4 DEF ArchiveOK
      <3>6. ArchiveOrder(e, f) \/ ArchiveOrder(f, e)
        BY <1>2, <3>5, OrderIsStrict
      <3> QED BY <1>2, <3>1, <3>2, <3>6, RowIsEvent
    <2> QED BY <2>1, <2>2, <2>3 DEF Ordered
  <1>9. PICK s : s = InOrder(Rearranged(list)) /\ fixture' = s
    BY <1>5 DEF WriteFixture, Written
  <1>10. /\ DOMAIN s = 1 .. n
         /\ \A i, j \in DOMAIN s : i < j => ArchiveOrder(s[i], s[j])
         /\ \A i \in 1 .. n : \E j \in 1 .. n : s[i] = list[j]
         /\ \A j \in 1 .. n : \E i \in 1 .. n : s[i] = list[j]
    <2>1. SortedFrom(s, list, n)
      BY <1>6, <1>8, <1>9, SortedRows
    <2> QED BY <2>1 DEF SortedFrom
  <1> DEFINE file == {s[i] : i \in DOMAIN s}
  <1>11. \A x : RowOf(x) \in file <=> Noted(x)
    <2>1. ASSUME NEW x, RowOf(x) \in file
          PROVE  Noted(x)
      <3>1. PICK i \in 1 .. n : s[i] = RowOf(x)
        BY <1>10, <2>1
      <3>2. PICK j \in 1 .. n : s[i] = list[j]
        BY <1>10
      <3> QED BY <1>5, <1>6, <3>1, <3>2 DEF Noted
    <2>2. ASSUME NEW x, Noted(x)
          PROVE  RowOf(x) \in file
      <3>1. PICK j \in 1 .. n : list[j] = RowOf(x)
        BY <1>5, <1>6, <2>2 DEF Noted
      <3>2. PICK i \in 1 .. n : s[i] = list[j]
        BY <1>10
      <3> QED BY <1>10, <3>1, <3>2
    <2> QED BY <2>1, <2>2
  <1>12. \A r \in file : \E e \in archive : r = RowOf(e)
    <2> SUFFICES ASSUME NEW i \in DOMAIN s PROVE \E e \in archive : s[i] = RowOf(e)
      OBVIOUS
    <2>1. PICK j \in 1 .. n : s[i] = list[j]
      BY <1>10
    <2> QED BY <1>7, <2>1
  <1> HIDE DEF file
  <1>13. \A x : InHand(x) <=> Noted(x)
    <2>1. Todo = <<>>
      BY <1>1, <1>2 DEF ScriptShape
    <2> QED BY <2>1 DEF InHand, Due
  <1>14. \A e, f \in archive :
           e.contract = f.contract /\ ArchiveOrder(e, f) /\ RowOf(f) \in file => RowOf(e) \in file
    BY <1>11, <1>13 DEF DumpInv, HandOK
  <1>15. \A x : RowOf(x)' = RowOf(x)
    BY DEF RowOf, HashOf, Toid
  <1>16. \A x, y : ArchiveOrder(x, y)' = ArchiveOrder(x, y)
    BY DEF ArchiveOrder, ToidOf, Toid
  <1>17. file = {fixture'[i] : i \in DOMAIN fixture'}
    BY <1>9 DEF file
  <1>18. \A i, j \in DOMAIN fixture' : i < j => ArchiveOrder(fixture'[i], fixture'[j])
    BY <1>9, <1>10
  <1>19. DumpFaithful'
    BY <1>1, <1>12, <1>14, <1>15, <1>16, <1>17, <1>18 DEF DumpFaithful
  <1> QED BY <1>3, <1>4, <1>19 DEF DumpInv

\* Every step.
LEMMA DumpSteps ==
  ASSUME DumpInv, [DumpNext]_dumpVars
  PROVE  DumpInv'
PROOF
  <1>1. CASE UNCHANGED dumpVars
    BY <1>1, HorizonKeeps DEF dumpVars
  <1>2. CASE \E ledger \in 1 .. MaxTxs, tx \in 1 .. MaxTxs, places \in SUBSET Positions \ {{}} :
               \E emitted \in [places -> {Contracts[i] : i \in DOMAIN Contracts}] :
                 Emits(ledger, tx, emitted)
    BY <1>2, EmitsKeeps
  <1>3. CASE HorizonIngests
    BY <1>3, HorizonKeeps DEF HorizonIngests
  <1>4. CASE HorizonReaps
    BY <1>4, HorizonKeeps DEF HorizonReaps
  <1>5. CASE StartDump
    BY <1>5, StartKeeps
  <1>6. CASE FetchContract
    BY <1>6, FetchKeeps
  <1>7. CASE ResolveRecord
    BY <1>7, ResolveKeeps
  <1>8. CASE NextContract
    BY <1>8, NextKeeps
  <1>9. CASE WriteFixture
    BY <1>9, WriteKeeps
  <1>10. CASE DumpFails
    BY <1>10, FailKeeps
  <1> QED BY <1>1, <1>2, <1>3, <1>4, <1>5, <1>6, <1>7, <1>8, <1>9, <1>10 DEF DumpNext

\* A file that the dump wrote has, in the order of the chain and none twice,
\* the rows of events there were, each with the hash of its own transaction;
\* and of no contract is an event missing before one that is there: for any
\* contracts, transactions and failures, whatever Horizon has.
THEOREM DumpIsFaithful == DumpSpec => []DumpFaithful
PROOF
  <1>1. DumpInit => DumpInv
    BY DumpBegins
  <1>2. DumpInv /\ [DumpNext]_dumpVars => DumpInv'
    BY DumpSteps
  <1>3. DumpInv => DumpFaithful
    BY DEF DumpInv
  <1> QED BY <1>1, <1>2, <1>3, PTL DEF DumpSpec

-----------------------------------------------------------------------------
(*****************************************************************************)
(* MCParts: the parts together.  They share no variable, so a step of the    *)
(* composition is for each part a step of its own or a stutter, and what is  *)
(* proved of a part holds of it there.                                       *)
(*****************************************************************************)

\* A part that is not live stutters.
LEMMA EachPartSteps ==
  [PartsNext]_partsVars =>
    /\ [Next]_vars /\ [SessionNext]_sessionVars /\ [RailNext]_railVars
    /\ [PageNext]_pageVars /\ [TabNext]_tabVars
    /\ [DumpNext]_dumpVars /\ [DisclosureNext]_disclosureVars
BY DEF PartsNext, partsVars

\* A session that never becomes live is in order too: there is nothing in it.
LEMMA SleepsInOrder == SessionAsleep => SessionInv
PROOF
  <1> SUFFICES ASSUME SessionAsleep PROVE SessionInv
    OBVIOUS
  <1>1. StoreOK
    BY DEF SessionAsleep, StoreOK, MadeOrNone, HasKeys
  <1>2. FreshSession \in Sessions /\ FreshSession.bundle = NoBundle
    BY DEF FreshSession, Sessions, Statuses
  <1>3. NoJob \in Jobs /\ NoJob.bundle = NoBundle /\ NoJob.at = "none"
    BY DEF NoJob, Jobs, Places
  <1>4. TabOK(FreshSession, NoJob, {})
    BY <1>2, <1>3 DEF TabOK, MadeOrNone
  <1> QED BY <1>1, <1>2, <1>3, <1>4 DEF SessionAsleep, SessionInv

\* The composition of the parts (MCParts) is none but theirs: of a part whose
\* initial states are all among the composition's, every behaviour there is one
\* of the part.
THEOREM PartsKeepToThemselves ==
  PartsSpec => Spec /\ RailSpec /\ PageSpec /\ TabSpec /\ DumpSpec /\ DisclosureSpec
PROOF
  <1>1. PartsInit => Init /\ RailInit /\ PageInit /\ TabInit /\ DumpInit /\ DisclosureInit
    BY DEF PartsInit
  <1> QED
    BY <1>1, EachPartSteps, PTL
       DEF PartsSpec, Spec, RailSpec, PageSpec, TabSpec, DumpSpec, DisclosureSpec

\* Together, too, the tree, the session and the rail keep their shapes, whichever
\* of the parts is live.
THEOREM PartsTypeCorrect == PartsSpec => []PartsTypeOK
PROOF
  <1>1. PartsInit => SessionInv
    BY SessionBegins, SleepsInOrder DEF PartsInit
  <1>2. SessionInv => SessionTypeOK
    BY SessionOfItsType
  <1>3. PartsSpec => []SessionTypeOK
    BY <1>1, <1>2, SessionKeeps, EachPartSteps, PTL DEF PartsSpec
  <1>4. TypeOK /\ SessionTypeOK /\ RailTypeOK => PartsTypeOK
    BY DEF PartsTypeOK
  <1> QED
    BY <1>3, <1>4, PartsKeepToThemselves, TreeTypeCorrect, RailTypeCorrect, PTL
=============================================================================
