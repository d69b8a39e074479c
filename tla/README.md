# Formal models of the privacy wallet

TLA+ models of this repository's two private rails and the services under them,
checked with TLC on small instances and, where a proof is practical, proved with
TLAPS for every value of the constants. `PROJECT.json` is the index: which
module models which source lines (`map`), what each TLC run checks, which
mutation of the code each property detects, the hazards the properties are aimed
at, and the proved theorems.

Paths below are relative to `src/`; `sdk/` stands for
`vendor/stellar-private-payments/sdk/`.

## 1. The system

A smart-account wallet (`app/`) offers two private rails on Stellar.

* The **shielded rail** (SPP): notes in a Merkle tree kept by the yield-bearing
  pool contract (`contracts/pool-yield`). The wallet runs an SDK in the browser
  that copies the pool's events into SQLite, finds its own notes and proves spends.
* The **confidential-token rail** (CT): balances are commitments on the chain;
  the wallet keeps their openings in `localStorage` and rebuilds them from events.

Both need events that the public Soroban RPC forgets after about a week. `api/`
keeps them: an indexer worker fills a Postgres table, which is served as REST
pages (CT) and as a *bootnode*, a JSON-RPC endpoint the shielded SDK reads first (SPP).

```
   pool contract --events--> Soroban RPC --+--> indexer worker --> Postgres
   CT contract   --events-->  (one week)   |        ^                 |
                                           |   backfill script        |
                                           |                          v
        shielded SDK (SQLite) <--RPC pages-+      bootnode pages / REST pages
        CT state engine (localStorage) <---+-----------------<--------+
```

### Inventory

| Component | State it keeps | Operations | What is hard |
|---|---|---|---|
| Yield pool contract `contracts/pool-yield/src/pool.rs` | commitment tree, nullifiers, liabilities, idle balance, vault shares, investment parameters, ASP contracts | `transact` (deposit, transfer, withdraw), `collect_yield`, `update_invest_params`, `update_asp_*` | proofs made against an older state; rounding and price moves between what is owed and what is held; a vault that fails |
| Commitment tree `merkle_with_history.rs` | one hash per level, a ring of 90 roots | `insert_two_leaves`, `is_known_root`, `get_last_root` | the ring wraps; the saved siblings are right only in combination; the tree fills |
| Circuits and verifier | none | `verify_proof` | cryptography: only what an accepted proof guarantees is modelled |
| Indexer worker `api/src/worker.ts`, `poller.ts`, `repo.ts` | `events`, `ct_activity`, `cursors`; backoff in memory | start, tick, poll, commit, fail, stop | crash between fetch and commit; two workers in a deployment; a source that fails for ever; a bad event |
| Backfill loader `api/scripts/load-backfill.ts` | none of its own | load chunks, read then write the cursor | runs beside the worker, in several statements |
| Bootnode `api/src/modules/bootnode/handler.ts` | none (reads `events`) | `getEvents`: page, miss, handoff | when it hands off, and at which point the client resumes |
| Shielded sync `sdk/client/src/sync.rs`, `sdk/stellar/src/indexer.rs` | `raw_contract_events`, `indexing_metadata` | probe, choose a source, fetch, save events, save progress | several syncs at once; closed tabs; two sources with their own ids and cursors; lagging RPC and archive |
| Shielded processor `sdk/state/src/processor.rs`, `storage.rs` | derived tables | process a batch of unprocessed events | comes to an end? |
| CT state engine `packages/ctd-sdk/src/state/engine.ts`, `chain/event-source.ts` | the record: two openings and a cursor | sync, setSpendable | load, await, save with others in between; the seam between indexer and RPC |
| CT rail `app/src/lib/ct.ts` | none | register, deposit, merge, transfer, withdraw, refresh | an operation's last write comes long after its first read |
| Wallet session and backup `app/src/providers/WalletProvider.tsx`, `lib/privacy-bundle.ts`, `lib/backup.ts` | one IndexedDB slot for a bundle, backup files, backed-up marks; a session per tab | create, connect, silent session, export, restore, refresh | a passkey ceremony between a read of the slot and the write; a second tab on it; a bundle of another wallet |
| Shielded rail `app/src/lib/spp.ts`, `pages/Shielded.tsx` | the cached SDK, one rail per page; the connect reducer | connect, retry, change of wallet, mount | one database, one worker; a failure after the worker was opened |
| Shielded page `pages/Shielded.tsx`, `lib/spp-boundary-log.ts` | notice, warning, view; the boundary log in `localStorage` | shield, unshield, refresh, leave | an outcome, its reading and another reading report into one place; the log is read, extended and written back |
| Confidential tab `pages/Confidential.tsx`, `SendForm.tsx`, `MoveFunds.tsx`, `providers/CtProvider.tsx` | forms, busy marks, balances | the operations of the rail, refresh, switch of panels | a busy mark that goes with its form; refreshes that overlap |
| Activity list `components/ActivityFeed.tsx` | rows, an attempt to decrypt per row | load, decrypt, retry, unmount | attempts that end after they were replaced |
| Recipient field `SendForm.tsx`, `Shielded.tsx` | an address, a badge, open lookups | edit, paste, look up, send | answers in any order |
| Routes and paged readers `api/src/modules/activity/routes.ts`, `ctd-sdk/src/chain/indexer.ts`, `chain/events.ts`, `spp-archive-client.ts` | a cursor | read page by page | rows that arrive behind the cursor; a page that ends short |
| Archive dump `api/scripts/backfill-spp.ts`, `lib/spp-archive.ts` | rows, a cache, the fixture file | read the archive, resolve hashes, write | Horizon lags behind, or has dropped, what the archive has |
| Selective disclosure `ctd-sdk/src/disclosure` | requests | prove, verify | bundles travel out of band |
| Vendored ASP and registry contracts, SDK planner and prover, circuits, API shell, configuration | | | not modelled (section 6) |

The properties that make each modelled component correct are listed with its
module in section 2. Everything found hard to test is under `hazards` in
`PROJECT.json`, those that no property covers with the reason.

## 2. The modules

### The shielded pool

* `Pool`: the contract. **A contract call is one action**: the ledger runs calls
  one after another and an error leaves no trace. What interleaves is *making* a
  proof, off chain against an earlier state, and *submitting* it: a transaction
  carries any root and any policy roots there may have been.
  `SubmitTransaction` covers `transact`, with a disjunct for each sign of the
  external amount; `CollectYield`, `UpdateInvestParams` and `UpdateAspRoots` are
  the administrator's calls; `Reprice` and `Donate` are what others can do to the
  vault and to the balance. A note is named by its leaf index and a root by the
  number of insertions it covers, so a membership proof is `i < 2 * root`.
* `RootWindow`: which roots the ring still holds. `MerkleTreeWithHistory` models
  the ring and the hashes themselves and checks that it is this window: the
  contract `Pool` relies on. Trees and paths are recursive functions from levels to
  rows of nodes (`TreeOf`, `PathHash`), so that they can be proved about.
* `VaultPricing`: share arithmetic (probe, rounding up, clamp), with the vault as
  an external contract. `NoteValue`: the value of a set of notes, as the
  cardinality of a set of stroops, which spares the proofs a recursive sum.
* `ShieldedBook`: the abstract promise: a note is made, held and spent at most
  once, and what is owed changes only by notes. `Pool` implements it
  (`ImplementsBook`).

Properties: `NotesBacked`, `ImplementsBook`, `PolicyInForce`,
`ServedWhenSolvent`, `CollectKeepsBacking`, `BufferRefilled`,
`OnlyTheMarketHurts`; for the tree `RootOfAllLeaves` and `RingHoldsWindow`.

What the model shows of the contract that no document says: the contract's own
check does not forbid the same nullifier twice in one transaction (only the
circuit does, and inputs are a set here); a full tree refuses withdrawals as
well as deposits; a vault that refuses a *deposit* is ignored, one that refuses
a *withdrawal* fails the call; a divest can lose a stroop to rounding, which
`collect_yield` accounts for by computing the surplus again.

Left out: `update_admin` and authorisation; the nullifiers of dummy inputs; the
hash of the external data (a transaction is what was proved);
i128 bounds (amounts are capped by the deposit limit, far below 2^127).

### Positions

`LedgerPositions` gives events and resume tokens one number line: ledger times
width plus index, the last index of a ledger being "read to its end".
`Indexer`, `Bootnode`, `SppSync` and `CtSync` all use it.

### The indexer

`Indexer`: any number of worker processes, two streams and the backfill script
on one database. Steps are the pieces between awaits: `BeginPoll` reads the
cursor, `Fetch` gets a page outside any transaction, `Commit` is
`withTransaction` (events, activity, cursor together), `PollFails` is any throw.
`Crash` may come anywhere, `Shutdown` sets the flag `pollStreams` looks at
between streams. A cursor is its prefix (`mode`: none, plain, `handoff:`,
`rpc:`) and a position. A source may end its page after any event or at the end
of any ledger it scanned, and may or may not return a token at the tip; a
bootnode page without one is resumed behind its latest ledger, in bootnode mode.
The loader's read and write of the cursor are two steps.

Two things are **assumed** of what the worker is given. A page without a token
reached the end of the source's latest ledger (`NextTokens`): the worker resumes
behind that ledger and cannot tell. And the fixture was dumped while no event
came (`QuietDump`): `backfill-spp.ts:90-108` reads five contracts one after
another, `load-backfill.ts:57` takes the latest ledger of all five, so a fixture
may miss an event of a contract read early below the cursor that the loader sets.
`DumpSpan` is the number of ledgers that close while the script reads. It is 0 in
the configurations; with `DumpSpan = 1` TLC finds `NoGap` and `ImplementsArchive`
violated (`LoaderStart` with a missed event, then the loader's three steps).

`EventArchive` is what a reader of the table relies on, and where the indexer's
model and the sync's meet: the table holds a stream's events up to some point of the
chain, which may lie *inside a ledger*, lags, and never moves back. `Indexer`
implements it (`ImplementsArchive`, under `QuietDump`), `SppSync` moves its table by
its `Store`.

Properties: `NoGap`, `ImplementsArchive`, `ActivityOnce` (one worker),
`RpcModeKept`, `CtKeepsUp`, `SppKeepsUp`.

### The shielded sync

`Bootnode` is the endpoint's answer as a function of the table, and `SppSync`
composes it with the archive, the RPC and the wallet: `catch_up` with its two
`Indexer::init` probes, the bootnode leg, the rounds, and the two separate
transactions `save_events_batch` and `save_sync_progress`. Several syncs share
one storage; `Close` cuts any of them off anywhere. A stored row is an event
*and the source that named it*, because the two sources use different ids.
`Process` is the processor, which may be cut off between its transactions.

Properties: `NoEventSkipped`, `CompleteUnlessTorn`, and what the code does not keep
(section 5): `ResumesAfterHandoff`, `ProcessorEnds` and `FullyIndexedIsComplete`. The
last fails in two ways: when a scan of the RPC is shorter than what it keeps
(`ScanWindow`), and when the bootnode serves the RPC's latest ledger from a table that
ends inside it. `CompleteUnlessTorn` excepts the second by name: the history variable
`torn` keeps the ledgers a bootnode page ended in while they were the latest and the
table held a part of their events. About every other ledger the answer is right.

A sync that ends between a bootnode page and the handoff leaves the bootnode's
cursor behind, and the next sync sends it to the RPC (`sync.rs:431`). The model
has this happen; it costs rounds and loses no event.

Left out: `BackgroundSync`'s timer and its choice of source before the loop (its
rounds are the same calls; of its failures only the retry of a round is kept);
the ledger number in a handoff, which the SDK does not read. The table of public keys
keeps one row per *event id* and not per key, so it is not among the derived tables
modelled.

### The confidential token

`CtSync`: actors (refreshes and operations, in one tab or more) on one record.
An opening is abstracted to what went into it, its last spend and the *bag* of
credits merged since, so two openings are equal exactly when they commit to the
same point, and a credit counted twice shows. The engine's loop over the fetched events is
the recursive function `Replay` over positions, which come in the order that
`dedupeById` sorts them in. `sync` is three steps (load; floor
and indexer; RPC tail, replay and save), `transfer` and `withdraw` are a sync, a
proof, a submission and the late `setSpendable`.

Properties: `Reconciles` (replaying the events after the record's cursor onto
its openings gives the account's) and `ProvesTheRecord`.

Left out: amounts; transfers to oneself; more than a page of token events in a
ledger (`event-source.ts:90-94` excludes it); account events in the token's
deployment ledger. **Assumption** `MaxLag`: the indexer is never further behind
than the RPC's window minus the seam margin. With a longer lag `Reconciles`
fails (`MaxLag = 2` in `CtSync.cfg` shows it): a sync then reads the indexer up
to a seam it has not reached.

### The browser, the readers and the verifier

Nine modules for parts that interleave within themselves and share no state with
each other. `MCParts` runs them, with the tree, in one configuration: the initial
state chooses the part that is `live` and the others stay asleep, so the states
are the *sum* of the parts' states, and every part is explored in full.

* `WalletSession`: tabs on one bundle slot. An operation (`createWallet`,
  `connectExisting`, the silent session, restore) is a chain of steps between
  awaits; any tab may act, or be reloaded, in between. Keys are named after the
  wallet they were made for; `Old` are keys from before bundles named a wallet.
  A tab runs one operation at a time, because the page disables its button (a silent
  session that overlaps a create or a connect in the same tab is left out).
  `BannerHonest`: no banner means there is a file with these keys (`Old` keys are
  left out: adopted in a second tab, they leave a mark about other keys).
  `HandedOwnBundle`: a session gets its own wallet's bundle, unless another tab
  overwrote a restore. `MismatchHasNoBundle` the code does not keep (section 5).
* `ShieldedRail`: `connectSppRail`, the steps of `SppRail.connect` and the
  reducer of the tab, through failures, retries and changes of wallet.
  `ShowsOwnRail`, `GateLifts`, `OneLiveWorker`.
* `ShieldedPage`: operations, readings, the notice, the warning and the log.
  What the sources serve of the chain lags it (`Serve`), so a sync that succeeds
  may miss an operation, and one reported as failed may land after all, when it
  was only its confirmation that timed out (`Land`). An amount the page refuses is a
  notice of its own (`AmountRejected`), without an operation or a reading.
  `OutcomeShownApart`: the last operation's outcome is shown, unless an amount was
  refused since or a later reading failed. `OldViewSaid`: a view that misses an
  operation which was served when its newest reading began comes with the
  warning; what is served later needs another reading, and nothing tells the user
  so. `LogHoldsNewest`. The first two are about
  operations and readings that do not overlap (`crowded`). When they do, a
  reading that was under way before an operation and ends in an error after it
  takes the place of the outcome in the notice; the rule of
  `Shielded.tsx:183-184` is kept for an operation's *own* reading. A log write
  that fails is reported as a failure of the shield that succeeded (`LogFails`).
* `ConfidentialTab`: `OneSpendAtATime` (but for a form that was closed or a tab
  that was left while a spend ran) and `OldBalanceSaid`: the failure of a refresh
  is never lost. Idealised: a sync that succeeds sees all that has landed (a
  source that lags is `CtSync`'s matter; the card says of the view whether it
  matches the chain, `ct.ts:262`), and what was reported failed does not land later.
* `ActivityFeed`: `RowsHonest`, what a row says of its attempts.
* `RecipientBox`: `BadgeHonest`, what the badge says of the address in the field, in
  any order of the answers to lookups of it. A field that is changed while a lookup
  of another text is open, or edited under "ready" in the confidential form, is
  excepted until it is left with no such lookup open (`mixed`): there the code does
  show an answer about the text of before. A paste looks up the pasted text, while
  the field may hold it beside what was there.
* `PagedReads`: both API routes, the archive's pages and the RPC's scan, over rows
  that arrive in any order. `NothingBehind` and `ReadComplete`, about the rows
  there were when the reader passed; a row added behind it is seen next time. The
  RPC's read is complete too: it does not stop at a short page, but where its cursor
  is in the latest ledger (`ScanEnds`). What it may leave for the next read is the
  rest of that ledger, beyond a full page.
* `ArchiveDump`: `DumpFaithful`: the file that was written is in the chain's order,
  names each row's own transaction, and leaves out none before one it has.
* `Disclosure`: `AcceptedIsTrue` and `AcceptedWasMeant`: what a verifier accepts is
  a transfer on chain with its true amount, disclosed by its account to this
  verifier for this request. A proof is the public inputs it was made for.

Met while modelling, and neither a finding nor a property: `resolveEventRef`
reads at most 200 events of a ledger (`events.ts:342`), so an event past them is
"not found"; contract reads answer `null` on an error (`client.ts`), so a failed
read looks like an account that is not registered, and the confidential form
never says "check-failed"; a comment has a verifier ask the indexer first
(`verify.ts:81-84`), the code asks the RPC first; that one request accepts one
bundle (`recipient.ts:38`) is left to the caller; the pool statistics are read
by several calls that may see different ledgers (`pool-stats.ts:84`).

## 3. The runs

| Run | Instance | What it shows |
|---|---|---|
| `pool_notes` | 1 owner, amounts 0-2, 3 insertions, a window of 2 roots, proofs skewed by 0 or 1, every allow and block list | no double spend, liabilities equal the unspent notes, only keys the policy in force admits spend |
| `pool_vault` | prices 0-3 (unit 2), probe 3, a vault fee of 1, gifts, a full tree | payments are found, collecting takes no note-backed money |
| `indexer_overlap` | 2 workers, loader with a quiet dump, 2 ledgers of 2 events | no gap under overlap and crashes; the table fills in the chain's order |
| `indexer_single` | 1 worker, 2 streams, a malformed event, fairness | activity once, handoff permanent, streams keep up |
| `spp_sync` | 2 syncs, 2 ledgers of 2 events, RPC window 1, event lag 1, page 2 | nothing skipped, "fully indexed" is true but for torn ledgers |
| `ct_sync` | 1 operation and 1 refresh at a time, 5 ledgers, window 2 | the record reconciles, proofs are about real openings |
| `parts` | tree of depth 3 with a ring of 3; 2 tabs, 2 wallets, 2 files; 3 workers; 2 operations and 2 readings (pages); 3 lookups; 4 ledgers, pages of 2, scans of 2; 2 transfers, 2 requests, 1 bundle; 2 rows of 2 attempts; 2 archived transactions of 2 contracts | the properties of `MerkleTreeWithHistory` and of the nine modules of the last part of section 2 |
| `spp_handoff`, `spp_duplicates`, `spp_scan` | 1 sync, 2 or 3 ledgers | disagreements of section 5 |
| `ct_two_tabs`, `session_restore` | operations in 2 tabs; 1 tab, 2 wallets | disagreements of section 5 |

**Why the bounds suffice.** They are chosen so that each interesting thing
happens at least once and can happen after another: the root window (2 roots,
3 insertions) and the ring (3 slots, 4 insertions) are overrun; the tree fills;
a divest meets clamping, rounding and a fee; the RPC's window is shorter than
the history, so every reader falls out of it; where pages matter
(`indexer_overlap`, the `spp_` runs) a ledger has two events and a page may end
between them, elsewhere it has one; two processes are enough for each read-then-write race, since each
race is between a reader and *one* writer in between. `Width` caps the events of
a ledger, `MaxLedger` the ledgers, `MaxLeaves` the exploration of the tree,
`MaxIdle` the gifts, `MaxCopies` the copies counted. `spp_sync` processes one
event at a time (`FetchLimit = 1`), its violation runs two. In `parts` only the
tabs and the wallets of `WalletSession` are symmetric; one bundle reaches the
right request or the wrong one, and each read-then-write race has its reader and
one writer. Deadlock checking is
off: every bounded instance ends when its ledgers or leaves run out.

**Mutations.** Every property of a passing run has a mutation of the modelled
code (an operator beside the definition it replaces, marked "a mutation") under
which TLC finds that property violated: a check left out, a surplus computed too
early, rounding the other way, a ring one too long, a prefix forgotten, a page
rolled back by one bad event, a failed backfill tolerated, and so on.

**Fairness** (`indexer_single` only). `FairSpec` assumes that the platform
restarts a stopped worker, that the loop, its timers and backoff (at most 60 s)
go on, that a call ends or times out (30 s), and that the worker is not stopped
for ever. `Heals(s)` adds strong fairness for the source of the stream a property
is about and for nothing else: `CtKeepsUp` holds with the shielded stream's
source failing for ever, and the other way round. The RPC's window covers the
bounded chain there: a worker that sleeps longer than the window has no way to
catch up on the CT stream, which `docs/modules/api.md` says too.

## 4. The proofs

| Module | Theorem | Statement |
|---|---|---|
| `PoolProofs` | `TypeCorrect` | the pool's state stays well formed: idle and shares never negative, the tree within its capacity |
| | `LiabilitiesAreBacked` | `Spec => []NotesBacked` |
| | `PolicyIsInForce` | `Spec => PolicyInForce` |
| | `PoolImplementsBook` | `Spec => ImplementsBook`, the refinement of `ShieldedBook` |
| | `SolventPoolServes` | `Spec => []ServedWhenSolvent` |
| | `CollectingIsSafe`, `DivestRefillsBuffer`, `MarketAloneHurts` | `Spec => CollectKeepsBacking`, `BufferRefilled`, `OnlyTheMarketHurts` |
| `MerkleTreeProofs` | `TreeTypeCorrect`, `RingIsWindow` | the ring recognises exactly the latest `RootHistorySize` roots |
| | `RootIsOfAllLeaves` | `Spec => []RootOfAllLeaves`: the incremental root is the root of the whole tree, any depth |
| `IndexerProofs` | `TypeCorrect`, `TableHasNoGap` | `Spec => []NoGap`, with the invariant `CursorsKeepTheirPromise`, for a fixture dumped while no event came (`QuietDump`) |
| | `TablesFillInOrder`, `IndexerImplementsArchive` | `Spec => ImplementsArchive`, the refinement of `EventArchive`: any number of workers, the backfill script, crashes, under `QuietDump` |
| | `ActivityIsThereOnce`, `HandoffIsPermanent` | `Spec => []ActivityOnce`, `Spec => RpcModeKept`, for one worker without the backfill script |
| `SppSyncProofs` | `SyncReadsAnArchive` | `Spec => Api!Spec`: the chain and the table move as `EventArchive` allows |
| | `SyncTypeCorrect`, `NothingIsSkipped`, `FullyIndexedUnlessTorn` | `Spec => []NoEventSkipped` and `[]CompleteUnlessTorn`, if a scan covers what the RPC keeps (`ScansItsWindow`) |
| `CtSyncProofs` | `CtSyncTypeCorrect`, `CtSyncReconciles`, `CtSyncProvesTheRecord` | the three properties of the record, if the RPC's window covers the seam and the indexer's lag (`IndexerKeepsUp`) and one merge or spend runs at a time (`OneOperator`) |
| `PagesProofs` | `OutcomeIsShown`, `OldViewIsSaid`, `LogIsNewest` | the shielded page's three properties, any number of operations, readings and mountings, sources that lag, operations that land late |
| | `OneSpend`, `OldBalanceIsSaid` | the confidential tab's two |
| | `RowsStayHonest`, `BadgeStaysHonest` | the activity list's rows; the recipient's badge under any number of lookups of one address |
| `PartsProofs` | `SessionTypeCorrect`, `BannerIsHonest`, `OwnBundleHanded` | `[]BannerHonest` and `HandedOwnBundle`, any number of tabs, wallets and files |
| | `RailTypeCorrect`, `TabShowsOwnRail`, `GateAlwaysLifts`, `WorkerIsAlone` | the three properties of the rail |
| | `CursorsCanBeTrusted`, `ReadsAreComplete` | `[]NothingBehind`, `[]ReadComplete` for all four sources, any page size, scan and chain |
| | `DisclosureIsTrue`, `DisclosureWasMeant` | both properties, any number of accounts, verifiers, requests and bundles |
| | `DumpIsFaithful` | `DumpSpec => []DumpFaithful`, any contracts, events and widths of the packed places |
| | `PartsKeepToThemselves`, `PartsTypeCorrect` | `PartsSpec => Spec /\ RailSpec /\ ...` and `PartsSpec => []PartsTypeOK`: the parts as `MCParts` composes them |
| `PositionLemmas` | lemmas | arithmetic of ledgers and positions; least and largest elements; induction over the numbers a set holds |

They hold for all values of the constants that the named `ASSUME`s admit: any
number of owners, amounts, prices, workers, streams, ledgers, depths, syncs, tabs
and wallets. Where a theorem needs more than those, it says so in its own `ASSUME`.

* **Pool.** `TypeOK` is inductive. The arithmetic lies in lemmas about the
  vault operators (`SharesNeededType`: a clamped redemption never exceeds the
  shares; `EnsureIdleType`: what is returned covers what was required).
  `NotesBacked` is inductive with it: `SettleValue` computes the value of the
  unspent notes after a transaction from the conservation law of the circuit and
  additivity, so `sub_liabilities` is never called with more than is owed and
  its saturation never happens. The refinement maps the book's held notes to the
  unspent leaves; every step is a `Settle` of the book or a stutter.
* **Vault.** Four facts of rounded division carry it. `NeededIsEnough`: the probe
  never overstates a share, so the shares asked for, rounded up, are worth at
  least the amount, or the clamp has taken them all. `WorthSplits`: redeemed apart,
  shares are worth at most one stroop less than together. `InvestLosesLittle`: a
  deposit into the vault loses at most one unit of share and a stroop. `SurplusPaid`: a payment
  capped by the surplus left *after* the divest leaves what is owed, less the fee.
  `NotesBacked` enters where a withdrawal lowers the liabilities.
* **Ring.** The invariant `RingInOrder` says which slot holds which root: going
  backwards from the current slot, one meets the roots from the newest to the
  oldest, and a slot is empty only if there have not been that many roots yet.
* **Indexer.** `NoGap` is not inductive: a worker holds a cursor it has read and
  a page it has not stored, while others commit. The invariant `IInv` extends the
  promise to every position anyone holds: a stored cursor, a cursor read by a
  worker, a page's next position given that page's events are committed with it,
  and the loader's last ledger given the events it has left (which is where `QuietDump`
  is needed). It is preserved
  because the table only grows and a closed ledger gets no further events.
  The argument needs nothing of the number of workers, which is why a cursor may
  move *backwards* under overlap and still leave no gap.
* **Archive** (`OrderInv`). That no event is missing *before a cursor* does not say
  that the table has no hole past it. `PagesWhole` and `LoaderWhole` add that whatever a
  worker or the script is about to store leaves nothing out between the table and its
  last event (`PollFetches`, from how a page is cut), so the table stays an initial part
  of the chain whoever writes next. The refinement maps a commit and a chunk to `Store`,
  a closed ledger to `Extend`, and every other step to a stutter.
* **One worker** (`OneInv`). The cursor of a stream then moves only when the worker
  that read it commits: what it read is still the cursor, its page begins there
  (`PagesFollow`), and nothing at or past a cursor is in the table. So the events
  of a commit are new, which is `ActivityOnce`, and a position never decreases.
  Overlapping workers do break `ActivityOnce`: the insert has no conflict clause.
* **Shielded sync** (`SyncInv`). A position kept anywhere, in the metadata, in a
  round's cursor or start, or with a page whose events are on their way, is a
  promise: every event before it is stored, or comes with it. `save_events_batch`
  makes the page's promise the storage's, and only then does
  `save_sync_progress` record it. The storage only grows, so other syncs may do as
  they like between the two, clear the cursor included; a promise says nothing of
  ledgers to come, so the chain may grow. An empty page promises its latest ledger
  only if the scan reached it, which is where `ScansItsWindow` is needed. `CaughtUp` is
  the same for `last_fully_indexed_ledger`: a page that is not full and ends in the latest
  ledger has that whole ledger if the table had (`TableInOrder`: it then has all before it
  too), and otherwise the ledger is in `torn`.
* **The two together.** What `SppSync` assumes of the table is `Api!Spec`
  (`SyncReadsAnArchive`), and `Indexer` is proved to give it (`IndexerImplementsArchive`):
  one module, `EventArchive`, instantiated on both sides. So a wallet's `NoEventSkipped`
  rests on the worker's code and on what that needs of its inputs: a source whose
  pages without a token reached its latest ledger, and a fixture dumped while no event
  came (`QuietDump`).
* **Tree.** The code keeps one hash per level and combines them by the parity of
  the index. `FilledOK` says what each must be for this to work: at every level
  where the next leaf falls into a right half, the saved hash is that of the whole
  subtree on the left. `PathIsNodes` then climbs the path of the new pair, level by
  level, and finds at each the node of the whole tree; a subtree without leaves has
  the level's zero (`NodesBeyond`). Every insertion keeps `FilledOK`, for the levels
  it writes and for those it leaves (`FilledGrows`).
* **Openings** (`CtSyncProofs!IInv`). A record or a sync's memory is `Sound` if
  replaying what it has not seen gives the account's balances. `SpendWins` is the
  reason a late `setSpendable` is harmless: a spend replaces the spendable opening
  whatever it was, so an opening written ahead of its event is written once more by
  the event. `ReadsAll` says that what a sync has fetched is all there was between
  its cursor and its head; the backfill's seam is where `IndexerKeepsUp` is needed, and
  `OneOperator` (one merge or spend at a time) is needed for the record that a spend was proved about to be still the
  newest when its opening is written. Neither can be dropped: `MaxLag = 2` in `CtSync.cfg`
  and the run `ct_two_tabs` are the counterexamples.
* **Pages** (`PageInv`, `TabInv`). The code lets operations overlap (its busy marks
  are per mounting, and per form), so the heart of both invariants is an alternative:
  something has overlapped, which the history variables `crowded` and `mingled` say, or
  (`OneThing`, `Single`) what runs is the newest operation or its own reading, the page
  knows of it, and what it has read is at least what was served when its reading began (in the
  confidential tab, what has landed). `FormKnows` ties a spend under way
  to the form that shows it busy, unless the form was closed. `BusyKnows` does the same for the
  page's log: the operation under way has read the newest log, so it writes back none that
  misses an entry.
* **Rows and badge** (`FeedInv`, `BoxInv`). A row's attempts are numbered and only the
  latest may change what it says; an attempt that was replaced ends unheard
  (`AttemptsDistinct`, `RowSettled`). While the badge can only be about the field's
  address (`mixed` is false), every open lookup is of it (`OpenLookupsAreOfBox`).
* **Paged reads** (`ReadsInv`). Behind its cursor a reader has everything and ahead of
  it nothing, so the RPC's read is complete because it ends in the latest ledger only. The probe row tells a full last page from one with rows after it
  (`ProbeTells`); an empty scan moves the cursor over ledgers without rows only
  (`ScanKeeps`); rows that arrive behind the cursor are the ones `late` excepts.
* **Session** (`SessionInv`). The invariant follows a bundle through everything
  that holds one (slot, files, sessions, operations about to store it): its keys
  are those of the wallet it names. Marks and restores go back to a file.
* **Rail.** `RailKept`: a rail given to the tab stays ready in the slot.
  `GateIsForeign`: a gate is about a slot that is not the tab's own.
* **Disclosure.** `MadeFor` keeps for each bundle the transfer and the request it was
  made for; a proof that verifies names both, so the verifier looked up the same.
* **Dump** (`DumpInv`). `Unpacked` and `ToidTells`: a packed name gives back its places,
  by quotient and remainder, for any widths. `HandOK`: of a contract that was read,
  the script holds, as a row or still due, every event before one it holds; a transaction that
  comes while it works is later than all it has read (`EmitsLater`). The hash it finds is
  the event's own transaction's because `resolveTxHash` refuses another (`HashFound`).
  `Ranked` is why a sorted array exists: the number of elements before one is its place.

* **Parts together.** A step of `MCParts` is, for each part, a step of its own or a
  stutter (`EachPartSteps`), so its behaviours are theirs. The session, the badge, the
  list and the reads have an initial state there that is not their own, in which they
  sleep; for the session `SleepsInOrder` shows that its invariant holds in it.

**Recursive functions.** The library's induction theorems take an operator as a
parameter and cannot be used. Induction over a *set* of numbers can
(`SetInduction`, from the least counterexample: `WFMin` with `NatLessThanWellFounded`): the set of
positions up to which two replays agree, or of levels at which the path is right, holds 0
and with every number the next. This carries the tree and the openings.

**What the proofs found in the models.** `CtSync!ReadFloor` chose between the branches
of `hybridFetchEvents` with a `CASE` whose arms overlapped, where TLA+ leaves the choice open; the
proof could not be closed until each arm had the code's own guard. TLC, which
takes the first arm that holds, had checked the intended reading.
Putting the two sides of the table into one specification showed that `SppSync` had
assumed more than the indexer gives: it let the archive advance by whole ledgers, but the
worker commits pages of at most 100 events (`poller.ts:205`), so a table may end inside
one. With `EventArchive`'s `Store` instead, TLC found `FullyIndexedIsComplete` violated
with a full scan too: the second way of section 2, which `torn` names.

Model-checked only: the liveness properties `CtKeepsUp` and `SppKeepsUp` and everything
else under fairness (out of the prover's reach, as is `ENABLED`). Every invariant and
every action property of a passing run is stated by a theorem.

## 5. Where the code and its documents disagree

* `spp_handoff`: after the bootnode's handoff a wallet is to resume on its own
  RPC, but it resumes at the *last event* it read, and when that is older than
  the RPC's window the sync fails, for good while the pool stays quiet.
* `spp_duplicates`: the bootnode serves the table's ids, the RPC its own, so a
  ledger read from both is stored twice, and the second copies are "unprocessed"
  for ever: the processor's loop does not end.
* `spp_scan`: the SDK takes an empty page for the end of the chain and records its
  latest ledger as fully indexed. The CT SDK says of the same RPC that an empty page
  does not mean that, because a request scans a bounded number of ledgers
  (`indexer.rs:155`, `events.ts:294`). A pool that is quiet for one scan is enough.
  The same field is set too far in a second way, with a full scan: the bootnode serves the
  rows of the latest ledger that the worker has stored so far, asks the RPC for its
  `latestLedger` afresh, and the SDK takes the last row's ledger for a complete one
  (`at_events_tip`, which `indexer.rs:64` describes; `chain_data.rs:197` says "proven
  (empty page at tip)"). The next round reads the rest. Until then a recipient registered
  in that part looks unregistered in a registry that is "fully synced"
  (`storage.rs:641-652`), and a membership check, which compares roots, can end with
  an error instead of `SyncRequired` (`storage.rs:1053-1061`).
* `ct_two_tabs`: with operations in two tabs, `setSpendable` can put an older
  opening over a newer one, with a cursor past the events that would repair it.
  One tab is enough when its form is switched, or merged beside, while a spend
  runs: the busy mark goes with the form (`ConfidentialTab`).
* `session_restore`: a restore into a session whose wallet did not match the stored
  bundle sets the bundle and leaves the mismatch (`WalletProvider.tsx:193`), though
  `WalletProvider.tsx:37` says there is no bundle then; the pages keep sending the
  user back to the restore page until a reload.

`PROJECT.json` quotes the lines each contradicts.

## 6. Not modelled

* **API shell, RPC proxy, configuration, transaction builders.** Stateless: wiring,
  forwarding, constants and argument encoding.
* **Note scanning, planner, prover, circuits, verifier.** Cryptography and pure
  computation over the tables that `SppSync` keeps. Their guarantee enters as
  `CircuitAccepts` (`Pool`) and as proofs that are their public inputs (`Disclosure`).
* **ASP and registry contracts.** Vendored. The pool reads two roots from them, which
  `Pool` lets change at any time to any list.
* **`BackgroundSync`'s loop.** Its rounds are the calls of `SppSync`. It chooses its
  source once, so a tab asleep for longer than the RPC keeps history stays behind;
  nothing in the repository promises otherwise. That a wallet catches up, given
  fairness, does not hold in general because of `spp_handoff`.
* **`update_admin` and authorisation** in the pool; `process_notes`,
  `reconcile_nullifiers`, the key and settings tables of the SDK's storage.
* **Rendering, wording, formatting, the landing page, the pool statistics**, smoke
  scripts and deployment.
