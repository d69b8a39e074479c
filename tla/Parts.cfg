SPECIFICATION PartsSpec

CONSTANTS
    Levels = 3
    RootHistorySize = 3
    LeafValues <- TwoLeaves
    ZeroLeaf <- AbsentLeaf
    FieldZero <- NullRoot
    Hash <- PairHash
    Tabs = {tab1, tab2}
    Wallets = {anna, ben}
    Nobody = nobody
    Old = old
    MaxFiles = 2
    RailWallets = {carl, dora}
    NoWallet = nowallet
    MaxWorkers = 3
    MaxRuns = 2
    MaxReads = 2
    MaxEntries = 2
    MaxOps = 2
    MaxLoads = 2
    Recipients = {inga, jack}
    Account = account
    Blank = blank
    MaxLookups = 3
    MaxLedger = 4
    Limit = 2
    Window = 2
    Accounts = {emma, finn}
    Amounts = {1, 2}
    Verifiers = {gina, hugo}
    MaxEvents = 2
    MaxNonces = 2
    MaxBundles = 1
    Rows = {row1, row2}
    MaxAttempts = 2
    OpOrders = 2
    TxOrders = 4
    Positions <- TwoPlaces
    Contracts <- PoolAndRegistry
    MaxTxs = 2

INVARIANTS
    PartsTypeOK
    RootOfAllLeaves
    RingHoldsWindow
    BannerHonest
    ShowsOwnRail
    GateLifts
    OneLiveWorker
    OutcomeShownApart
    OldViewSaid
    LogHoldsNewest
    OneSpendAtATime
    OldBalanceSaid
    BadgeHonest
    RowsHonest
    DumpFaithful
    NothingBehind
    ReadComplete
    AcceptedIsTrue
    AcceptedWasMeant

PROPERTIES
    HandedOwnBundle

SYMMETRY Alike

CHECK_DEADLOCK FALSE
