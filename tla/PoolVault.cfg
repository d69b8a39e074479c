SPECIFICATION Spec

CONSTANTS
    Owners = {alice}
    Levels = 2
    RootHistorySize = 2
    RequiresMembership = FALSE
    RequiresNonMembership = FALSE
    AllowLists <- NoList
    BlockLists <- NoList
    MaximumDepositAmount = 3
    NoteAmounts <- SmallAmounts
    ExtAmounts <- LargeExts
    ProofSkew <- HonestProofs
    InvestParams <- VaultParams
    Prices <- SomePrices
    MaxIdle = 2
    Unit = 2
    ShareProbe = 3
    VaultFee = 1
    MaxLeaves = 4

INVARIANTS
    ServedWhenSolvent

PROPERTIES
    CollectKeepsBacking
    BufferRefilled
    OnlyTheMarketHurts

CHECK_DEADLOCK FALSE
