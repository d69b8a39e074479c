SPECIFICATION Spec

CONSTANTS
    Owners = {alice}
    Levels = 3
    RootHistorySize = 2
    RequiresMembership = TRUE
    RequiresNonMembership = TRUE
    AllowLists <- EveryList
    BlockLists <- EveryList
    MaximumDepositAmount = 2
    NoteAmounts <- SmallAmounts
    ExtAmounts <- SmallExts
    ProofSkew <- SkewedProofs
    InvestParams <- SomeParams
    Prices <- OnePrice
    MaxIdle = 0
    Unit = 2
    ShareProbe = 3
    VaultFee = 0
    MaxLeaves = 6

INVARIANTS
    TypeOK
    NotesBacked

PROPERTIES
    ImplementsBook
    PolicyInForce

CHECK_DEADLOCK FALSE
