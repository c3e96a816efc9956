SPECIFICATION Spec
CONSTANTS
    ann = ann
    bob = bob
    nft = nft
    Wallet = {ann, bob}
    User = {ann, bob}
    Mint = {nft}
    Default = Default
    EscrowVault = EscrowVault
    GlobalAuthority = GlobalAuthority
    NoCreators = NoCreators
    Metadata <- MCMetadata
    MaxU64 = 1048575
    MaxI64 = 1000
    MaxSafe = 511
    MaxTeam = 1
    OverflowChecks = FALSE
    FeeInput = {0, 10000}
    RateInput = {10000}
    PriceInput = {2}
    MinIncreaseInput = {1}
    DurationInput = {0}
    Endowment <- MCEndowment
    StartTime = 5
    MaxTime = 5
    MaxVolume = 2
SYMMETRY UserSymmetry
CHECK_DEADLOCK FALSE
INVARIANTS TypeOK CustodyInv EscrowIsVisible
PROPERTIES OwnershipImplemented
