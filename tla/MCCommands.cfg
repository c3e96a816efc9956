SPECIFICATION CommandsSpec
CONSTANTS
    ann = ann
    bob = bob
    cyd = cyd
    boss = boss
    teamA = teamA
    artist = artist
    nft = nft
    Wallet = {ann, bob, boss, teamA, artist}
    User = {ann, bob}
    Mint = {nft}
    Default = Default
    EscrowVault = EscrowVault
    GlobalAuthority = GlobalAuthority
    NoCreators = NoCreators
    Metadata <- MCMetadata
    MaxU64 = 100000000
    MaxI64 = 1000
    MaxTeam = 2
    OverflowChecks = TRUE
    FeeInput = {100}
    RateInput = {4000}
    PriceInput = {49, 50, 99, 100}
    MinIncreaseInput = {49, 50}
    DurationInput = {1}
    Endowment <- MCEndowment
    StartTime = 5
    MaxTime = 5
    MaxVolume = 1000
    MaxSafe = 50000000
    Terminal = {ann, bob}
    PayerOf <- MCPayerOf
    NotANumber = NotANumber
    Admin = boss
    Treasuries <- MCTreasuries
    MarketFee0 = 530
CHECK_DEADLOCK FALSE
INVARIANTS DepositedOnce CreatedBeforeUse
PROPERTIES CommandsReturn
