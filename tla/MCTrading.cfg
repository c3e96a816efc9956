SPECIFICATION TradingSpec
CONSTANTS
    ann = ann
    bob = bob
    cyd = cyd
    boss = boss
    teamA = teamA
    artist = artist
    nft = nft
    Wallet = {ann, bob, cyd, boss, teamA, artist}
    User = {ann, bob, cyd, boss}
    Mint = {nft}
    Default = Default
    EscrowVault = EscrowVault
    GlobalAuthority = GlobalAuthority
    NoCreators = NoCreators
    Metadata <- MCMetadata
    MaxU64 = 100000000
    MaxI64 = 1000
    MaxTeam = 2
    OverflowChecks = FALSE
    FeeInput = {100}
    RateInput = {4000}
    PriceInput = {49, 50, 99, 100, 149, 150, 199, 200}
    MinIncreaseInput = {49, 50}
    DurationInput = {1}
    Endowment <- MCEndowment
    StartTime = 5
    MaxTime = 6
    MaxVolume = 1000
    MaxSafe = 50000000
    Terminal = {ann, bob, cyd, boss}
    PayerOf <- MCPayerOf
    NotANumber = NotANumber
    Admin = boss
    Treasuries <- MCTreasuries
    MarketFee0 = 530
CHECK_DEADLOCK FALSE
PROPERTIES ActivityTellsTheStep MarketImplemented OutbidIsRefunded SalesPayThoseOfNow
