SPECIFICATION CustodySpec
CONSTANTS
    ann = ann
    bob = bob
    cyd = cyd
    team = team
    boss = boss
    nft = nft
    Wallet = {ann, bob, cyd, team, boss}
    User = {ann, bob, cyd}
    Mint = {nft}
    Default = Default
    EscrowVault = EscrowVault
    GlobalAuthority = GlobalAuthority
    NoCreators = NoCreators
    Metadata <- MCMetadata
    MaxU64 = 1048575
    MaxI64 = 1000
    MaxTeam = 1
    OverflowChecks = TRUE
    FeeInput = {}
    RateInput = {}
    PriceInput <- MCPriceInput
    MinIncreaseInput = {0, 1}
    DurationInput = {0, 1}
    Endowment <- MCEndowment
    StartTime = 5
    MaxTime = 7
    MaxVolume = 3
    Admin = boss
    Treasuries <- MCTreasuries
    MarketFee0 = 0
SYMMETRY UserSymmetry
CHECK_DEADLOCK FALSE
PROPERTIES StartPriceHonoured
