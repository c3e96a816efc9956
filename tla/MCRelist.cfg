SPECIFICATION OffersSpec
CONSTANTS
    ann = ann
    bob = bob
    teamA = teamA
    teamB = teamB
    artist = artist
    label = label
    boss = boss
    nft = nft
    Wallet = {ann, bob, boss, teamA, teamB, artist, label}
    User = {ann, bob}
    Mint = {nft}
    Default = Default
    EscrowVault = EscrowVault
    GlobalAuthority = GlobalAuthority
    NoCreators = NoCreators
    Metadata <- MCMetadata
    MaxU64 = 1048575
    MaxI64 = 1000
    MaxSafe = 511
    MaxTeam = 2
    OverflowChecks = TRUE
    FeeInput = {}
    RateInput = {}
    PriceInput <- MCPriceInput
    MinIncreaseInput = {100}
    DurationInput = {0, 1}
    Endowment <- MCEndowment
    StartTime = 5
    MaxTime = 6
    MaxVolume = 200
    Admin = boss
    Treasuries <- MCTreasuries
    MarketFee0 = 530
SYMMETRY UserSymmetry
CHECK_DEADLOCK FALSE
PROPERTIES NewListingHasNoOffers
