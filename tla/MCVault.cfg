SPECIFICATION VaultSpec
CONSTANTS
    ann = ann
    bob = bob
    cyd = cyd
    team = team
    artist = artist
    label = label
    boss = boss
    nft1 = nft1
    nft2 = nft2
    Wallet = {ann, bob, cyd, boss, team, artist, label}
    User = {ann, bob, cyd}
    Mint = {nft1, nft2}
    Default = Default
    EscrowVault = EscrowVault
    GlobalAuthority = GlobalAuthority
    NoCreators = NoCreators
    Metadata <- MCMetadata
    MaxU64 = 1048575
    MaxI64 = 1000
    MaxTeam = 1
    OverflowChecks = FALSE
    FeeInput = {}
    RateInput = {}
    PriceInput <- MCPriceInput
    MinIncreaseInput = {100}
    DurationInput = {1}
    Endowment <- MCEndowment
    StartTime = 5
    MaxTime = 7
    MaxVolume = 100000
    Admin = boss
    Treasuries <- MCTreasuries
    MarketFee0 = 530
CHECK_DEADLOCK FALSE
PROPERTIES SurplusKept AuctionSettles
