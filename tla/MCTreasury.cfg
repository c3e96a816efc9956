SPECIFICATION AdministrationSpec
CONSTANTS
    u1 = u1
    u2 = u2
    t1 = t1
    t2 = t2
    plain = plain
    odd = odd
    whole = whole
    Wallet = {u1, u2, t1, t2}
    User = {u1, u2}
    Mint = {plain, odd, whole}
    Default = Default
    EscrowVault = EscrowVault
    GlobalAuthority = GlobalAuthority
    NoCreators = NoCreators
    Metadata <- MCMetadata
    MaxU64 = 999999999
    MaxI64 = 1000
    MaxTeam = 3
    OverflowChecks = FALSE
    FeeInput <- MCFeeInput
    RateInput <- MCRateInput
    PriceInput <- MCPriceInput
    MinIncreaseInput = {}
    DurationInput = {}
    Endowment <- MCEndowment
    StartTime = 0
    MaxTime = 0
    MaxVolume = 0
INVARIANTS TreasuryTypeOK PayeesDistinct RatesWithinWhole PayoutWithinPrice
PROPERTIES OnePayeeAtATime TeamImplemented
