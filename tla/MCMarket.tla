------------------------------ MODULE MCMarket ------------------------------
(***************************************************************************)
(* Instances of the marketplace for TLC.  To spend the states on trading,  *)
(* behaviours start after deployment: the pool has its fee and treasuries  *)
(* and the PDAs exist, a state the creation instructions reach.            *)
(***************************************************************************)
EXTENDS MarketProperties

CONSTANTS
    Admin,       \* the super admin, a user
    Treasuries,  \* sequence of <<address, rate>> added at deployment
    MarketFee0   \* the fee set at deployment

DeployedPool ==
    [super_admin |-> Admin,
     market_fee_sol |-> MarketFee0,
     team_count |-> Len(Treasuries),
     team_treasury |->
        [i \in Slot |-> IF i < Len(Treasuries) THEN Treasuries[i + 1][1]
                        ELSE Default],
     treasury_rate |->
        [i \in Slot |-> IF i < Len(Treasuries) THEN Treasuries[i + 1][2]
                        ELSE 0]]

DeployedAt(time) ==
    /\ global_authority = DeployedPool
    /\ now = time
    /\ user_pool = [u \in User |-> [NoUserData EXCEPT !.address = u]]
    /\ sell = [m \in Mint |-> [NoSellData EXCEPT !.mint = m]]
    /\ offer = [m \in Mint |-> [u \in User |->
                   [NoOfferData EXCEPT !.mint = m, !.buyer = u]]]
    /\ auction = [m \in Mint |-> [NoAuctionData EXCEPT !.mint = m]]
    /\ lamports = [w \in Wallet \cup {EscrowVault} |->
                      IF w = EscrowVault THEN 0 ELSE Endowment[w]]
    /\ holder \in [Mint -> User]

DeployedInit == DeployedAt(StartTime)

\* Trading by listings and auctions only.
CustodyNext == Tick \/ Listing \/ Auctioning
CustodySpec == DeployedInit /\ [][CustodyNext]_vars
=============================================================================
