------------------------------ MODULE MCCommands ------------------------------
(***************************************************************************)
(* Terminals in front of a deployed marketplace with one NFT, which lies   *)
(* in its owner's associated token account or in another one of his.       *)
(***************************************************************************)
EXTENDS MCMarket, CommandProperties, Tracking

CONSTANTS ann, bob, cyd, boss, teamA, artist, nft

MCMetadata ==
    [m \in {nft} |-> [seller_fee_basis_points |-> 1000,
                      creators |-> <<[address |-> artist, share |-> 100]>>]]
MCTreasuries == <<<<teamA, 5000>>>>
MCEndowment == [w \in Wallet |-> IF w \in User THEN 400 ELSE 0]
MCPayerOf == [t \in Terminal |-> t]

\* Everybody at the keyboard: what he types, and how often.
Nobody == [lines |-> {}, most |-> 0]
Types(lines, most) == [lines |-> lines, most |-> most]

TokensInit ==
    /\ \A m \in Mint : holder[m] = ann
    /\ aux \in SUBSET Mint
    /\ atas = {<<holder[m], m>> : m \in Mint \ aux}

Line(name) == <<name, [address |-> nft]>>
Priced(name, option, amount) ==
    <<name, [o \in {"address", option} |-> IF o = "address" THEN nft ELSE amount]>>

-----------------------------------------------------------------------------
\* ann sells and bob buys, for a fixed price or by an offer.
Sale ==
    [t \in Terminal |->
        CASE t = ann ->
               Types({Priced("list", "price_sol", 200),
                      Priced("set_price", "price_sol", 100), Line("delist"),
                      <<"accept_offer", [address |-> nft, buyer |-> bob]>>,
                      <<"transfer", [address |-> nft, recipient |-> bob]>>}, 2)
          [] t = bob ->
               Types({Line("purchase"), Priced("make_offer", "price", 150),
                      Line("cancel_offer")}, 2)
          [] OTHER -> Nobody]

\* ann auctions; bob and cyd bid.
Auction(reserve) ==
    <<"create_auction", [address |-> nft, start_price |-> 100,
                         min_increase |-> 50, duration |-> 1, reserve |-> reserve]>>

Bidding ==
    [t \in Terminal |->
        CASE t = ann -> Types({Auction(0), Auction(1)}, 1)
          [] t = bob -> Types({Priced("place_bid", "price", 100)}, 1)
          [] t = cyd -> Types({Priced("place_bid", "price", 200)}, 1)
          [] OTHER -> Nobody]

\* ann lists beside a reserved auction.
Reserve ==
    [t \in Terminal |->
        CASE t = ann ->
               Types({Auction(1), Priced("list", "price_sol", 200), Line("delist"),
                      Priced("update_reserve", "start_price", 150),
                      Line("cancel_auction")}, 2)
          [] t = bob ->
               Types({Priced("place_bid", "price", 200), Line("claim_auction")}, 2)
          [] OTHER -> Nobody]

\* ann, who may have no token account for it, ends one of listing and auction.
Beside ==
    [t \in Terminal |->
        IF t = ann
        THEN Types({Auction(1), Priced("list", "price_sol", 200), Line("delist"),
                    Line("cancel_auction")}, 3)
        ELSE Nobody]

\* boss changes the payees while what ann listed is sold to bob.
Reform ==
    [t \in Terminal |->
        CASE t = boss ->
               Types({<<"remove_treasury", [address |-> teamA]>>,
                      <<"update_fee", [sol_fee |-> 100]>>}
                     \cup {<<"add_treasury", [address |-> a, rate |-> 4000]>> :
                             a \in {teamA, artist}}, 2)
          [] t = ann -> Types({<<"accept_offer", [address |-> nft, buyer |-> bob]>>}, 1)
          [] t = bob -> Types({Line("purchase"), Priced("make_offer", "price", 150)}, 1)
          [] OTHER -> Nobody]

\* Lines that go wrong, and that only ask, come in between.
Saving ==
    [t \in Terminal |->
        IF t \in {ann, bob}
        THEN Types({<<"deposit", [sol |-> 100]>>, <<"withdraw", [sol |-> 50]>>,
                    <<"deposit", [sol |-> NotANumber]>>, <<"status", <<>>>>}, 2)
        ELSE Nobody]

\* From nothing at all.
Founding ==
    [t \in Terminal |->
        IF t \in {ann, bob}
        THEN Types({<<"init", <<>>>>, <<"init_user", <<>>>>, Auction(0),
                    IF t = ann THEN Priced("list", "price_sol", 200)
                    ELSE Priced("make_offer", "price", 150)}, 2)
        ELSE Nobody]

-----------------------------------------------------------------------------
\* ann's NFT is listed, and an offer of bob's stands.
ListedInit ==
    /\ global_authority = DeployedPool
    /\ now = MaxTime
    /\ user_pool = [u \in User |-> [address |-> u, traded_volume |-> 0,
                                    escrow_sol_balance |-> IF u = bob THEN 150 ELSE 0]]
    /\ sell = [m \in Mint |-> [mint |-> m, seller |-> ann, price_sol |-> 200,
                               listed_date |-> now, active |-> 1]]
    /\ offer = [m \in Mint |-> [u \in User |->
                   [mint |-> m, buyer |-> u, offer_price |-> 150,
                    offer_listing_date |-> now, active |-> IF u = bob THEN 1 ELSE 0]]]
    /\ auction = [m \in Mint |-> [NoAuctionData EXCEPT !.mint = m]]
    /\ lamports = [w \in Wallet \cup {EscrowVault} |->
                      IF w = EscrowVault THEN 150 ELSE Endowment[w]]
    /\ holder = [m \in Mint |-> GlobalAuthority]
    /\ aux = {}
    /\ atas = {<<u, m>> : u \in {ann, GlobalAuthority}, m \in Mint}

\* Only auctions need a clock that runs on.
TradingInit ==
    \/ DeployedAt(StartTime) /\ TokensInit /\ TerminalsInit(Bidding)
    \/ DeployedAt(StartTime) /\ TokensInit /\ aux = {} /\ TerminalsInit(Reserve)
    \/ DeployedAt(StartTime) /\ TokensInit /\ TerminalsInit(Beside)
    \/ DeployedAt(MaxTime) /\ TokensInit /\ TerminalsInit(Sale)
    \/ ListedInit /\ TerminalsInit(Reform)
TradingSpec == TradingInit /\ [][TerminalsNext]_systemVars

CommandsInit ==
    \/ DeployedAt(MaxTime) /\ TokensInit /\ TerminalsInit(Saving)
    \/ Init /\ TokensInit /\ TerminalsInit(Founding)
CommandsSpec == CommandsInit /\ [][TerminalsNext]_systemVars /\ TerminalsFairness

SaleSpec ==
    /\ DeployedAt(MaxTime) /\ TokensInit /\ TerminalsInit(Sale)
    /\ [][TerminalsNext]_systemVars
=============================================================================
