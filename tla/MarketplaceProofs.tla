-------------------------- MODULE MarketplaceProofs --------------------------
(***************************************************************************)
(* Type correctness of the marketplace and the custody of its NFTs, for    *)
(* every set of wallets, users and mints, every price, fee and royalty,    *)
(* and both overflow settings of the build.                                *)
(***************************************************************************)
EXTENDS MarketProperties, PaymentProofs

-----------------------------------------------------------------------------
(***************************************************************************)
(* The layouts survive the updates that the handlers make.                 *)
(***************************************************************************)
LEMMA WithVolumeType ==
  ASSUME NEW pool \in UserData, NEW price \in U64
  PROVE  WithVolume(pool, price) \in UserData
<1>1. pool.traded_volume + price \in Int
  BY IntegersAssumption DEF UserData, U64
<1>2. Wrapped(pool.traded_volume + price) \in U64 BY <1>1, WrappedU64
<1> QED BY <1>2 DEF WithVolume, UserData

LEMMA WithEscrowType ==
  ASSUME NEW pool \in UserData, NEW balance \in Int
  PROVE  WithEscrow(pool, balance) \in UserData
<1>1. Wrapped(balance) \in U64 BY WrappedU64
<1> QED BY <1>1 DEF WithEscrow, UserData

LEMMA EscrowMoveType ==
  ASSUME TypeOK, NEW owner \in User, NEW balance \in Int
  PROVE  [user_pool EXCEPT ![owner] = WithEscrow(@, balance)]
            \in [User -> UserData]
<1>1. user_pool \in [User -> UserData] BY DEF TypeOK
<1>2. WithEscrow(user_pool[owner], balance) \in UserData
  BY <1>1, WithEscrowType
<1> QED BY <1>1, <1>2

LEMMA BalanceInt ==
  ASSUME TypeOK, NEW owner \in User
  PROVE  user_pool[owner].escrow_sol_balance \in Nat
BY IntegersAssumption DEF TypeOK, UserData, U64

LEMMA EndListingType ==
  ASSUME TypeOK, NEW m \in Mint, EndListing(m)
  PROVE  /\ sell' \in [Mint -> SellData]
         /\ auction' \in [Mint -> AuctionData]
<1>1. sell[m] \in SellData /\ auction[m] \in AuctionData BY DEF TypeOK
<1>2. [sell[m] EXCEPT !.active = 0] \in SellData BY <1>1 DEF SellData
<1>3. [auction[m] EXCEPT !.status = IF @ = 3 THEN 0 ELSE @] \in AuctionData
  BY <1>1 DEF AuctionData
<1> QED BY <1>2, <1>3 DEF EndListing, TypeOK

\* One offer changes.
LEMMA OneOfferType ==
  ASSUME TypeOK, NEW m \in Mint, NEW u \in User, NEW o \in OfferData
  PROVE  [offer EXCEPT ![m][u] = o] \in [Mint -> [User -> OfferData]]
<1>1. offer \in [Mint -> [User -> OfferData]] BY DEF TypeOK
<1>2. [offer[m] EXCEPT ![u] = o] \in [User -> OfferData] BY <1>1
<1> QED BY <1>1, <1>2

\* An auction record stays one when fields are set to values of their types.
LEMMA AuctionFields ==
  ASSUME NEW a \in AuctionData
  PROVE  /\ \A k \in Key : [a EXCEPT !.creator = k] \in AuctionData
         /\ \A k \in Key : [a EXCEPT !.last_bidder = k] \in AuctionData
         /\ \A x \in U64 : [a EXCEPT !.start_price = x] \in AuctionData
         /\ \A x \in U64 : [a EXCEPT !.min_increase_amount = x] \in AuctionData
         /\ \A x \in U64 : [a EXCEPT !.highest_bid = x] \in AuctionData
         /\ \A t \in I64 : [a EXCEPT !.start_date = t] \in AuctionData
         /\ \A t \in I64 : [a EXCEPT !.last_bid_date = t] \in AuctionData
         /\ \A t \in I64 : [a EXCEPT !.duration = t] \in AuctionData
         /\ \A s \in 0 .. 3 : [a EXCEPT !.status = s] \in AuctionData
BY DEF AuctionData

LEMMA NewAuctionType ==
  ASSUME NEW a \in AuctionData, now \in I64, NEW owner \in Key,
         NEW start_price \in U64, NEW min_increase \in U64,
         NEW duration \in I64, NEW reserved
  PROVE  NewAuction(a, owner, start_price, min_increase, duration, reserved)
            \in AuctionData
<1> DEFINE bid == Wrapped(start_price - min_increase)
           status == IF reserved = 0 THEN 1 ELSE 3
           date == IF reserved = 0 THEN now ELSE a.start_date
           a1 == [a EXCEPT !.creator = owner]
           a2 == [a1 EXCEPT !.start_price = start_price]
           a3 == [a2 EXCEPT !.min_increase_amount = min_increase]
           a4 == [a3 EXCEPT !.duration = duration]
           a5 == [a4 EXCEPT !.last_bidder = Default]
           a6 == [a5 EXCEPT !.highest_bid = bid]
           a7 == [a6 EXCEPT !.status = status]
           a8 == [a7 EXCEPT !.start_date = date]
<1>1. bid \in U64
  <2>1. start_price - min_increase \in Int BY IntegersAssumption DEF U64
  <2> QED BY <2>1, WrappedU64
<1>2. status \in 0 .. 3 /\ date \in I64 /\ Default \in Key
  BY DEF AuctionData, Key
<1>3. a8 = NewAuction(a, owner, start_price, min_increase, duration, reserved)
  BY DEF NewAuction
<1> HIDE DEF bid, status, date, a1, a2, a3, a4, a5, a6, a7, a8
<1>4. a1 \in AuctionData BY AuctionFields DEF a1
<1>5. a2 \in AuctionData BY <1>4, AuctionFields DEF a2
<1>6. a3 \in AuctionData BY <1>5, AuctionFields DEF a3
<1>7. a4 \in AuctionData BY <1>6, AuctionFields DEF a4
<1>8. a5 \in AuctionData BY <1>2, <1>7, AuctionFields DEF a5
<1>9. a6 \in AuctionData BY <1>1, <1>8, AuctionFields DEF a6
<1>10. a7 \in AuctionData BY <1>2, <1>9, AuctionFields DEF a7
<1>11. a8 \in AuctionData BY <1>2, <1>10, AuctionFields DEF a8
<1> QED BY <1>3, <1>11

LEMMA AfterBidType ==
  ASSUME NEW a \in AuctionData, now \in I64, NEW bidder \in Key,
         NEW price \in U64
  PROVE  AfterBid(a, bidder, price) \in AuctionData
<1> DEFINE date == IF a.status = 3 THEN now ELSE a.start_date
           a1 == [a EXCEPT !.last_bid_date = now]
           a2 == [a1 EXCEPT !.last_bidder = bidder]
           a3 == [a2 EXCEPT !.highest_bid = price]
           a4 == [a3 EXCEPT !.status = 1]
           a5 == [a4 EXCEPT !.start_date = date]
<1>1. date \in I64 BY DEF AuctionData
<1>2. AfterBid(a, bidder, price) = a5 BY DEF AfterBid
<1> HIDE DEF date, a1, a2, a3, a4, a5
<1>3. a1 \in AuctionData BY AuctionFields DEF a1
<1>4. a2 \in AuctionData BY <1>3, AuctionFields DEF a2
<1>5. a3 \in AuctionData BY <1>4, AuctionFields DEF a3
<1>6. a4 \in AuctionData
  <2>1. 1 \in 0 .. 3 OBVIOUS
  <2> QED BY <1>5, <2>1, AuctionFields, Zenon DEF a4
<1>7. a5 \in AuctionData BY <1>1, <1>6, AuctionFields DEF a5
<1> QED BY <1>2, <1>7

LEMMA CreationTypes ==
  ASSUME TypeOK, Creation
  PROVE  TypeOK'
<1>1. ASSUME NEW m \in Mint, InitSellData(m) PROVE TypeOK'
  BY <1>1 DEF InitSellData, TypeOK, TreasuryTypeOK, SellData
<1>2. ASSUME NEW m \in Mint, InitAuctionData(m) PROVE TypeOK'
  BY <1>2 DEF InitAuctionData, TypeOK, TreasuryTypeOK, AuctionData
<1>3. ASSUME NEW u \in User, InitUserPool(u) PROVE TypeOK'
  BY <1>3, KeysAssumption
     DEF InitUserPool, TypeOK, TreasuryTypeOK, UserData, Key
<1>4. ASSUME NEW u \in User, NEW m \in Mint, InitOfferData(u, m) PROVE TypeOK'
  <2> DEFINE o == [offer[m][u] EXCEPT !.mint = m, !.buyer = u]
  <2>1. offer \in [Mint -> [User -> OfferData]] BY DEF TypeOK
  <2>2. offer' = [offer EXCEPT ![m][u] = o] BY <1>4, <2>1 DEF InitOfferData
  <2>3. offer[m][u] \in OfferData BY <2>1
  <2>4. u \in Key BY KeysAssumption DEF Key
  <2>5. o \in OfferData BY <2>3, <2>4 DEF OfferData
  <2>6. offer' \in [Mint -> [User -> OfferData]]
    <3> HIDE DEF o
    <3> QED BY <2>2, <2>5, OneOfferType
  <2> QED BY <1>4, <2>6 DEF InitOfferData, TypeOK, TreasuryTypeOK
<1> QED BY <1>1, <1>2, <1>3, <1>4 DEF Creation

LEMMA EscrowTypes ==
  ASSUME TypeOK, Escrow
  PROVE  TypeOK'
<1> DEFINE D == Wallet \cup {EscrowVault}
<1>1. PICK u \in User, sol \in PriceInput :
         DepositToEscrow(u, sol) \/ WithdrawFromEscrow(u, sol)
  BY DEF Escrow
<1>2. /\ sol \in Nat /\ u \in D /\ EscrowVault \in D
      /\ lamports \in [D -> Nat]
  BY MarketInputAssumption, KeysAssumption, IntegersAssumption
     DEF TypeOK, U64
<1>3. CASE DepositToEscrow(u, sol)
  <2>1. user_pool' \in [User -> UserData]
    <3>1. user_pool[u].escrow_sol_balance + sol \in Int
      BY <1>2, BalanceInt
    <3> QED BY <1>3, <3>1, EscrowMoveType DEF DepositToEscrow
  <2>2. lamports' \in [D -> Nat]
    BY <1>2, <1>3, PayType DEF DepositToEscrow
  <2> QED BY <1>3, <2>1, <2>2 DEF DepositToEscrow, TypeOK, TreasuryTypeOK
<1>4. CASE WithdrawFromEscrow(u, sol)
  <2>1. user_pool' \in [User -> UserData]
    <3>1. user_pool[u].escrow_sol_balance - sol \in Int
      BY <1>2, BalanceInt
    <3> QED BY <1>4, <3>1, EscrowMoveType DEF WithdrawFromEscrow
  <2>2. lamports' \in [D -> Nat]
    BY <1>2, <1>4, PayType DEF WithdrawFromEscrow
  <2> QED BY <1>4, <2>1, <2>2 DEF WithdrawFromEscrow, TypeOK, TreasuryTypeOK
<1> QED BY <1>1, <1>3, <1>4

-----------------------------------------------------------------------------
\* What a sale does to the lamports and to the two users' pools.
LEMMA SettlementType ==
  ASSUME TypeOK, NEW from \in Wallet \cup {EscrowVault}, NEW price \in U64,
         NEW m \in Mint, NEW seller \in Key, HasCreators(m),
         NEW remaining \in RemainingLists(m),
         CanPayAll(lamports, from, SettlementLegs(price, m, seller, remaining))
  PROVE  PaidAll(lamports, from, SettlementLegs(price, m, seller, remaining))
            \in [Wallet \cup {EscrowVault} -> Nat]
<1>1. SettlementLegs(price, m, seller, remaining) \in Seq(LegData)
  BY ListsFit, SettlementLegsType DEF TypeOK
<1>2. lamports \in [Wallet \cup {EscrowVault} -> Nat] BY DEF TypeOK
<1> QED BY <1>1, <1>2, PaidAllType

LEMMA TwoPoolsType ==
  ASSUME TypeOK, NEW a \in User, NEW b, NEW p \in UserData,
         NEW q, b \in User => q \in UserData
  PROVE  [user_pool EXCEPT ![a] = p, ![b] = q] \in [User -> UserData]
<1> DEFINE mid == [user_pool EXCEPT ![a] = p]
<1>1. mid \in [User -> UserData] BY DEF TypeOK
<1>2. [user_pool EXCEPT ![a] = p, ![b] = q] = [mid EXCEPT ![b] = q]
  OBVIOUS
<1> HIDE DEF mid
<1>3. CASE b \in User BY <1>1, <1>2, <1>3
<1>4. CASE b \notin User BY <1>1, <1>2, <1>4
<1> QED BY <1>3, <1>4

LEMMA ListingTypes ==
  ASSUME TypeOK, Listing
  PROVE  TypeOK'
<1>1. PICK u \in User, m \in Mint :
         \/ \E price \in PriceInput : ListNftForSale(u, m, price)
         \/ DelistNft(u, m)
         \/ \E price \in PriceInput : SetPrice(u, m, price)
         \/ \E recipient \in User : TransferNft(u, recipient, m)
         \/ \E recipient \in User : TransferFromVault(u, recipient, m)
         \/ Purchase(u, m)
  BY DEF Listing
<1>2. /\ u \in Key /\ PriceInput \subseteq U64
      /\ sell[m] \in SellData /\ auction[m] \in AuctionData
  BY KeysAssumption, MarketInputAssumption DEF Key, TypeOK
<1>3. EndListing(m) => /\ sell' \in [Mint -> SellData]
                       /\ auction' \in [Mint -> AuctionData]
  BY EndListingType
<1>4. ASSUME NEW price \in PriceInput, ListNftForSale(u, m, price)
      PROVE  TypeOK'
  <2>1. [mint |-> m, seller |-> u, price_sol |-> price,
         listed_date |-> now, active |-> 1] \in SellData
    BY <1>2 DEF SellData, TypeOK
  <2>2. sell' \in [Mint -> SellData] BY <1>4, <2>1 DEF ListNftForSale, TypeOK
  <2>3. holder' \in [Mint -> User \cup {GlobalAuthority}]
    BY <1>4 DEF ListNftForSale, TypeOK
  <2> QED BY <1>4, <2>2, <2>3 DEF ListNftForSale, TypeOK, TreasuryTypeOK
<1>5. CASE DelistNft(u, m)
  <2>1. [sell[m] EXCEPT !.active = 0] \in SellData BY <1>2 DEF SellData
  <2>2. sell' \in [Mint -> SellData] BY <1>5, <2>1 DEF DelistNft, TypeOK
  <2>3. holder' \in [Mint -> User \cup {GlobalAuthority}]
    BY <1>5 DEF DelistNft, TypeOK
  <2> QED BY <1>5, <2>2, <2>3 DEF DelistNft, TypeOK, TreasuryTypeOK
<1>6. ASSUME NEW price \in PriceInput, SetPrice(u, m, price) PROVE TypeOK'
  <2>1. [sell[m] EXCEPT !.price_sol = price] \in SellData
    BY <1>2 DEF SellData
  <2>2. sell' \in [Mint -> SellData] BY <1>6, <2>1 DEF SetPrice, TypeOK
  <2> QED BY <1>6, <2>2 DEF SetPrice, TypeOK, TreasuryTypeOK
<1>7. ASSUME NEW recipient \in User, TransferNft(u, recipient, m) PROVE TypeOK'
  BY <1>7 DEF TransferNft, TypeOK, TreasuryTypeOK, accounts
<1>8. ASSUME NEW recipient \in User, TransferFromVault(u, recipient, m)
      PROVE  TypeOK'
  BY <1>3, <1>8 DEF TransferFromVault, TypeOK, TreasuryTypeOK
<1>9. CASE Purchase(u, m)
  <2> DEFINE seller == sell[m].seller
             price == sell[m].price_sol
  <2>1. seller \in User /\ seller \in Key /\ price \in U64
        /\ u \in Wallet \cup {EscrowVault} /\ HasCreators(m)
    BY <1>2, <1>9, KeysAssumption
       DEF Purchase, PurchaseNaming, SaleCanSettle, SellData
  <2>2. lamports' \in [Wallet \cup {EscrowVault} -> Nat]
    <3>1. PICK remaining \in RemainingLists(m) :
             LET legs == SettlementLegs(price, m, seller, remaining)
             IN  CanPayAll(lamports, u, legs) /\ lamports' = PaidAll(lamports, u, legs)
      BY <1>9 DEF Purchase, PurchaseNaming
    <3> HIDE DEF seller, price
    <3> QED BY <2>1, <3>1, SettlementType
  <2>3. user_pool' \in [User -> UserData]
    <3>1. user_pool' = [user_pool EXCEPT
                          ![u]      = WithVolume(user_pool[u], price),
                          ![seller] = WithVolume(user_pool[seller], price)]
      BY <1>9 DEF Purchase, PurchaseNaming
    <3>2. WithVolume(user_pool[u], price) \in UserData
          /\ WithVolume(user_pool[seller], price) \in UserData
      BY <2>1, WithVolumeType DEF TypeOK
    <3> HIDE DEF seller, price
    <3> QED BY <2>1, <3>1, <3>2, TwoPoolsType
  <2>4. EndListing(m) /\ holder' = [holder EXCEPT ![m] = u]
        /\ UNCHANGED <<global_authority, now, offer>>
    BY <1>9 DEF Purchase, PurchaseNaming
  <2> QED BY <1>3, <2>2, <2>3, <2>4 DEF TypeOK, TreasuryTypeOK
<1> QED BY <1>1, <1>4, <1>5, <1>6, <1>7, <1>8, <1>9

LEMMA OfferingTypes ==
  ASSUME TypeOK, Offering
  PROVE  TypeOK'
<1> DEFINE D == Wallet \cup {EscrowVault}
<1>1. PICK u \in User, m \in Mint :
         \/ \E price \in PriceInput : MakeOffer(u, m, price)
         \/ CancelOffer(u, m)
         \/ \E buyer \in User : AcceptOffer(u, buyer, m)
  BY DEF Offering
<1>2. /\ u \in Key /\ PriceInput \subseteq U64 /\ u \in D /\ EscrowVault \in D
      /\ sell[m] \in SellData /\ auction[m] \in AuctionData
      /\ \A b \in User : offer[m][b] \in OfferData
      /\ offer \in [Mint -> [User -> OfferData]]
      /\ lamports \in [D -> Nat]
  BY KeysAssumption, MarketInputAssumption DEF Key, TypeOK
<1>3. ASSUME NEW price \in PriceInput, MakeOffer(u, m, price) PROVE TypeOK'
  <2> DEFINE made == [offer[m][u] EXCEPT
                        !.offer_listing_date = sell[m].listed_date,
                        !.offer_price = price,
                        !.active = 1]
  <2>1. made \in OfferData BY <1>2 DEF OfferData, SellData
  <2>2. offer' = [offer EXCEPT ![m][u] = made] BY <1>2, <1>3 DEF MakeOffer
  <2>3. offer' \in [Mint -> [User -> OfferData]]
    <3> HIDE DEF made
    <3> QED BY <2>1, <2>2, OneOfferType
  <2>4. price \in Nat /\ price \in Int
    BY <1>2, IntegersAssumption DEF U64
  <2>5. lamports' \in [D -> Nat]
    BY <1>2, <1>3, <2>4, PayType DEF MakeOffer
  <2>6. user_pool' \in [User -> UserData]
    <3>1. user_pool[u].escrow_sol_balance + price \in Int
      BY <2>4, BalanceInt
    <3> QED BY <1>3, <3>1, EscrowMoveType DEF MakeOffer
  <2> QED BY <1>3, <2>3, <2>5, <2>6 DEF MakeOffer, TypeOK, TreasuryTypeOK
<1>4. ASSUME NEW b \in User
      PROVE  [offer EXCEPT ![m][b].active = 0]
                \in [Mint -> [User -> OfferData]]
  <2> DEFINE o == [offer[m][b] EXCEPT !.active = 0]
  <2>1. o \in OfferData BY <1>2 DEF OfferData
  <2>2. [offer EXCEPT ![m][b] = o] \in [Mint -> [User -> OfferData]]
    <3> HIDE DEF o
    <3> QED BY <2>1, OneOfferType
  <2> QED BY <2>2
<1>5. CASE CancelOffer(u, m)
  BY <1>4, <1>5 DEF CancelOffer, TypeOK, TreasuryTypeOK
<1>6. ASSUME NEW buyer \in User, AcceptOffer(u, buyer, m) PROVE TypeOK'
  <2> DEFINE price == offer[m][buyer].offer_price
             balance == user_pool[buyer].escrow_sol_balance - price
  <2>1. price \in U64 /\ price \in Nat /\ HasCreators(m)
    BY <1>2, <1>6, IntegersAssumption
       DEF AcceptOffer, AcceptOfferNaming, SaleCanSettle, OfferData, U64
  <2>2. lamports' \in [D -> Nat]
    <3>1. PICK remaining \in RemainingLists(m) :
             LET legs == SettlementLegs(price, m, u, remaining)
             IN  /\ CanPayAll(lamports, EscrowVault, legs)
                 /\ lamports' = PaidAll(lamports, EscrowVault, legs)
      BY <1>6 DEF AcceptOffer, AcceptOfferNaming
    <3> HIDE DEF price
    <3> QED BY <1>2, <2>1, <3>1, SettlementType
  <2>3. user_pool' \in [User -> UserData]
    <3> DEFINE p == WithVolume(user_pool[u], price)
               q == WithEscrow(WithVolume(user_pool[buyer], price), balance)
    <3>1. user_pool' = [user_pool EXCEPT ![u] = p, ![buyer] = q]
      BY <1>6 DEF AcceptOffer, AcceptOfferNaming
    <3>2. balance \in Int BY <2>1, BalanceInt
    <3>3. p \in UserData /\ WithVolume(user_pool[buyer], price) \in UserData
      BY <2>1, WithVolumeType DEF TypeOK
    <3>4. q \in UserData BY <3>2, <3>3, WithEscrowType
    <3> HIDE DEF p, q
    <3> QED BY <3>1, <3>3, <3>4, TwoPoolsType
  <2>4. EndListing(m) /\ holder' = [holder EXCEPT ![m] = buyer]
        /\ offer' = [offer EXCEPT ![m][buyer].active = 0]
        /\ UNCHANGED <<global_authority, now>>
    BY <1>6 DEF AcceptOffer, AcceptOfferNaming
  <2>5. sell' \in [Mint -> SellData] /\ auction' \in [Mint -> AuctionData]
    BY <2>4, EndListingType
  <2> QED BY <1>4, <2>2, <2>3, <2>4, <2>5 DEF TypeOK, TreasuryTypeOK
<1> QED BY <1>1, <1>3, <1>5, <1>6

LEMMA AuctioningTypes ==
  ASSUME TypeOK, Auctioning
  PROVE  TypeOK'
<1> DEFINE D == Wallet \cup {EscrowVault}
<1>1. PICK u \in User, m \in Mint :
         \/ \E price \in PriceInput, min_increase \in MinIncreaseInput,
               duration \in DurationInput, reserved \in 0 .. 1 :
               CreateAuction(u, m, price, min_increase, duration, reserved)
         \/ \E price \in PriceInput : PlaceBid(u, m, price)
         \/ ClaimAuction(u, m)
         \/ \E price \in PriceInput : UpdateReserve(u, m, price)
         \/ CancelAuction(u, m)
  BY DEF Auctioning
<1> DEFINE a == auction[m]
<1>2. /\ u \in Key /\ u \in D /\ EscrowVault \in D /\ Default \in Key
      /\ PriceInput \subseteq U64 /\ MinIncreaseInput \subseteq U64
      /\ DurationInput \subseteq I64
      /\ U64 \subseteq Nat
      /\ sell[m] \in SellData /\ a \in AuctionData /\ now \in I64
      /\ lamports \in [D -> Nat]
  BY KeysAssumption, MarketInputAssumption, IntegersAssumption
     DEF Key, TypeOK, U64
<1>3. ASSUME NEW price \in PriceInput, NEW min_increase \in MinIncreaseInput,
             NEW duration \in DurationInput, NEW reserved \in 0 .. 1,
             CreateAuction(u, m, price, min_increase, duration, reserved)
      PROVE  TypeOK'
  <2> DEFINE created ==
               NewAuction(a, u, price, min_increase, duration, reserved)
  <2>1. created \in AuctionData BY <1>2, NewAuctionType
  <2>2. auction' = [auction EXCEPT ![m] = created] BY <1>3 DEF CreateAuction
  <2>4. auction' \in [Mint -> AuctionData]
    <3> HIDE DEF created
    <3> QED BY <2>1, <2>2 DEF TypeOK
  <2>5. holder' \in [Mint -> User \cup {GlobalAuthority}]
    BY <1>3 DEF CreateAuction, TypeOK
  <2> QED BY <1>3, <2>4, <2>5 DEF CreateAuction, TypeOK, TreasuryTypeOK
<1>4. ASSUME NEW price \in PriceInput, PlaceBid(u, m, price) PROVE TypeOK'
  <2>1. AfterBid(a, u, price) \in AuctionData BY <1>2, AfterBidType
  <2>2. auction' \in [Mint -> AuctionData]
    BY <1>4, <2>1
       DEF PlaceBid, PlaceBidRefunding, TypeOK
  <2>3. [sell[m] EXCEPT !.active = IF a.status = 3 THEN 0 ELSE @] \in SellData
    BY <1>2 DEF SellData
  <2>4. sell' \in [Mint -> SellData]
    BY <1>4, <2>3
       DEF PlaceBid, PlaceBidRefunding, TypeOK
  <2>5. Refunded(a, a.last_bidder) \in [D -> Nat]
    <3>1. CASE a.last_bidder = Default BY <1>2, <3>1 DEF Refunded
    <3>2. CASE a.last_bidder # Default
      <4>1. a.highest_bid \in Nat BY <1>2 DEF AuctionData
      <4>2. CanPay(lamports, EscrowVault, a.highest_bid)
        BY <1>4, <3>2 DEF PlaceBid, PlaceBidRefunding
      <4> HIDE DEF a
      <4>3. Pay(lamports, EscrowVault, a.last_bidder, a.highest_bid)
               \in [D -> Nat]
        BY <1>2, <4>1, <4>2, PayType
      <4> QED BY <3>2, <4>3 DEF Refunded
    <3> QED BY <3>1, <3>2
  <2>6. lamports' \in [D -> Nat]
    <3>1. price \in Nat BY <1>2
    <3>2. CanPay(Refunded(a, a.last_bidder), u, price)
          /\ lamports' = Pay(Refunded(a, a.last_bidder), u, EscrowVault, price)
      BY <1>4 DEF PlaceBid, PlaceBidRefunding
    <3> HIDE DEF a
    <3> QED BY <1>2, <2>5, <3>1, <3>2, PayType
  <2> QED
    BY <1>4, <2>2, <2>4, <2>6
       DEF PlaceBid, PlaceBidRefunding, TypeOK, TreasuryTypeOK
<1>5. CASE ClaimAuction(u, m)
  <2> DEFINE price == a.highest_bid
             creator == a.creator
  <2>1. price \in U64 /\ creator \in Key /\ HasCreators(m)
    BY <1>2, <1>5
       DEF ClaimAuction, ClaimAuctionNaming, SaleCanSettle, AuctionData
  <2>2. lamports' \in [D -> Nat]
    <3>1. PICK remaining \in RemainingLists(m) :
             LET legs == SettlementLegs(price, m, creator, remaining)
             IN  /\ CanPayAll(lamports, EscrowVault, legs)
                 /\ lamports' = PaidAll(lamports, EscrowVault, legs)
      BY <1>5 DEF ClaimAuction, ClaimAuctionNaming
    <3> HIDE DEF price, creator, a
    <3> QED BY <1>2, <2>1, <3>1, SettlementType
  <2>3. user_pool' \in [User -> UserData]
    <3> DEFINE p == WithVolume(user_pool[u], price)
               q == WithVolume(user_pool[creator], price)
    <3>1. user_pool' = [user_pool EXCEPT ![u] = p, ![creator] = q]
      BY <1>5 DEF ClaimAuction, ClaimAuctionNaming
    <3>2. p \in UserData /\ (creator \in User => q \in UserData)
      BY <2>1, WithVolumeType DEF TypeOK
    <3> HIDE DEF p, q, creator
    <3> QED BY <3>1, <3>2, TwoPoolsType
  <2>4. [a EXCEPT !.status = 2] \in AuctionData BY <1>2 DEF AuctionData
  <2>5. auction' \in [Mint -> AuctionData]
    BY <1>5, <2>4 DEF ClaimAuction, ClaimAuctionNaming, TypeOK
  <2>6. holder' \in [Mint -> User \cup {GlobalAuthority}]
    BY <1>5 DEF ClaimAuction, ClaimAuctionNaming, TypeOK
  <2> QED BY <1>5, <2>2, <2>3, <2>5, <2>6
          DEF ClaimAuction, ClaimAuctionNaming, TypeOK, TreasuryTypeOK
<1>6. ASSUME NEW price \in PriceInput, UpdateReserve(u, m, price) PROVE TypeOK'
  <2>1. [a EXCEPT !.start_price = price] \in AuctionData
    BY <1>2 DEF AuctionData
  <2>2. auction' \in [Mint -> AuctionData]
    BY <1>6, <2>1 DEF UpdateReserve, TypeOK
  <2> QED BY <1>6, <2>2 DEF UpdateReserve, TypeOK, TreasuryTypeOK
<1>7. CASE CancelAuction(u, m)
  <2>1. [a EXCEPT !.status = 0] \in AuctionData BY <1>2 DEF AuctionData
  <2>2. auction' \in [Mint -> AuctionData]
    BY <1>7, <2>1 DEF CancelAuction, TypeOK
  <2>3. holder' \in [Mint -> User \cup {GlobalAuthority}]
    BY <1>7 DEF CancelAuction, TypeOK
  <2> QED BY <1>7, <2>2, <2>3 DEF CancelAuction, TypeOK, TreasuryTypeOK
<1> QED BY <1>1, <1>3, <1>4, <1>5, <1>6, <1>7

-----------------------------------------------------------------------------
\* Everything but the payments themselves rests on the pool being well formed.
MarketInv == TypeOK /\ PoolOK(global_authority)

LEMMA MarketInit == Init => MarketInv
<1> SUFFICES ASSUME Init PROVE MarketInv OBVIOUS
<1>1. PoolOK(global_authority) /\ TreasuryTypeOK
  <2>1. NoGlobalPool = [NoGlobalPool EXCEPT !.super_admin = Default]
    BY DEF NoGlobalPool
  <2>2. PoolOK(NoGlobalPool) BY <2>1, EmptyPoolOK DEF Key
  <2> QED BY <2>2 DEF Init, TreasuryInit, PoolOK, TreasuryTypeOK
<1>2. /\ 0 \in U64 /\ 0 \in I64 /\ Default \in Key
  BY IntegersAssumption DEF U64, I64, Key
<1>3. /\ NoUserData \in UserData /\ NoSellData \in SellData
      /\ NoOfferData \in OfferData /\ NoAuctionData \in AuctionData
  BY <1>2 DEF NoUserData, UserData, NoSellData, SellData, NoOfferData,
              OfferData, NoAuctionData, AuctionData
<1>4. lamports \in [Wallet \cup {EscrowVault} -> Nat]
  BY MarketInputAssumption DEF Init
<1> QED BY <1>1, <1>3, <1>4, MarketInputAssumption DEF Init, MarketInv, TypeOK

\* Only the administration touches the global pool.
LEMMA TradingLeavesPool ==
  ASSUME [Next]_vars
  PROVE  Administration \/ UNCHANGED global_authority
<1>1. CASE UNCHANGED vars BY <1>1 DEF vars
<1>2. CASE Tick BY <1>2 DEF Tick
<1>3. CASE Creation
  BY <1>3 DEF Creation, InitSellData, InitAuctionData, InitUserPool,
              InitOfferData
<1>4. CASE Listing
  BY <1>4 DEF Listing, ListNftForSale, DelistNft, SetPrice, TransferNft,
              TransferFromVault, Purchase, PurchaseNaming
<1>5. CASE Escrow
  BY <1>5 DEF Escrow, DepositToEscrow, WithdrawFromEscrow
<1>6. CASE Offering
  <2>1. ASSUME NEW u \in User, NEW m \in Mint, NEW price \in PriceInput,
               MakeOffer(u, m, price)
        PROVE  UNCHANGED global_authority
    BY <2>1 DEF MakeOffer
  <2>2. ASSUME NEW u \in User, NEW m \in Mint, CancelOffer(u, m)
        PROVE  UNCHANGED global_authority
    BY <2>2 DEF CancelOffer
  <2>3. ASSUME NEW u \in User, NEW m \in Mint, NEW buyer \in User,
               AcceptOffer(u, buyer, m)
        PROVE  UNCHANGED global_authority
    BY <2>3 DEF AcceptOffer, AcceptOfferNaming
  <2> QED BY <1>6, <2>1, <2>2, <2>3 DEF Offering
<1>7. CASE Auctioning
  BY <1>7
     DEF Auctioning, CreateAuction, PlaceBid, PlaceBidRefunding, ClaimAuction,
         ClaimAuctionNaming, UpdateReserve, CancelAuction
<1> QED BY <1>1, <1>2, <1>3, <1>4, <1>5, <1>6, <1>7 DEF Next

LEMMA MarketStep ==
  ASSUME MarketInv, [Next]_vars
  PROVE  MarketInv'
<1>1. TypeOK /\ PoolOK(global_authority) BY DEF MarketInv
<1>2. CASE Administration
  <2>1. PoolOK(global_authority')
    BY <1>1, <1>2, TreasuryStep DEF Administration
  <2>2. TreasuryTypeOK' BY <2>1 DEF PoolOK, TreasuryTypeOK
  <2> QED BY <1>1, <1>2, <2>1, <2>2
          DEF Administration, accounts, MarketInv, TypeOK
<1>3. CASE UNCHANGED global_authority
  <2>1. CASE UNCHANGED vars
    BY <1>1, <2>1 DEF vars, accounts, MarketInv, TypeOK, TreasuryTypeOK
  <2>2. CASE Tick
    <3>1. now' \in I64
      BY <1>1, <2>2, MarketInputAssumption, IntegersAssumption
         DEF Tick, TypeOK, I64
    <3> QED BY <1>1, <2>2, <3>1
            DEF Tick, accounts, MarketInv, TypeOK, TreasuryTypeOK
  <2>3. Next /\ ~Tick => Administration \/ TypeOK'
    BY <1>1, CreationTypes, ListingTypes, EscrowTypes, OfferingTypes,
       AuctioningTypes DEF Next
  <2> QED BY <1>1, <1>2, <1>3, <2>1, <2>2, <2>3 DEF MarketInv
<1> QED BY <1>2, <1>3, TradingLeavesPool

THEOREM MarketInvariant == Spec => []MarketInv
<1>1. MarketInv /\ [Next]_vars => MarketInv' BY MarketStep
<1> QED BY <1>1, MarketInit, PTL DEF Spec

\* Every account keeps its layout and no balance is ever negative, also in
\* the middle of a sale, for every configuration the pool can be brought to.
THEOREM TypeCorrect == Spec => []TypeOK
<1>1. MarketInv => TypeOK BY DEF MarketInv
<1> QED BY <1>1, MarketInvariant, PTL

\* Trading never disturbs the team treasuries.
THEOREM PoolStaysWellFormed == Spec => [](PayeesDistinct /\ RatesWithinWhole)
<1>1. MarketInv => PayeesDistinct /\ RatesWithinWhole
  BY DEF MarketInv, PoolOK, PayeesDistinct, RatesWithinWhole
<1> QED BY <1>1, MarketInvariant, PTL

\* To the pool, the whole program is its administration: whatever is traded
\* meanwhile, the team behind the slots is the one TeamShares describes.
THEOREM MarketKeepsTeam == Spec => TeamImplemented
<1>1. Init => TreasuryInit BY DEF Init
<1>2. [Next]_vars => [TreasuryNext]_global_authority
  BY TradingLeavesPool DEF Administration
<1>3. Spec => TreasurySpec BY <1>1, <1>2, PTL DEF Spec, TreasurySpec
<1> QED BY <1>3, TreasuryImplementsTeam

-----------------------------------------------------------------------------
(***************************************************************************)
(* Custody.  CustodyInv is inductive, and it speaks of each NFT alone:     *)
(* every handler touches the listing, the auction and the token account of *)
(* one mint.                                                               *)
(***************************************************************************)
Custody(s, a, h) ==
    /\ h = GlobalAuthority <=> s.active = 1 \/ a.status \in {1, 3}
    /\ s.active = 1 /\ a.status \in {1, 3} =>
          a.status = 3 /\ a.creator = s.seller
    /\ a.status = 3 => a.last_bidder = Default
    /\ s.active = 1 => s.seller \in User
    /\ a.status \in {1, 3} => a.creator \in User
    /\ a.status = 1 => /\ a.last_bidder \in User \cup {Default}
                       /\ a.last_bidder # a.creator

LEMMA CustodyByMint ==
  CustodyInv <=> \A m \in Mint : Custody(sell[m], auction[m], holder[m])
BY DEF CustodyInv, EscrowCustody, OnlyReservedWhileListed, ReservedHoldsNoBid,
       PartiesKnown, Listed, AuctionOpen, Custody

\* A step that touches one NFT only.
OthersKept(m) ==
    \A k \in Mint \ {m} :
        sell'[k] = sell[k] /\ auction'[k] = auction[k] /\ holder'[k] = holder[k]

\* A step that keeps one NFT in custody and leaves the others alone.
LEMMA CustodyOfOne ==
  ASSUME CustodyInv, NEW m \in Mint,
         OthersKept(m),
         Custody(sell'[m], auction'[m], holder'[m])
  PROVE  CustodyInv'
<1>1. \A k \in Mint : Custody(sell[k], auction[k], holder[k])
  BY CustodyByMint
<1>2. ASSUME NEW k \in Mint PROVE Custody(sell'[k], auction'[k], holder'[k])
  <2>1. CASE k = m BY <2>1
  <2>2. CASE k # m BY <1>1, <2>2 DEF OthersKept
  <2> QED BY <2>1, <2>2
<1> HIDE DEF Custody
<1>3. \A k \in Mint : Custody(sell'[k], auction'[k], holder'[k]) BY <1>2
<1> QED
  BY <1>3 DEF CustodyInv, EscrowCustody, OnlyReservedWhileListed,
              ReservedHoldsNoBid, PartiesKnown, Listed, AuctionOpen, Custody

\* The end of a listing hands the NFT out with nothing left open.
LEMMA SaleCustody ==
  ASSUME TypeOK, CustodyInv, NEW m \in Mint, NEW recipient \in User,
         EndListing(m), sell[m].active = 1,
         holder' = [holder EXCEPT ![m] = recipient]
  PROVE  CustodyInv'
<1>1. Custody(sell[m], auction[m], holder[m]) BY CustodyByMint
<1>2. /\ sell \in [Mint -> SellData] /\ auction \in [Mint -> AuctionData]
      /\ holder \in [Mint -> User \cup {GlobalAuthority}]
      /\ GlobalAuthority \notin User
  BY KeysAssumption DEF TypeOK
<1>3. sell'[m].active = 0 /\ auction'[m].status \notin {1, 3}
  BY <1>1, <1>2 DEF EndListing, Custody, SellData, AuctionData
<1>4. Custody(sell'[m], auction'[m], holder'[m])
  BY <1>2, <1>3 DEF Custody
<1>5. OthersKept(m) BY <1>2 DEF EndListing, OthersKept
<1> QED BY <1>4, <1>5, CustodyOfOne

LEMMA ListingCustody ==
  ASSUME TypeOK, CustodyInv, Listing
  PROVE  CustodyInv'
<1>1. PICK u \in User, m \in Mint :
         \/ \E price \in PriceInput : ListNftForSale(u, m, price)
         \/ DelistNft(u, m)
         \/ \E price \in PriceInput : SetPrice(u, m, price)
         \/ \E recipient \in User : TransferNft(u, recipient, m)
         \/ \E recipient \in User : TransferFromVault(u, recipient, m)
         \/ Purchase(u, m)
  BY DEF Listing
<1>2. Custody(sell[m], auction[m], holder[m]) BY CustodyByMint
<1>3. /\ sell \in [Mint -> SellData] /\ auction \in [Mint -> AuctionData]
      /\ holder \in [Mint -> User \cup {GlobalAuthority}]
      /\ GlobalAuthority \notin User
  BY KeysAssumption DEF TypeOK
<1>4. ASSUME NEW price \in PriceInput, ListNftForSale(u, m, price)
      PROVE  CustodyInv'
  <2>1. Custody(sell'[m], auction'[m], holder'[m])
    BY <1>2, <1>3, <1>4
       DEF ListNftForSale, ReservedBySigner, Custody, AuctionData
  <2>2. OthersKept(m)
    BY <1>3, <1>4 DEF OthersKept, ListNftForSale
  <2> QED BY <2>1, <2>2, CustodyOfOne
<1>5. CASE DelistNft(u, m)
  <2>1. Custody(sell'[m], auction'[m], holder'[m])
    BY <1>2, <1>3, <1>5
       DEF DelistNft, DelistNftAccounts, Custody, AuctionData, SellData
  <2>2. OthersKept(m)
    BY <1>3, <1>5 DEF OthersKept, DelistNft
  <2> QED BY <2>1, <2>2, CustodyOfOne
<1>6. ASSUME NEW price \in PriceInput, SetPrice(u, m, price) PROVE CustodyInv'
  <2>1. Custody(sell'[m], auction'[m], holder'[m])
    BY <1>2, <1>3, <1>6 DEF SetPrice, Custody, SellData
  <2>2. OthersKept(m)
    BY <1>3, <1>6 DEF OthersKept, SetPrice
  <2> QED BY <2>1, <2>2, CustodyOfOne
<1>7. ASSUME NEW recipient \in User, TransferNft(u, recipient, m)
      PROVE  CustodyInv'
  <2>1. Custody(sell'[m], auction'[m], holder'[m])
    BY <1>2, <1>3, <1>7 DEF TransferNft, accounts, Custody
  <2>2. OthersKept(m)
    BY <1>3, <1>7 DEF OthersKept, TransferNft, accounts
  <2> QED BY <2>1, <2>2, CustodyOfOne
<1>8. ASSUME NEW recipient \in User, TransferFromVault(u, recipient, m)
      PROVE  CustodyInv'
  <2>1. /\ EndListing(m) /\ sell[m].active = 1
        /\ holder' = [holder EXCEPT ![m] = recipient]
    BY <1>8 DEF TransferFromVault
  <2> QED BY <2>1, SaleCustody
<1>9. CASE Purchase(u, m)
  <2>1. /\ EndListing(m) /\ sell[m].active = 1
        /\ holder' = [holder EXCEPT ![m] = u]
    BY <1>9 DEF Purchase, PurchaseNaming
  <2> QED BY <2>1, SaleCustody
<1> QED BY <1>1, <1>4, <1>5, <1>6, <1>7, <1>8, <1>9

LEMMA AuctioningCustody ==
  ASSUME TypeOK, CustodyInv, Auctioning
  PROVE  CustodyInv'
<1>1. PICK u \in User, m \in Mint :
         \/ \E price \in PriceInput, min_increase \in MinIncreaseInput,
               duration \in DurationInput, reserved \in 0 .. 1 :
               CreateAuction(u, m, price, min_increase, duration, reserved)
         \/ \E price \in PriceInput : PlaceBid(u, m, price)
         \/ ClaimAuction(u, m)
         \/ \E price \in PriceInput : UpdateReserve(u, m, price)
         \/ CancelAuction(u, m)
  BY DEF Auctioning
<1>2. Custody(sell[m], auction[m], holder[m]) BY CustodyByMint
<1>3. /\ sell \in [Mint -> SellData] /\ auction \in [Mint -> AuctionData]
      /\ holder \in [Mint -> User \cup {GlobalAuthority}]
      /\ GlobalAuthority \notin User /\ Default \notin User
  BY KeysAssumption DEF TypeOK
<1>4. ASSUME NEW price \in PriceInput, NEW min_increase \in MinIncreaseInput,
             NEW duration \in DurationInput, NEW reserved \in 0 .. 1,
             CreateAuction(u, m, price, min_increase, duration, reserved)
      PROVE  CustodyInv'
  <2> DEFINE a == NewAuction(auction[m], u, price, min_increase, duration,
                             reserved)
  <2>1. /\ a.creator = u /\ a.last_bidder = Default
        /\ a.status = IF reserved = 0 THEN 1 ELSE 3
    BY <1>3 DEF NewAuction, AuctionData
  <2>2. auction'[m] = a BY <1>3, <1>4 DEF CreateAuction
  <2> HIDE DEF a
  <2>3. CASE sell[m].active = 0
    <3>1. sell' = sell /\ holder' = [holder EXCEPT ![m] = GlobalAuthority]
      BY <1>4, <2>3 DEF CreateAuction
    <3>2. Custody(sell'[m], auction'[m], holder'[m])
      BY <1>2, <1>3, <2>1, <2>2, <2>3, <3>1 DEF Custody
    <3>3. OthersKept(m) BY <1>3, <1>4, <3>1 DEF CreateAuction, OthersKept
    <3> QED BY <3>2, <3>3, CustodyOfOne
  <2>4. CASE sell[m].active # 0
    <3>1. sell[m].active = 1 BY <1>3, <2>4 DEF SellData
    <3>2. /\ reserved # 0 /\ sell[m].seller = u
          /\ holder' = holder /\ sell' = sell
      BY <1>4, <3>1 DEF CreateAuction
    <3>3. Custody(sell'[m], auction'[m], holder'[m])
      BY <1>2, <2>1, <2>2, <3>1, <3>2 DEF Custody
    <3>4. OthersKept(m) BY <1>3, <1>4, <3>2 DEF CreateAuction, OthersKept
    <3> QED BY <3>3, <3>4, CustodyOfOne
  <2> QED BY <2>3, <2>4
<1>5. ASSUME NEW price \in PriceInput, PlaceBid(u, m, price) PROVE CustodyInv'
  <2>1. /\ auction'[m].status = 1 /\ auction'[m].last_bidder = u
        /\ auction'[m].creator = auction[m].creator
        /\ auction[m].status \in {1, 3} /\ u # auction[m].creator
    BY <1>3, <1>5
       DEF PlaceBid, PlaceBidRefunding, BiddingOpen, AfterBid, AuctionData
  <2>2. /\ holder' = holder
        /\ sell'[m].active = IF auction[m].status = 3 THEN 0
                             ELSE sell[m].active
        /\ sell'[m].seller = sell[m].seller
    BY <1>3, <1>5 DEF PlaceBid, PlaceBidRefunding, SellData
  <2>3. sell'[m].active # 1 BY <1>2, <2>1, <2>2 DEF Custody
  <2>4. Custody(sell'[m], auction'[m], holder'[m])
    BY <1>2, <2>1, <2>2, <2>3 DEF Custody
  <2>5. OthersKept(m) BY <1>3, <1>5 DEF PlaceBid, PlaceBidRefunding, OthersKept
  <2> QED BY <2>4, <2>5, CustodyOfOne
<1>6. CASE ClaimAuction(u, m)
  <2>1. /\ auction'[m].status = 2 /\ auction[m].status = 1
        /\ holder'[m] = u /\ sell' = sell
    BY <1>3, <1>6 DEF ClaimAuction, ClaimAuctionNaming, AuctionData
  <2>2. Custody(sell'[m], auction'[m], holder'[m])
    BY <1>2, <1>3, <2>1 DEF Custody
  <2>3. OthersKept(m)
    BY <1>3, <1>6
       DEF ClaimAuction, ClaimAuctionNaming, OthersKept
  <2> QED BY <2>2, <2>3, CustodyOfOne
<1>7. ASSUME NEW price \in PriceInput, UpdateReserve(u, m, price)
      PROVE  CustodyInv'
  <2>1. /\ auction'[m].status = auction[m].status
        /\ auction'[m].creator = auction[m].creator
        /\ auction'[m].last_bidder = auction[m].last_bidder
        /\ sell' = sell /\ holder' = holder
    BY <1>3, <1>7 DEF UpdateReserve, AuctionData
  <2>2. Custody(sell'[m], auction'[m], holder'[m]) BY <1>2, <2>1 DEF Custody
  <2>3. OthersKept(m) BY <1>3, <1>7 DEF UpdateReserve, OthersKept
  <2> QED BY <2>2, <2>3, CustodyOfOne
<1>8. CASE CancelAuction(u, m)
  <2>1. /\ auction'[m].status = 0 /\ sell' = sell
        /\ auction[m].status \in {1, 3}
        /\ holder'[m] = IF sell[m].active = 0 THEN u ELSE holder[m]
    BY <1>3, <1>8 DEF CancelAuction, AuctionData
  <2>2. sell[m].active \in {0, 1} BY <1>3 DEF SellData
  <2>3. Custody(sell'[m], auction'[m], holder'[m])
    BY <1>2, <1>3, <2>1, <2>2 DEF Custody
  <2>4. OthersKept(m) BY <1>3, <1>8 DEF CancelAuction, OthersKept
  <2> QED BY <2>3, <2>4, CustodyOfOne
<1> QED BY <1>1, <1>4, <1>5, <1>6, <1>7, <1>8

LEMMA CustodyStep ==
  ASSUME TypeOK, CustodyInv, [Next]_vars
  PROVE  CustodyInv'
<1>1. ASSUME UNCHANGED <<sell, auction, holder>> PROVE CustodyInv'
  BY <1>1 DEF CustodyInv, EscrowCustody, OnlyReservedWhileListed,
              ReservedHoldsNoBid, PartiesKnown, Listed, AuctionOpen
<1>2. CASE UNCHANGED vars BY <1>1, <1>2 DEF vars, accounts
<1>3. CASE Tick BY <1>1, <1>3 DEF Tick, accounts
<1>4. CASE Administration BY <1>1, <1>4 DEF Administration, accounts
<1>5. CASE Creation
  <2>1. ASSUME NEW m \in Mint, InitSellData(m) PROVE CustodyInv'
    <3>1. Custody(sell[m], auction[m], holder[m]) BY CustodyByMint
    <3>2. Custody(sell'[m], auction'[m], holder'[m])
      BY <2>1, <3>1 DEF InitSellData, Custody, TypeOK, SellData
    <3>3. OthersKept(m) BY <2>1 DEF InitSellData, OthersKept, TypeOK
    <3> QED BY <3>2, <3>3, CustodyOfOne
  <2>2. ASSUME NEW m \in Mint, InitAuctionData(m) PROVE CustodyInv'
    <3>1. Custody(sell[m], auction[m], holder[m]) BY CustodyByMint
    <3>2. Custody(sell'[m], auction'[m], holder'[m])
      BY <2>2, <3>1 DEF InitAuctionData, Custody, TypeOK, AuctionData
    <3>3. OthersKept(m) BY <2>2 DEF InitAuctionData, OthersKept, TypeOK
    <3> QED BY <3>2, <3>3, CustodyOfOne
  <2>3. ASSUME NEW u \in User, InitUserPool(u) PROVE CustodyInv'
    BY <1>1, <2>3 DEF InitUserPool
  <2>4. ASSUME NEW u \in User, NEW m \in Mint, InitOfferData(u, m)
        PROVE  CustodyInv'
    BY <1>1, <2>4 DEF InitOfferData
  <2> QED BY <1>5, <2>1, <2>2, <2>3, <2>4 DEF Creation
<1>6. CASE Listing BY <1>6, ListingCustody
<1>7. CASE Escrow
  <2>1. UNCHANGED <<sell, auction, holder>>
    BY <1>7 DEF Escrow, DepositToEscrow, WithdrawFromEscrow
  <2> QED BY <1>1, <2>1
<1>8. CASE Offering
  <2>1. ASSUME NEW u \in User, NEW m \in Mint, NEW price \in PriceInput,
               MakeOffer(u, m, price)
        PROVE  CustodyInv'
    BY <1>1, <2>1 DEF MakeOffer
  <2>2. ASSUME NEW u \in User, NEW m \in Mint, CancelOffer(u, m)
        PROVE  CustodyInv'
    BY <1>1, <2>2 DEF CancelOffer
  <2>3. ASSUME NEW u \in User, NEW m \in Mint, NEW buyer \in User,
               AcceptOffer(u, buyer, m)
        PROVE  CustodyInv'
    <3>1. /\ EndListing(m) /\ sell[m].active = 1
          /\ holder' = [holder EXCEPT ![m] = buyer]
      BY <2>3 DEF AcceptOffer, AcceptOfferNaming
    <3> QED BY <3>1, SaleCustody
  <2> QED BY <1>8, <2>1, <2>2, <2>3 DEF Offering
<1>9. CASE Auctioning BY <1>9, AuctioningCustody
<1> QED BY <1>2, <1>3, <1>4, <1>5, <1>6, <1>7, <1>8, <1>9 DEF Next

\* No sequence of listing, delisting, transferring, selling, offering,
\* auctioning and cancelling, by any number of users over any number of NFTs,
\* loses an NFT in escrow or leaves one listed that is not there.
THEOREM CustodyHolds == Spec => []CustodyInv
<1>1. Init => CustodyInv
  <2> SUFFICES ASSUME Init, NEW m \in Mint
               PROVE  Custody(sell[m], auction[m], holder[m])
    BY CustodyByMint
  <2> QED BY KeysAssumption DEF Init, NoSellData, NoAuctionData, Custody
<1>2. MarketInv /\ CustodyInv /\ [Next]_vars => CustodyInv'
  BY CustodyStep DEF MarketInv
<1> QED BY <1>1, <1>2, MarketInvariant, PTL DEF Spec

\* The part of it a user sees: the program holds an NFT exactly while it is
\* listed or in an open auction.
THEOREM EscrowCustodyHolds == Spec => []EscrowCustody
<1>1. CustodyInv => EscrowCustody BY DEF CustodyInv
<1> QED BY <1>1, CustodyHolds, PTL

\* A listing and an auction only go together while the auction is reserved
\* and of the same user.
THEOREM OnlyReservedIsListed == Spec => []OnlyReservedWhileListed
<1>1. CustodyInv => OnlyReservedWhileListed BY DEF CustodyInv
<1> QED BY <1>1, CustodyHolds, PTL

\* No bid is ever in an auction that create_auction can write over.
THEOREM ReservedAuctionsHoldNoBid == Spec => []ReservedHoldsNoBid
<1>1. CustodyInv => ReservedHoldsNoBid BY DEF CustodyInv
<1> QED BY <1>1, CustodyHolds, PTL

-----------------------------------------------------------------------------
(***************************************************************************)
(* The end of an auction.                                                  *)
(***************************************************************************)
\* Nobody opens an auction in an account that was not created, so that its
\* creation is never ahead.
AuctionsExist == \A m \in Mint : auction[m].status # 0 => AuctionExists(m)

\* The end of a listing leaves a started auction as it is.
LEMMA EndListingStarted ==
  ASSUME TypeOK, NEW k \in Mint, EndListing(k), NEW m \in Mint,
         auction[m].status # 3
  PROVE  auction'[m] = auction[m]
<1>1. auction \in [Mint -> AuctionData] BY DEF TypeOK
<1>2. [auction[m] EXCEPT !.status = IF @ = 3 THEN 0 ELSE @] = auction[m]
  BY <1>1 DEF AuctionData
<1> QED BY <1>1, <1>2 DEF EndListing

\* What an instruction does to the auction of one NFT.  A started auction is
\* touched by a bid, a claim and a cancellation only.
LEMMA StartedAuction ==
  ASSUME TypeOK, CustodyInv, AuctionsExist, [Next]_vars, NEW m \in Mint,
         auction[m].status = 1, auction'[m] # auction[m]
  PROVE  \E u \in User :
            \/ \E price \in PriceInput : PlaceBid(u, m, price)
            \/ ClaimAuction(u, m)
            \/ CancelAuction(u, m)
<1>1. /\ auction \in [Mint -> AuctionData] /\ GlobalAuthority \notin User
      /\ sell[m].active = 0 /\ holder[m] = GlobalAuthority /\ AuctionExists(m)
  BY KeysAssumption
     DEF TypeOK, SellData, CustodyInv, EscrowCustody, OnlyReservedWhileListed,
         AuctionsExist, Listed, AuctionOpen
<1>2. auction' # auction BY <1>1
<1>3. CASE UNCHANGED vars BY <1>2, <1>3 DEF vars, accounts
<1>4. CASE Tick BY <1>2, <1>4 DEF Tick, accounts
<1>5. CASE Administration BY <1>2, <1>5 DEF Administration, accounts
<1>6. CASE Creation
  <2>1. PICK k \in Mint : InitAuctionData(k)
    BY <1>2, <1>6 DEF Creation, InitSellData, InitUserPool, InitOfferData
  <2>2. k # m BY <1>1, <2>1 DEF InitAuctionData
  <2> QED BY <1>1, <2>1, <2>2 DEF InitAuctionData
<1>7. CASE Listing
  <2>1. PICK u \in User, k \in Mint :
           \/ \E recipient \in User : TransferFromVault(u, recipient, k)
           \/ Purchase(u, k)
    BY <1>2, <1>7
       DEF Listing, ListNftForSale, DelistNft, SetPrice, TransferNft, accounts
  <2>2. EndListing(k) BY <2>1 DEF TransferFromVault, Purchase, PurchaseNaming
  <2> QED BY <2>2, EndListingStarted
<1>8. CASE Escrow
  BY <1>2, <1>8 DEF Escrow, DepositToEscrow, WithdrawFromEscrow
<1>9. CASE Offering
  <2>1. PICK u \in User, buyer \in User, k \in Mint : AcceptOffer(u, buyer, k)
    <3>1. ASSUME NEW u, NEW k, NEW price, MakeOffer(u, k, price) PROVE FALSE
      BY <1>2, <3>1 DEF MakeOffer
    <3>2. ASSUME NEW u, NEW k, CancelOffer(u, k) PROVE FALSE
      BY <1>2, <3>2 DEF CancelOffer
    <3> QED BY <1>9, <3>1, <3>2 DEF Offering
  <2>2. EndListing(k) BY <2>1 DEF AcceptOffer, AcceptOfferNaming
  <2> QED BY <2>2, EndListingStarted
<1>10. CASE Auctioning
  <2>1. PICK u \in User, k \in Mint :
           \/ \E price \in PriceInput, min_increase \in MinIncreaseInput,
                 duration \in DurationInput, reserved \in 0 .. 1 :
                 CreateAuction(u, k, price, min_increase, duration, reserved)
           \/ \E price \in PriceInput : PlaceBid(u, k, price)
           \/ ClaimAuction(u, k)
           \/ \E price \in PriceInput : UpdateReserve(u, k, price)
           \/ CancelAuction(u, k)
    BY <1>10 DEF Auctioning
  <2>2. ASSUME k # m PROVE FALSE
    <3>1. ASSUME NEW a, auction' = [auction EXCEPT ![k] = a] PROVE FALSE
      BY <1>1, <2>2, <3>1
    <3>2. ASSUME NEW price, NEW min_increase, NEW duration, NEW reserved,
                 CreateAuction(u, k, price, min_increase, duration, reserved)
          PROVE  FALSE
      BY <3>1, <3>2 DEF CreateAuction
    <3>3. ASSUME NEW price, PlaceBid(u, k, price) PROVE FALSE
      BY <3>1, <3>3 DEF PlaceBid, PlaceBidRefunding
    <3>4. ASSUME ClaimAuction(u, k) PROVE FALSE
      BY <3>1, <3>4 DEF ClaimAuction, ClaimAuctionNaming
    <3>5. ASSUME NEW price, UpdateReserve(u, k, price) PROVE FALSE
      BY <3>1, <3>5 DEF UpdateReserve
    <3>6. ASSUME CancelAuction(u, k) PROVE FALSE
      BY <3>1, <3>6 DEF CancelAuction
    <3> QED BY <2>1, <3>2, <3>3, <3>4, <3>5, <3>6
  <2>3. ASSUME NEW price, NEW min_increase, NEW duration, NEW reserved,
               CreateAuction(u, m, price, min_increase, duration, reserved)
        PROVE  FALSE
    BY <1>1, <2>3 DEF CreateAuction
  <2>4. ASSUME NEW price, UpdateReserve(u, m, price) PROVE FALSE
    BY <2>4 DEF UpdateReserve
  <2> QED BY <2>1, <2>2, <2>3, <2>4
<1> QED BY <1>3, <1>4, <1>5, <1>6, <1>7, <1>8, <1>9, <1>10 DEF Next

\* Every other account keeps its mint and status, or an account that exists
\* is written.
LEMMA AuctionsExistStep ==
  ASSUME TypeOK, AuctionsExist, [Next]_vars
  PROVE  AuctionsExist'
<1>1. auction \in [Mint -> AuctionData] BY DEF TypeOK
<1>2. ASSUME auction' = auction PROVE AuctionsExist'
  BY <1>2 DEF AuctionsExist, AuctionExists
<1>3. ASSUME NEW k \in Mint, EndListing(k) PROVE AuctionsExist'
  BY <1>1, <1>3 DEF EndListing, AuctionsExist, AuctionExists, AuctionData
<1>4. CASE UNCHANGED vars BY <1>2, <1>4 DEF vars, accounts
<1>5. CASE Tick BY <1>2, <1>5 DEF Tick, accounts
<1>6. CASE Administration BY <1>2, <1>6 DEF Administration, accounts
<1>7. CASE Creation
  <2>1. CASE auction' = auction BY <1>2, <2>1
  <2>2. CASE auction' # auction
    <3>1. PICK k \in Mint : InitAuctionData(k)
      BY <1>7, <2>2 DEF Creation, InitSellData, InitUserPool, InitOfferData
    <3> QED
      BY <1>1, <3>1
         DEF InitAuctionData, AuctionsExist, AuctionExists, AuctionData
  <2> QED BY <2>1, <2>2
<1>8. CASE Listing
  <2>1. CASE auction' = auction BY <1>2, <2>1
  <2>2. CASE auction' # auction
    <3>1. PICK u \in User, k \in Mint :
             \/ \E recipient \in User : TransferFromVault(u, recipient, k)
             \/ Purchase(u, k)
      BY <1>8, <2>2
         DEF Listing, ListNftForSale, DelistNft, SetPrice, TransferNft, accounts
    <3>2. EndListing(k) BY <3>1 DEF TransferFromVault, Purchase, PurchaseNaming
    <3> QED BY <1>3, <3>2
  <2> QED BY <2>1, <2>2
<1>9. CASE Escrow
  BY <1>2, <1>9 DEF Escrow, DepositToEscrow, WithdrawFromEscrow
<1>10. CASE Offering
  <2>1. ASSUME NEW u, NEW k, NEW price, MakeOffer(u, k, price)
        PROVE  AuctionsExist'
    BY <1>2, <2>1 DEF MakeOffer
  <2>2. ASSUME NEW u, NEW k, CancelOffer(u, k) PROVE AuctionsExist'
    BY <1>2, <2>2 DEF CancelOffer
  <2>3. ASSUME NEW u, NEW buyer, NEW k \in Mint, AcceptOffer(u, buyer, k)
        PROVE  AuctionsExist'
    BY <1>3, <2>3 DEF AcceptOffer, AcceptOfferNaming
  <2> QED BY <1>10, <2>1, <2>2, <2>3 DEF Offering
<1>11. CASE Auctioning
  <2>1. ASSUME NEW k \in Mint, AuctionExists(k), \A x \in Mint \ {k} :
                  auction'[x] = auction[x],
               auction'[k].mint = auction[k].mint
        PROVE  AuctionsExist'
    BY <2>1 DEF AuctionsExist, AuctionExists
  <2>2. PICK u \in User, k \in Mint :
           \/ \E price \in PriceInput, min_increase \in MinIncreaseInput,
                 duration \in DurationInput, reserved \in 0 .. 1 :
                 CreateAuction(u, k, price, min_increase, duration, reserved)
           \/ \E price \in PriceInput : PlaceBid(u, k, price)
           \/ ClaimAuction(u, k)
           \/ \E price \in PriceInput : UpdateReserve(u, k, price)
           \/ CancelAuction(u, k)
    BY <1>11 DEF Auctioning
  <2>3. ASSUME NEW price, NEW min_increase, NEW duration, NEW reserved,
               CreateAuction(u, k, price, min_increase, duration, reserved)
        PROVE  AuctionsExist'
    BY <1>1, <2>1, <2>3
       DEF CreateAuction, CreateAuctionAccounts, NewAuction, AuctionData
  <2>4. ASSUME NEW price, PlaceBid(u, k, price) PROVE AuctionsExist'
    BY <1>1, <2>1, <2>4
       DEF PlaceBid, PlaceBidRefunding, PlaceBidAccounts, AfterBid, AuctionData
  <2>5. CASE ClaimAuction(u, k)
    BY <1>1, <2>1, <2>5
       DEF ClaimAuction, ClaimAuctionNaming, ClaimAuctionAccounts, AuctionData
  <2>6. ASSUME NEW price, UpdateReserve(u, k, price) PROVE AuctionsExist'
    BY <1>1, <2>1, <2>6 DEF UpdateReserve, AuctionData
  <2>7. CASE CancelAuction(u, k)
    BY <1>1, <2>1, <2>7 DEF CancelAuction, CancelAuctionAccounts, AuctionData
  <2> QED BY <2>2, <2>3, <2>4, <2>5, <2>6, <2>7
<1> QED BY <1>4, <1>5, <1>6, <1>7, <1>8, <1>9, <1>10, <1>11 DEF Next

LEMMA AuctionsAlwaysExist == Spec => []AuctionsExist
<1>1. Init => AuctionsExist BY DEF Init, NoAuctionData, AuctionsExist
<1>2. TypeOK /\ AuctionsExist /\ [Next]_vars => AuctionsExist'
  BY AuctionsExistStep
<1> QED BY <1>1, <1>2, TypeCorrect, PTL DEF Spec

\* Once the end date has passed an auction with a bid can only be claimed by
\* the last bidder, and one without can only be cancelled by its creator,
\* who has the NFT back.  This holds in every build: place_bid,
\* claim_auction and cancel_auction compute the same end date.
THEOREM EndOfAuctionIsFinal == Spec => EndIsFinal
<1>1. ASSUME TypeOK, CustodyInv, AuctionsExist, [Next]_vars, NEW m \in Mint,
             auction[m].status = 1, EndDate(auction[m]) <= now,
             auction'[m] # auction[m]
      PROVE  LET a == auction[m]
             IN  \/ /\ a.last_bidder # Default
                    /\ auction'[m] = [a EXCEPT !.status = 2]
                    /\ holder'[m] = a.last_bidder
                 \/ /\ a.last_bidder = Default
                    /\ auction'[m] = [a EXCEPT !.status = 0]
                    /\ holder'[m] = a.creator
  <2>1. /\ auction \in [Mint -> AuctionData]
        /\ holder \in [Mint -> User \cup {GlobalAuthority}]
        /\ Default \notin User /\ sell[m].active = 0
    BY <1>1, KeysAssumption
       DEF TypeOK, SellData, CustodyInv, OnlyReservedWhileListed, Listed,
           AuctionOpen
  <2>2. PICK u \in User :
           \/ \E price \in PriceInput : PlaceBid(u, m, price)
           \/ ClaimAuction(u, m)
           \/ CancelAuction(u, m)
    BY <1>1, StartedAuction
  <2>3. ASSUME NEW price, PlaceBid(u, m, price) PROVE FALSE
    <3>1. EndDate(auction[m]) > now
      BY <1>1, <2>3 DEF PlaceBid, PlaceBidRefunding, BiddingOpen
    <3>2. now \in Int /\ EndDate(auction[m]) \in Int
      BY <1>1, <2>1, IntegersAssumption
         DEF TypeOK, I64, EndDate, RawEndDate, WrappedI64, AuctionData
    <3> QED BY <1>1, <3>1, <3>2
  <2>4. CASE ClaimAuction(u, m)
    BY <2>1, <2>4 DEF ClaimAuction, ClaimAuctionNaming
  <2>5. CASE CancelAuction(u, m) BY <2>1, <2>5 DEF CancelAuction
  <2> QED BY <2>2, <2>3, <2>4, <2>5
<1>2. TypeOK /\ CustodyInv /\ AuctionsExist /\ [Next]_vars =>
         [\A m \in Mint :
            LET a == auction[m] IN
            a.status = 1 /\ EndDate(a) <= now /\ auction'[m] # a =>
                \/ /\ a.last_bidder # Default
                   /\ auction'[m] = [a EXCEPT !.status = 2]
                   /\ holder'[m] = a.last_bidder
                \/ /\ a.last_bidder = Default
                   /\ auction'[m] = [a EXCEPT !.status = 0]
                   /\ holder'[m] = a.creator]_vars
  BY <1>1
<1> QED BY <1>2, TypeCorrect, CustodyHolds, AuctionsAlwaysExist, PTL
        DEF Spec, EndIsFinal
=============================================================================
