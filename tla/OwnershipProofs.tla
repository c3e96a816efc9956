---------------------------- MODULE OwnershipProofs ----------------------------
(***************************************************************************)
(* The marketplace implements NftOwnership, for any number of users and    *)
(* NFTs.  Every instruction touches the listing, the auction and the token *)
(* account of one NFT, and what it does to the owner, the stage and the    *)
(* last bidder of that NFT is a step of NftOwnership or none: custody      *)
(* (MarketplaceProofs) gives the seller of a listing and the creator of an *)
(* auction the meaning of an owner.                                        *)
(***************************************************************************)
EXTENDS MarketplaceProofs

OwnerMap == [m \in Mint |-> Owner(m)]
StageMap == [m \in Mint |-> Stage(m)]
BidderMap == [m \in Mint |-> LastBidder(m)]

\* The views of an NFT that a step leaves alone stay.
LEMMA OthersViewed ==
  ASSUME NEW m \in Mint, OthersKept(m)
  PROVE  /\ OwnerMap' = [OwnerMap EXCEPT ![m] = Owner(m)']
         /\ StageMap' = [StageMap EXCEPT ![m] = Stage(m)']
         /\ BidderMap' = [BidderMap EXCEPT ![m] = LastBidder(m)']
<1>1. ASSUME NEW k \in Mint \ {m}
      PROVE  /\ Owner(k)' = Owner(k) /\ Stage(k)' = Stage(k)
             /\ LastBidder(k)' = LastBidder(k)
  BY DEF OthersKept, Owner, Stage, LastBidder, Listed
<1> QED BY <1>1 DEF OwnerMap, StageMap, BidderMap

\* A step of the abstract specification, seen at the one NFT it touches.
StepAt(m) ==
    \/ /\ Stage(m) = "free" /\ Stage(m)' = "free"
       /\ Owner(m)' \in User /\ LastBidder(m)' = LastBidder(m)
    \/ /\ Stage(m) = "free" /\ Stage(m)' = "for sale"
       /\ Owner(m)' = Owner(m) /\ LastBidder(m)' = LastBidder(m)
    \/ /\ Stage(m) = "for sale" /\ Stage(m)' = "free"
       /\ Owner(m)' \in User /\ LastBidder(m)' = LastBidder(m)
    \/ /\ Stage(m) # "free" /\ Stage(m)' = "bid for"
       /\ LastBidder(m)' \in User \ {Owner(m), LastBidder(m)}
       /\ Owner(m)' = Owner(m)
    \/ /\ Stage(m) = "bid for" /\ Stage(m)' = "free"
       /\ Owner(m)' = LastBidder(m) /\ LastBidder(m)' = Default
    \/ /\ Stage(m)' = Stage(m) /\ Owner(m)' = Owner(m)
       /\ LastBidder(m)' = LastBidder(m)

LEMMA StepOfOne ==
  ASSUME NEW m \in Mint, OthersKept(m), StepAt(m)
  PROVE  Ownership!Next \/ UNCHANGED <<OwnerMap, StageMap, BidderMap>>
<1> DEFINE o == Owner(m)'
           s == Stage(m)'
           b == LastBidder(m)'
<1>1. /\ OwnerMap' = [OwnerMap EXCEPT ![m] = o]
      /\ StageMap' = [StageMap EXCEPT ![m] = s]
      /\ BidderMap' = [BidderMap EXCEPT ![m] = b]
  BY OthersViewed
<1>2. /\ OwnerMap[m] = Owner(m) /\ StageMap[m] = Stage(m)
      /\ BidderMap[m] = LastBidder(m)
  BY DEF OwnerMap, StageMap, BidderMap
<1>3. /\ OwnerMap = [OwnerMap EXCEPT ![m] = OwnerMap[m]]
      /\ StageMap = [StageMap EXCEPT ![m] = StageMap[m]]
      /\ BidderMap = [BidderMap EXCEPT ![m] = BidderMap[m]]
  BY DEF OwnerMap, StageMap, BidderMap
<1> HIDE DEF o, s, b
<1>4. CASE Stage(m) = "free" /\ s = "free" /\ o \in User /\ b = LastBidder(m)
  <2>1. Ownership!Give(m, o)
    BY <1>1, <1>2, <1>3, <1>4 DEF Ownership!Give, OwnerMap, StageMap, BidderMap
  <2> QED BY <1>4, <2>1 DEF Ownership!Next
<1>5. CASE /\ Stage(m) = "free" /\ s = "for sale"
           /\ o = Owner(m) /\ b = LastBidder(m)
  <2>1. Ownership!PutUp(m)
    BY <1>1, <1>2, <1>3, <1>5 DEF Ownership!PutUp, OwnerMap, StageMap, BidderMap
  <2> QED BY <2>1 DEF Ownership!Next
<1>6. CASE /\ Stage(m) = "for sale" /\ s = "free"
           /\ o \in User /\ b = LastBidder(m)
  <2>1. Ownership!Trade(m, o)
    BY <1>1, <1>2, <1>3, <1>6 DEF Ownership!Trade, OwnerMap, StageMap, BidderMap
  <2> QED BY <1>6, <2>1 DEF Ownership!Next
<1>7. CASE /\ Stage(m) # "free" /\ s = "bid for" /\ o = Owner(m)
           /\ b \in User \ {Owner(m), LastBidder(m)}
  <2>1. Ownership!Bid(m, b)
    BY <1>1, <1>2, <1>3, <1>7 DEF Ownership!Bid, OwnerMap, StageMap, BidderMap
  <2> QED BY <1>7, <2>1 DEF Ownership!Next
<1>8. CASE /\ Stage(m) = "bid for" /\ s = "free"
           /\ o = LastBidder(m) /\ b = Default
  <2>1. Ownership!Award(m)
    BY <1>1, <1>2, <1>3, <1>8 DEF Ownership!Award, OwnerMap, StageMap, BidderMap
  <2> QED BY <2>1 DEF Ownership!Next
<1>9. CASE s = Stage(m) /\ o = Owner(m) /\ b = LastBidder(m)
  BY <1>1, <1>2, <1>3, <1>9
<1> QED BY <1>4, <1>5, <1>6, <1>7, <1>8, <1>9 DEF StepAt, o, s, b

-----------------------------------------------------------------------------
(***************************************************************************)
(* The instructions.                                                       *)
(***************************************************************************)
Implemented == Ownership!Next \/ UNCHANGED <<OwnerMap, StageMap, BidderMap>>

LEMMA Types ==
  ASSUME TypeOK
  PROVE  /\ sell \in [Mint -> SellData] /\ auction \in [Mint -> AuctionData]
         /\ holder \in [Mint -> User \cup {GlobalAuthority}]
         /\ GlobalAuthority \notin User /\ Default \notin User
BY KeysAssumption DEF TypeOK

\* The end of a listing is a trade.
LEMMA SaleTrades ==
  ASSUME TypeOK, CustodyInv, NEW m \in Mint, NEW recipient \in User,
         EndListing(m), sell[m].active = 1,
         holder' = [holder EXCEPT ![m] = recipient]
  PROVE  Implemented
<1>1. Custody(sell[m], auction[m], holder[m]) BY CustodyByMint
<1>2. /\ holder[m] = GlobalAuthority /\ auction[m].status # 1
      /\ auction'[m].status # 1
      /\ holder'[m] = recipient /\ recipient # GlobalAuthority
  BY <1>1, Types DEF Custody, EndListing, AuctionData
<1>3. StepAt(m) BY <1>2 DEF StepAt, Stage, Owner, LastBidder, Listed
<1>4. OthersKept(m) BY Types DEF EndListing, OthersKept
<1> QED BY <1>3, <1>4, StepOfOne DEF Implemented

LEMMA ListingImplements ==
  ASSUME TypeOK, CustodyInv, Listing
  PROVE  Implemented
<1>1. PICK u \in User, m \in Mint :
         \/ \E price \in PriceInput : ListNftForSale(u, m, price)
         \/ DelistNft(u, m)
         \/ \E price \in PriceInput : SetPrice(u, m, price)
         \/ \E recipient \in User : TransferNft(u, recipient, m)
         \/ \E recipient \in User : TransferFromVault(u, recipient, m)
         \/ Purchase(u, m)
  BY DEF Listing
<1>2. Custody(sell[m], auction[m], holder[m]) BY CustodyByMint
<1>3. /\ sell \in [Mint -> SellData] /\ auction \in [Mint -> AuctionData]
      /\ holder \in [Mint -> User \cup {GlobalAuthority}]
      /\ GlobalAuthority \notin User /\ Default \notin User
  BY Types
<1>4. ASSUME NEW price \in PriceInput, ListNftForSale(u, m, price)
      PROVE  Implemented
  <2>1. /\ auction' = auction /\ auction[m].status # 1
        /\ sell'[m].active = 1 /\ sell'[m].seller = u
        /\ holder'[m] = GlobalAuthority
        /\ auction[m].status # 3 => holder[m] = u
        /\ auction[m].status = 3 => /\ auction[m].creator = u
                                    /\ holder[m] = GlobalAuthority
    BY <1>3, <1>4 DEF ListNftForSale, ReservedBySigner
  <2>2. StepAt(m)
    BY <1>2, <1>3, <2>1 DEF StepAt, Stage, Owner, LastBidder, Listed, Custody
  <2>3. OthersKept(m) BY <1>3, <1>4 DEF OthersKept, ListNftForSale
  <2> QED BY <2>2, <2>3, StepOfOne DEF Implemented
<1>5. CASE DelistNft(u, m)
  <2>1. /\ auction' = auction /\ auction[m].status # 1
        /\ sell[m].active = 1 /\ sell'[m].active = 0 /\ sell[m].seller = u
        /\ holder[m] = GlobalAuthority
        /\ auction[m].status # 3 => holder'[m] = u
        /\ auction[m].status = 3 => /\ auction[m].creator = u
                                    /\ holder'[m] = GlobalAuthority
    BY <1>2, <1>3, <1>5
       DEF DelistNft, DelistNftAccounts, ReservedBySigner, Custody, SellData
  <2>2. StepAt(m)
    BY <1>2, <1>3, <2>1 DEF StepAt, Stage, Owner, LastBidder, Listed, Custody
  <2>3. OthersKept(m) BY <1>3, <1>5 DEF OthersKept, DelistNft
  <2> QED BY <2>2, <2>3, StepOfOne DEF Implemented
<1>6. ASSUME NEW price \in PriceInput, SetPrice(u, m, price) PROVE Implemented
  <2>1. /\ auction' = auction /\ holder' = holder
        /\ sell'[m].active = sell[m].active /\ sell'[m].seller = sell[m].seller
    BY <1>3, <1>6 DEF SetPrice, SellData
  <2>2. StepAt(m) BY <2>1 DEF StepAt, Stage, Owner, LastBidder, Listed
  <2>3. OthersKept(m) BY <1>3, <1>6 DEF OthersKept, SetPrice
  <2> QED BY <2>2, <2>3, StepOfOne DEF Implemented
<1>7. ASSUME NEW recipient \in User, TransferNft(u, recipient, m)
      PROVE  Implemented
  <2>1. /\ auction' = auction /\ sell' = sell
        /\ holder[m] = u /\ holder'[m] = recipient
    BY <1>3, <1>7 DEF TransferNft, accounts
  <2>2. StepAt(m)
    BY <1>2, <1>3, <2>1 DEF StepAt, Stage, Owner, LastBidder, Listed
  <2>3. OthersKept(m) BY <1>3, <1>7 DEF OthersKept, TransferNft, accounts
  <2> QED BY <2>2, <2>3, StepOfOne DEF Implemented
<1>8. ASSUME NEW recipient \in User, TransferFromVault(u, recipient, m)
      PROVE  Implemented
  <2>1. /\ EndListing(m) /\ sell[m].active = 1
        /\ holder' = [holder EXCEPT ![m] = recipient]
    BY <1>8 DEF TransferFromVault
  <2> QED BY <2>1, SaleTrades
<1>9. CASE Purchase(u, m)
  <2>1. /\ EndListing(m) /\ sell[m].active = 1
        /\ holder' = [holder EXCEPT ![m] = u]
    BY <1>9 DEF Purchase, PurchaseNaming
  <2> QED BY <2>1, SaleTrades
<1> QED BY <1>1, <1>4, <1>5, <1>6, <1>7, <1>8, <1>9

LEMMA AuctioningImplements ==
  ASSUME TypeOK, CustodyInv, Auctioning
  PROVE  Implemented
<1>1. PICK u \in User, m \in Mint :
         \/ \E price \in PriceInput, min_increase \in MinIncreaseInput,
               duration \in DurationInput, reserved \in 0 .. 1 :
               CreateAuction(u, m, price, min_increase, duration, reserved)
         \/ \E price \in PriceInput : PlaceBid(u, m, price)
         \/ ClaimAuction(u, m)
         \/ \E price \in PriceInput : UpdateReserve(u, m, price)
         \/ CancelAuction(u, m)
  BY DEF Auctioning
<1>2. Custody(sell[m], auction[m], holder[m]) BY CustodyByMint
<1>3. /\ sell \in [Mint -> SellData] /\ auction \in [Mint -> AuctionData]
      /\ holder \in [Mint -> User \cup {GlobalAuthority}]
      /\ GlobalAuthority \notin User /\ Default \notin User
  BY Types
<1>4. ASSUME NEW price \in PriceInput, NEW min_increase \in MinIncreaseInput,
             NEW duration \in DurationInput, NEW reserved \in 0 .. 1,
             CreateAuction(u, m, price, min_increase, duration, reserved)
      PROVE  Implemented
  <2> DEFINE a == NewAuction(auction[m], u, price, min_increase, duration,
                             reserved)
  <2>1. /\ a.creator = u /\ a.last_bidder = Default
        /\ a.status = IF reserved = 0 THEN 1 ELSE 3
    BY <1>3 DEF NewAuction, AuctionData
  <2>2. auction'[m] = a BY <1>3, <1>4 DEF CreateAuction
  <2> HIDE DEF a
  <2>3. /\ sell' = sell /\ holder'[m] = GlobalAuthority
        /\ sell[m].active = 0 => holder[m] = u
        /\ sell[m].active # 0 => /\ holder[m] = GlobalAuthority
                                 /\ sell[m].seller = u
    BY <1>3, <1>4 DEF CreateAuction, SellData
  <2>4. sell[m].active \in {0, 1} BY <1>3 DEF SellData
  <2>5. StepAt(m)
    BY <1>2, <1>3, <2>1, <2>2, <2>3, <2>4
       DEF StepAt, Stage, Owner, LastBidder, Listed, Custody
  <2>6. OthersKept(m) BY <1>3, <1>4 DEF CreateAuction, OthersKept
  <2> QED BY <2>5, <2>6, StepOfOne DEF Implemented
<1>5. ASSUME NEW price \in PriceInput, PlaceBid(u, m, price) PROVE Implemented
  <2>1. /\ auction'[m].status = 1 /\ auction'[m].last_bidder = u
        /\ auction'[m].creator = auction[m].creator
        /\ auction[m].status \in {1, 3}
        /\ u # auction[m].creator /\ u # auction[m].last_bidder
    BY <1>3, <1>5
       DEF PlaceBid, PlaceBidRefunding, BiddingOpen, AfterBid, AuctionData
  <2>2. /\ holder' = holder
        /\ sell'[m].active = IF auction[m].status = 3 THEN 0
                             ELSE sell[m].active
    BY <1>3, <1>5 DEF PlaceBid, PlaceBidRefunding, SellData
  <2>3. sell'[m].active # 1 /\ Owner(m) = auction[m].creator
    BY <1>2, <2>1, <2>2 DEF Custody, Owner, Listed
  <2>4. StepAt(m)
    BY <1>2, <1>3, <2>1, <2>2, <2>3
       DEF StepAt, Stage, Owner, LastBidder, Listed, Custody
  <2>5. OthersKept(m) BY <1>3, <1>5 DEF PlaceBid, PlaceBidRefunding, OthersKept
  <2> QED BY <2>4, <2>5, StepOfOne DEF Implemented
<1>6. CASE ClaimAuction(u, m)
  <2>1. /\ auction'[m].status = 2 /\ auction[m].status = 1
        /\ auction[m].last_bidder = u
        /\ holder'[m] = u /\ sell' = sell
    BY <1>3, <1>6 DEF ClaimAuction, ClaimAuctionNaming, AuctionData
  <2>2. StepAt(m)
    BY <1>2, <1>3, <2>1 DEF StepAt, Stage, Owner, LastBidder, Listed, Custody
  <2>3. OthersKept(m)
    BY <1>3, <1>6 DEF ClaimAuction, ClaimAuctionNaming, OthersKept
  <2> QED BY <2>2, <2>3, StepOfOne DEF Implemented
<1>7. ASSUME NEW price \in PriceInput, UpdateReserve(u, m, price)
      PROVE  Implemented
  <2>1. /\ auction'[m].status = auction[m].status
        /\ auction'[m].creator = auction[m].creator
        /\ auction'[m].last_bidder = auction[m].last_bidder
        /\ sell' = sell /\ holder' = holder
    BY <1>3, <1>7 DEF UpdateReserve, AuctionData
  <2>2. StepAt(m) BY <2>1 DEF StepAt, Stage, Owner, LastBidder, Listed
  <2>3. OthersKept(m) BY <1>3, <1>7 DEF UpdateReserve, OthersKept
  <2> QED BY <2>2, <2>3, StepOfOne DEF Implemented
<1>8. CASE CancelAuction(u, m)
  <2>1. /\ auction'[m].status = 0 /\ sell' = sell
        /\ auction[m].status \in {1, 3} /\ auction[m].last_bidder = Default
        /\ auction[m].creator = u
        /\ holder'[m] = IF sell[m].active = 0 THEN u ELSE holder[m]
    BY <1>3, <1>8 DEF CancelAuction, AuctionData
  <2>2. sell[m].active \in {0, 1} BY <1>3 DEF SellData
  <2>3. Owner(m) = u /\ Stage(m) = "for sale" /\ LastBidder(m) = Default
    BY <1>2, <2>1 DEF Stage, Owner, LastBidder, Listed, Custody
  <2>4. Owner(m)' = u /\ LastBidder(m)' = Default
    BY <1>2, <1>3, <2>1, <2>2 DEF Owner, LastBidder, Listed, Custody
  <2>5. Stage(m)' \in {"free", "for sale"} BY <2>1 DEF Stage, LastBidder
  <2>6. StepAt(m) BY <2>3, <2>4, <2>5 DEF StepAt
  <2>7. OthersKept(m) BY <1>3, <1>8 DEF CancelAuction, OthersKept
  <2> QED BY <2>6, <2>7, StepOfOne DEF Implemented
<1> QED BY <1>1, <1>4, <1>5, <1>6, <1>7, <1>8

LEMMA StepImplements ==
  ASSUME TypeOK, CustodyInv, [Next]_vars
  PROVE  Implemented
<1>1. ASSUME UNCHANGED <<sell, auction, holder>> PROVE Implemented
  BY <1>1 DEF Implemented, OwnerMap, StageMap, BidderMap, Owner, Stage,
              LastBidder, Listed
<1>2. CASE UNCHANGED vars BY <1>1, <1>2 DEF vars, accounts
<1>3. CASE Tick BY <1>1, <1>3 DEF Tick, accounts
<1>4. CASE Administration BY <1>1, <1>4 DEF Administration, accounts
<1>5. CASE Creation
  <2>1. ASSUME NEW m \in Mint, InitSellData(m) PROVE Implemented
    <3>1. /\ auction' = auction /\ holder' = holder
          /\ sell'[m].active = sell[m].active
          /\ sell'[m].seller = sell[m].seller
      BY <2>1 DEF InitSellData, TypeOK, SellData
    <3>2. StepAt(m) BY <3>1 DEF StepAt, Stage, Owner, LastBidder, Listed
    <3>3. OthersKept(m) BY <2>1 DEF InitSellData, OthersKept, TypeOK
    <3> QED BY <3>2, <3>3, StepOfOne DEF Implemented
  <2>2. ASSUME NEW m \in Mint, InitAuctionData(m) PROVE Implemented
    <3>1. /\ sell' = sell /\ holder' = holder
          /\ auction'[m].status = auction[m].status
          /\ auction'[m].creator = auction[m].creator
          /\ auction'[m].last_bidder = auction[m].last_bidder
      BY <2>2 DEF InitAuctionData, TypeOK, AuctionData
    <3>2. StepAt(m) BY <3>1 DEF StepAt, Stage, Owner, LastBidder, Listed
    <3>3. OthersKept(m) BY <2>2 DEF InitAuctionData, OthersKept, TypeOK
    <3> QED BY <3>2, <3>3, StepOfOne DEF Implemented
  <2>3. ASSUME NEW u \in User, InitUserPool(u) PROVE Implemented
    BY <1>1, <2>3 DEF InitUserPool
  <2>4. ASSUME NEW u \in User, NEW m \in Mint, InitOfferData(u, m)
        PROVE  Implemented
    BY <1>1, <2>4 DEF InitOfferData
  <2> QED BY <1>5, <2>1, <2>2, <2>3, <2>4 DEF Creation
<1>6. CASE Listing BY <1>6, ListingImplements
<1>7. CASE Escrow
  <2>1. UNCHANGED <<sell, auction, holder>>
    BY <1>7 DEF Escrow, DepositToEscrow, WithdrawFromEscrow
  <2> QED BY <1>1, <2>1
<1>8. CASE Offering
  <2>1. ASSUME NEW u \in User, NEW m \in Mint, NEW price \in PriceInput,
               MakeOffer(u, m, price)
        PROVE  Implemented
    BY <1>1, <2>1 DEF MakeOffer
  <2>2. ASSUME NEW u \in User, NEW m \in Mint, CancelOffer(u, m)
        PROVE  Implemented
    BY <1>1, <2>2 DEF CancelOffer
  <2>3. ASSUME NEW u \in User, NEW m \in Mint, NEW buyer \in User,
               AcceptOffer(u, buyer, m)
        PROVE  Implemented
    <3>1. /\ EndListing(m) /\ sell[m].active = 1
          /\ holder' = [holder EXCEPT ![m] = buyer]
      BY <2>3 DEF AcceptOffer, AcceptOfferNaming
    <3> QED BY <3>1, SaleTrades
  <2> QED BY <1>8, <2>1, <2>2, <2>3 DEF Offering
<1>9. CASE Auctioning BY <1>9, AuctioningImplements
<1> QED BY <1>2, <1>3, <1>4, <1>5, <1>6, <1>7, <1>8, <1>9 DEF Next

\* For any users and NFTs the marketplace implements NftOwnership: an NFT
\* changes its owner only by his gift or sale, and past a bid it can only go
\* to the last bidder.
THEOREM MarketplaceImplementsOwnership == Spec => OwnershipImplemented
<1>1. Init => Ownership!Init
  <2> SUFFICES ASSUME Init PROVE Ownership!Init OBVIOUS
  <2>1. ASSUME NEW m \in Mint
        PROVE  /\ Owner(m) \in User /\ Stage(m) = "free"
               /\ LastBidder(m) = Default
    BY KeysAssumption
       DEF Init, NoAuctionData, Owner, Stage, LastBidder
  <2> QED BY <2>1 DEF Ownership!Init
<1>2. TypeOK /\ CustodyInv /\ [Next]_vars
        => [Ownership!Next]_(Ownership!ownership)
  BY StepImplements
     DEF Implemented, OwnerMap, StageMap, BidderMap, Ownership!ownership
<1> QED
  BY <1>1, <1>2, TypeCorrect, CustodyHolds, PTL
     DEF Spec, OwnershipImplemented, Ownership!Spec
=============================================================================
