----------------------------- MODULE ReaderProofs -----------------------------
(***************************************************************************)
(* Proofs about the scans of the client library: the sizes and byte ranges *)
(* written out there are those of the account layouts, so that a scan that *)
(* answers at all shows what is on the market, and it answers whenever the *)
(* numbers it reads fit into a double.  And proofs about the parser of the *)
(* back end: the positions, byte ranges and inner transfers it reads are   *)
(* those of the interface, so that an activity is what its transaction did *)
(* to the marketplace.                                                     *)
(***************************************************************************)
EXTENDS ReaderProperties, Tracking, CommandProofs

-----------------------------------------------------------------------------
(***************************************************************************)
(* Layouts.                                                                *)
(***************************************************************************)
\* The fields end at the bytes `f` lists, from 0 on.
EndAt(fields, f) ==
    /\ DOMAIN fields = 1 .. Len(fields)
    /\ \A k \in 0 .. Len(fields) : IDL!Ends(fields)[k] = f[k]

\* It is enough that f adds the widths up.
LEMMA EndsAddUp ==
  ASSUME NEW fields, NEW n \in Nat, Len(fields) = n, DOMAIN fields = 1 .. n,
         NEW f \in [0 .. n -> Nat], f[0] = IDL!Discriminator,
         \A k \in 1 .. n : f[k] = f[k - 1] + IDL!Width(fields[k][2])
  PROVE  EndAt(fields, f)
<1> DEFINE Body(g) == [k \in 0 .. n |->
                         IF k = 0 THEN IDL!Discriminator
                         ELSE g[k - 1] + IDL!Width(fields[k][2])]
           end == CHOOSE g : g = Body(g)
<1>1. f = Body(f)
  <2>1. f = [k \in 0 .. n |-> f[k]] OBVIOUS
  <2>2. ASSUME NEW k \in 0 .. n PROVE f[k] = Body(f)[k] OBVIOUS
  <2> QED BY <2>1, <2>2
<1>2. end = Body(end) BY <1>1
<1>3. IDL!Ends(fields) = end BY DEF IDL!Ends
<1> HIDE DEF end
<1> DEFINE Same == {k \in Nat : k <= n => end[k] = f[k]}
<1>4. 0 \in Same BY <1>2
<1>5. ASSUME NEW k \in Nat, k \in Same PROVE k + 1 \in Same
  <2>1. CASE k + 1 <= n
    <3>1. end[k + 1] = Body(end)[k + 1] BY <1>2
    <3>2. end[k + 1] = end[k] + IDL!Width(fields[k + 1][2]) BY <2>1, <3>1
    <3>3. f[k + 1] = f[k] + IDL!Width(fields[k + 1][2]) BY <2>1
    <3> QED BY <1>5, <2>1, <3>2, <3>3
  <2> QED BY <2>1
<1> HIDE DEF Same
<1>6. \A k \in Nat : k \in Same BY <1>4, <1>5, NatSetInduction
<1> QED BY <1>3, <1>6 DEF Same, EndAt

\* The byte after each field.
SellEnds == <<40, 72, 104, 112, 120, 128>>
OfferEnds == <<40, 72, 80, 88, 96>>
AuctionEnds == <<40, 72, 80, 88, 96, 104, 136, 144, 152, 160>>
UserEnds == <<40, 48, 56>>

\* The same, with the end of the discriminator in front.
FromStart(ends) == [k \in 0 .. Len(ends) |-> IF k = 0 THEN 8 ELSE ends[k]]

LEMMA SellLayout == EndAt(IDL!SellData, FromStart(SellEnds))
<1> DEFINE f == FromStart(SellEnds)
<1>1. Len(IDL!SellData) = 6 /\ DOMAIN IDL!SellData = 1 .. 6
  BY DEF IDL!SellData
<1>2. f \in [0 .. 6 -> Nat] /\ f[0] = IDL!Discriminator
  BY DEF FromStart, SellEnds, IDL!Discriminator
<1>3. ASSUME NEW k \in 1 .. 6
      PROVE  f[k] = f[k - 1] + IDL!Width(IDL!SellData[k][2])
  BY DEF FromStart, SellEnds, IDL!SellData, IDL!Width, IDL!PublicKey, IDL!U64,
         IDL!I64
<1> HIDE DEF f
<1> QED BY <1>1, <1>2, <1>3, EndsAddUp DEF f

LEMMA OfferLayout == EndAt(IDL!OfferData, FromStart(OfferEnds))
<1> DEFINE f == FromStart(OfferEnds)
<1>1. Len(IDL!OfferData) = 5 /\ DOMAIN IDL!OfferData = 1 .. 5
  BY DEF IDL!OfferData
<1>2. f \in [0 .. 5 -> Nat] /\ f[0] = IDL!Discriminator
  BY DEF FromStart, OfferEnds, IDL!Discriminator
<1>3. ASSUME NEW k \in 1 .. 5
      PROVE  f[k] = f[k - 1] + IDL!Width(IDL!OfferData[k][2])
  BY DEF FromStart, OfferEnds, IDL!OfferData, IDL!Width, IDL!PublicKey, IDL!U64,
         IDL!I64
<1> HIDE DEF f
<1> QED BY <1>1, <1>2, <1>3, EndsAddUp DEF f

LEMMA AuctionLayout == EndAt(IDL!AuctionData, FromStart(AuctionEnds))
<1> DEFINE f == FromStart(AuctionEnds)
<1>1. Len(IDL!AuctionData) = 10 /\ DOMAIN IDL!AuctionData = 1 .. 10
  BY DEF IDL!AuctionData
<1>2. f \in [0 .. 10 -> Nat] /\ f[0] = IDL!Discriminator
  BY DEF FromStart, AuctionEnds, IDL!Discriminator
<1>3. ASSUME NEW k \in 1 .. 10
      PROVE  f[k] = f[k - 1] + IDL!Width(IDL!AuctionData[k][2])
  BY DEF FromStart, AuctionEnds, IDL!AuctionData, IDL!Width, IDL!PublicKey, IDL!U64,
         IDL!I64
<1> HIDE DEF f
<1> QED BY <1>1, <1>2, <1>3, EndsAddUp DEF f

LEMMA UserLayout == EndAt(IDL!UserData, FromStart(UserEnds))
<1> DEFINE f == FromStart(UserEnds)
<1>1. Len(IDL!UserData) = 3 /\ DOMAIN IDL!UserData = 1 .. 3
  BY DEF IDL!UserData
<1>2. f \in [0 .. 3 -> Nat] /\ f[0] = IDL!Discriminator
  BY DEF FromStart, UserEnds, IDL!Discriminator
<1>3. ASSUME NEW k \in 1 .. 3
      PROVE  f[k] = f[k - 1] + IDL!Width(IDL!UserData[k][2])
  BY DEF FromStart, UserEnds, IDL!UserData, IDL!Width, IDL!PublicKey, IDL!U64
<1> HIDE DEF f
<1> QED BY <1>1, <1>2, <1>3, EndsAddUp DEF f

\* Only one field lies between two given bytes.
LEMMA SliceOfField ==
  ASSUME NEW data, NEW f, NEW n \in Nat, EndAt(data.fields, f),
         Len(data.fields) = n, NEW k \in 1 .. n,
         \A j \in 1 .. n : f[j] = f[k] => j = k
  PROVE  Slice(data, f[k - 1], f[k]) = data.values[k]
<1>1. \A j \in DOMAIN data.fields :
         /\ IDL!Offset(data.fields, j) = f[j - 1]
         /\ IDL!Offset(data.fields, j + 1) = f[j]
  BY DEF EndAt, IDL!Offset
<1>2. k \in DOMAIN data.fields BY DEF EndAt
<1>3. \A j \in DOMAIN data.fields :
         IDL!Offset(data.fields, j) = f[k - 1] /\ IDL!Offset(data.fields, j + 1) = f[k]
         <=> j = k
  BY <1>1, <1>2 DEF EndAt
<1> QED BY <1>2, <1>3 DEF Slice

\* What the scans cut out of an account.
LEMMA SellSlices ==
  ASSUME NEW m
  PROVE  /\ Slice(SellAccount(m), 8, 40) = m
         /\ Slice(SellAccount(m), 104, 112) = sell[m].price_sol
         /\ Slice(SellAccount(m), 112, 120) = AsUnsigned(sell[m].listed_date)
         /\ Slice(SellAccount(m), 120, 128) = sell[m].active
<1> DEFINE data == SellAccount(m)
           f == FromStart(SellEnds)
<1>1. data.fields = IDL!SellData
      /\ data.values = <<m, sell[m].seller, Default, sell[m].price_sol,
                         AsUnsigned(sell[m].listed_date), sell[m].active>>
  BY DEF SellAccount, Stored
<1>2. Len(IDL!SellData) = 6 BY DEF IDL!SellData
<1>3. /\ f[0] = 8 /\ f[1] = 40 /\ f[2] = 72 /\ f[3] = 104 /\ f[4] = 112
      /\ f[5] = 120 /\ f[6] = 128
  BY DEF FromStart, SellEnds
<1> HIDE DEF data, f
<1>4. ASSUME NEW k \in 1 .. 6 PROVE Slice(data, f[k - 1], f[k]) = data.values[k]
  <2>1. \A j \in 1 .. 6 : f[j] = f[k] => j = k BY <1>3
  <2>2. EndAt(data.fields, f) BY <1>1, SellLayout DEF f
  <2> QED BY <1>1, <1>2, <2>1, <2>2, SliceOfField
<1>5. /\ Slice(data, 8, 40) = data.values[1]
      /\ Slice(data, 104, 112) = data.values[4]
      /\ Slice(data, 112, 120) = data.values[5]
      /\ Slice(data, 120, 128) = data.values[6]
  BY <1>3, <1>4
<1> QED BY <1>1, <1>5 DEF data

LEMMA OfferSlices ==
  ASSUME NEW m, NEW u
  PROVE  /\ Slice(OfferAccount(m, u), 8, 40) = m
         /\ Slice(OfferAccount(m, u), 40, 72) = u
         /\ Slice(OfferAccount(m, u), 72, 80) = offer[m][u].offer_price
         /\ Slice(OfferAccount(m, u), 80, 88) =
               AsUnsigned(offer[m][u].offer_listing_date)
         /\ Slice(OfferAccount(m, u), 88, 96) = offer[m][u].active
<1> DEFINE data == OfferAccount(m, u)
           f == FromStart(OfferEnds)
<1>1. data.fields = IDL!OfferData
      /\ data.values = <<m, u, offer[m][u].offer_price,
                         AsUnsigned(offer[m][u].offer_listing_date),
                         offer[m][u].active>>
  BY DEF OfferAccount, Stored
<1>2. Len(IDL!OfferData) = 5 BY DEF IDL!OfferData
<1>3. f[0] = 8 /\ f[1] = 40 /\ f[2] = 72 /\ f[3] = 80 /\ f[4] = 88 /\ f[5] = 96
  BY DEF FromStart, OfferEnds
<1> HIDE DEF data, f
<1>4. ASSUME NEW k \in 1 .. 5 PROVE Slice(data, f[k - 1], f[k]) = data.values[k]
  <2>1. \A j \in 1 .. 5 : f[j] = f[k] => j = k BY <1>3
  <2>2. EndAt(data.fields, f) BY <1>1, OfferLayout DEF f
  <2> QED BY <1>1, <1>2, <2>1, <2>2, SliceOfField
<1>5. /\ Slice(data, 8, 40) = data.values[1]
      /\ Slice(data, 40, 72) = data.values[2]
      /\ Slice(data, 72, 80) = data.values[3]
      /\ Slice(data, 80, 88) = data.values[4]
      /\ Slice(data, 88, 96) = data.values[5]
  BY <1>3, <1>4
<1> QED BY <1>1, <1>5 DEF data

LEMMA AuctionSlices ==
  ASSUME NEW m
  PROVE  LET a == auction[m]
             data == AuctionAccount(m)
         IN  /\ Slice(data, 8, 40) = m
             /\ Slice(data, 72, 80) = a.start_price
             /\ Slice(data, 80, 88) = a.min_increase_amount
             /\ Slice(data, 88, 96) = AsUnsigned(a.start_date)
             /\ Slice(data, 96, 104) = AsUnsigned(a.last_bid_date)
             /\ Slice(data, 136, 144) = a.highest_bid
             /\ Slice(data, 144, 152) = AsUnsigned(a.duration)
             /\ Slice(data, 152, 160) = a.status
<1> DEFINE a == auction[m]
           data == AuctionAccount(m)
           f == FromStart(AuctionEnds)
<1>1. data.fields = IDL!AuctionData
      /\ data.values = <<m, a.creator, a.start_price, a.min_increase_amount,
                         AsUnsigned(a.start_date), AsUnsigned(a.last_bid_date),
                         a.last_bidder, a.highest_bid, AsUnsigned(a.duration),
                         a.status>>
  BY DEF AuctionAccount, Stored
<1>2. Len(IDL!AuctionData) = 10 BY DEF IDL!AuctionData
<1>3. /\ f[0] = 8 /\ f[1] = 40 /\ f[2] = 72 /\ f[3] = 80 /\ f[4] = 88
      /\ f[5] = 96 /\ f[6] = 104 /\ f[7] = 136 /\ f[8] = 144 /\ f[9] = 152
      /\ f[10] = 160
  BY DEF FromStart, AuctionEnds
<1> HIDE DEF data, f, a
<1>4. ASSUME NEW k \in 1 .. 10 PROVE Slice(data, f[k - 1], f[k]) = data.values[k]
  <2>1. \A j \in 1 .. 10 : f[j] = f[k] => j = k BY <1>3
  <2>2. EndAt(data.fields, f) BY <1>1, AuctionLayout DEF f
  <2>3. Len(data.fields) = 10 BY <1>1, <1>2
  <2> QED BY <2>1, <2>2, <2>3, SliceOfField
<1>5. /\ Slice(data, 8, 40) = data.values[1]
      /\ Slice(data, 72, 80) = data.values[3]
      /\ Slice(data, 80, 88) = data.values[4]
      /\ Slice(data, 88, 96) = data.values[5]
      /\ Slice(data, 96, 104) = data.values[6]
      /\ Slice(data, 136, 144) = data.values[8]
      /\ Slice(data, 144, 152) = data.values[9]
      /\ Slice(data, 152, 160) = data.values[10]
  BY <1>3, <1>4
<1>6. /\ data.values[1] = m /\ data.values[3] = a.start_price
      /\ data.values[4] = a.min_increase_amount
      /\ data.values[5] = AsUnsigned(a.start_date)
      /\ data.values[6] = AsUnsigned(a.last_bid_date)
      /\ data.values[8] = a.highest_bid
      /\ data.values[9] = AsUnsigned(a.duration)
      /\ data.values[10] = a.status
  BY <1>1
<1> QED BY <1>5, <1>6 DEF data, a

\* A size tells the kind of an account, so that no scan cuts into another kind.
LEMMA SizesTellKinds ==
  /\ OfSize(SELL_DATA_SIZE) = {SellAccount(m) : m \in {x \in Mint : SellExists(x)}}
  /\ OfSize(OFFER_DATA_SIZE) =
        {OfferAccount(p[1], p[2]) :
            p \in {x \in Mint \X User : OfferExists(x[1], x[2])}}
  /\ OfSize(AUCTION_DATA_SIZE) =
        {AuctionAccount(m) : m \in {x \in Mint : AuctionExists(x)}}
<1> DEFINE Sells == {SellAccount(m) : m \in {x \in Mint : SellExists(x)}}
           Offers == {OfferAccount(p[1], p[2]) :
                        p \in {x \in Mint \X User : OfferExists(x[1], x[2])}}
           Auctions == {AuctionAccount(m) : m \in {x \in Mint : AuctionExists(x)}}
           Pools == {PoolAccount(u) : u \in {x \in User : PoolExists(x)}}
<1>1. \A data \in Sells : IDL!Size(data.fields) = 128
  <2>1. Len(IDL!SellData) = 6 /\ FromStart(SellEnds)[6] = 128
    BY DEF IDL!SellData, FromStart, SellEnds
  <2>2. IDL!Size(IDL!SellData) = 128
    BY <2>1, SellLayout DEF EndAt, IDL!Size
  <2>3. \A m : SellAccount(m).fields = IDL!SellData BY DEF SellAccount, Stored
  <2> QED BY <2>2, <2>3
<1>2. \A data \in Offers : IDL!Size(data.fields) = 96
  <2>1. Len(IDL!OfferData) = 5 /\ FromStart(OfferEnds)[5] = 96
    BY DEF IDL!OfferData, FromStart, OfferEnds
  <2>2. IDL!Size(IDL!OfferData) = 96
    BY <2>1, OfferLayout DEF EndAt, IDL!Size
  <2>3. \A m, u : OfferAccount(m, u).fields = IDL!OfferData
    BY DEF OfferAccount, Stored
  <2> QED BY <2>2, <2>3
<1>3. \A data \in Auctions : IDL!Size(data.fields) = 160
  <2>1. Len(IDL!AuctionData) = 10 /\ FromStart(AuctionEnds)[10] = 160
    BY DEF IDL!AuctionData, FromStart, AuctionEnds
  <2>2. IDL!Size(IDL!AuctionData) = 160
    BY <2>1, AuctionLayout DEF EndAt, IDL!Size
  <2>3. \A m : AuctionAccount(m).fields = IDL!AuctionData
    BY DEF AuctionAccount, Stored
  <2> QED BY <2>2, <2>3
<1>4. \A data \in Pools : IDL!Size(data.fields) = 56
  <2>1. Len(IDL!UserData) = 3 /\ FromStart(UserEnds)[3] = 56
    BY DEF IDL!UserData, FromStart, UserEnds
  <2>2. IDL!Size(IDL!UserData) = 56
    BY <2>1, UserLayout DEF EndAt, IDL!Size
  <2>3. \A u : PoolAccount(u).fields = IDL!UserData BY DEF PoolAccount, Stored
  <2> QED BY <2>2, <2>3
<1>5. ProgramAccounts = Sells \cup Auctions \cup Offers \cup Pools
  BY DEF ProgramAccounts
<1> HIDE DEF Sells, Offers, Auctions, Pools
<1>6. /\ OfSize(128) = Sells /\ OfSize(96) = Offers /\ OfSize(160) = Auctions
  BY <1>1, <1>2, <1>3, <1>4, <1>5 DEF OfSize
<1> QED
  BY <1>6 DEF SELL_DATA_SIZE, OFFER_DATA_SIZE, AUCTION_DATA_SIZE, Sells, Offers,
              Auctions

-----------------------------------------------------------------------------
(***************************************************************************)
(* What is active exists: the scans see every listing and every offer.     *)
(***************************************************************************)
RecordsExist ==
    /\ \A m \in Mint : Listed(m) => SellExists(m)
    /\ \A m \in Mint, u \in User : offer[m][u].active = 1 => OfferExists(m, u)

\* Listings and offers that are left alone, or end, stay as they are.
LEMMA RecordsStay ==
  ASSUME RecordsExist,
         \A m \in Mint : /\ sell'[m].mint = sell[m].mint
                         /\ sell'[m].active \in {0, sell[m].active},
         \A m \in Mint, u \in User :
            /\ offer'[m][u].mint = offer[m][u].mint
            /\ offer'[m][u].buyer = offer[m][u].buyer
            /\ offer'[m][u].active \in {0, offer[m][u].active}
  PROVE  RecordsExist'
BY DEF RecordsExist, Listed, SellExists, OfferExists

LEMMA EndListingRecords ==
  ASSUME TypeOK, NEW k \in Mint, EndListing(k)
  PROVE  \A m \in Mint : /\ sell'[m].mint = sell[m].mint
                         /\ sell'[m].active \in {0, sell[m].active}
BY DEF TypeOK, SellData, EndListing

LEMMA ListingRecords ==
  ASSUME TypeOK, RecordsExist, Listing
  PROVE  RecordsExist'
<1>1. sell \in [Mint -> SellData] BY DEF TypeOK
<1>2. PICK u \in User, k \in Mint :
         \/ \E price \in PriceInput : ListNftForSale(u, k, price)
         \/ DelistNft(u, k)
         \/ \E price \in PriceInput : SetPrice(u, k, price)
         \/ \E recipient \in User : TransferNft(u, recipient, k)
         \/ \E recipient \in User : TransferFromVault(u, recipient, k)
         \/ Purchase(u, k)
  BY DEF Listing
<1>3. offer' = offer
  BY <1>2 DEF ListNftForSale, DelistNft, SetPrice, TransferNft,
              TransferFromVault, Purchase, PurchaseNaming, accounts
<1>4. ASSUME NEW price, ListNftForSale(u, k, price) PROVE RecordsExist'
  BY <1>1, <1>3, <1>4
     DEF ListNftForSale, RecordsExist, Listed, SellExists, OfferExists
<1>5. CASE DelistNft(u, k)
  BY <1>1, <1>3, <1>5, RecordsStay DEF DelistNft, SellData
<1>6. ASSUME NEW price, SetPrice(u, k, price) PROVE RecordsExist'
  BY <1>1, <1>3, <1>6, RecordsStay DEF SetPrice, SellData
<1>7. ASSUME NEW recipient, TransferNft(u, recipient, k) PROVE RecordsExist'
  BY <1>3, <1>7, RecordsStay DEF TransferNft, accounts
<1>8. ASSUME NEW recipient, TransferFromVault(u, recipient, k)
      PROVE  RecordsExist'
  BY <1>3, <1>8, EndListingRecords, RecordsStay DEF TransferFromVault
<1>9. CASE Purchase(u, k)
  BY <1>3, <1>9, EndListingRecords, RecordsStay DEF Purchase, PurchaseNaming
<1> QED BY <1>2, <1>4, <1>5, <1>6, <1>7, <1>8, <1>9

LEMMA OfferingRecords ==
  ASSUME TypeOK, RecordsExist, Offering
  PROVE  RecordsExist'
<1>1. /\ offer \in [Mint -> [User -> OfferData]]
      /\ \A m \in Mint : offer[m] \in [User -> OfferData]
  BY DEF TypeOK
<1>2. ASSUME NEW u \in User, NEW k \in Mint, NEW price, MakeOffer(u, k, price)
      PROVE  RecordsExist'
  <2>1. sell' = sell /\ OfferExists(k, u)
    BY <1>2 DEF MakeOffer, MakeOfferAccounts
  <2>2. \A m \in Mint, x \in User :
           /\ offer'[m][x].mint = offer[m][x].mint
           /\ offer'[m][x].buyer = offer[m][x].buyer
           /\ \/ offer'[m][x].active = offer[m][x].active
              \/ m = k /\ x = u
    BY <1>1, <1>2 DEF MakeOffer, OfferData
  <2> QED BY <2>1, <2>2 DEF RecordsExist, Listed, SellExists, OfferExists
<1>3. ASSUME NEW u \in User, NEW k \in Mint, CancelOffer(u, k)
      PROVE  RecordsExist'
  BY <1>1, <1>3, RecordsStay DEF CancelOffer, OfferData
<1>4. ASSUME NEW u \in User, NEW buyer \in User, NEW k \in Mint,
             AcceptOffer(u, buyer, k)
      PROVE  RecordsExist'
  <2>1. \A m \in Mint, x \in User :
           /\ offer'[m][x].mint = offer[m][x].mint
           /\ offer'[m][x].buyer = offer[m][x].buyer
           /\ offer'[m][x].active \in {0, offer[m][x].active}
    BY <1>1, <1>4 DEF AcceptOffer, AcceptOfferNaming, OfferData
  <2>2. EndListing(k) BY <1>4 DEF AcceptOffer, AcceptOfferNaming
  <2> QED BY <2>1, <2>2, EndListingRecords, RecordsStay
<1> QED BY <1>2, <1>3, <1>4 DEF Offering

LEMMA AuctioningRecords ==
  ASSUME TypeOK, RecordsExist, Auctioning
  PROVE  RecordsExist'
<1>1. sell \in [Mint -> SellData] BY DEF TypeOK
<1>2. PICK u \in User, k \in Mint :
         \/ \E price \in PriceInput, min_increase \in MinIncreaseInput,
               duration \in DurationInput, reserved \in 0 .. 1 :
               CreateAuction(u, k, price, min_increase, duration, reserved)
         \/ \E price \in PriceInput : PlaceBid(u, k, price)
         \/ ClaimAuction(u, k)
         \/ \E price \in PriceInput : UpdateReserve(u, k, price)
         \/ CancelAuction(u, k)
  BY DEF Auctioning
<1>3. CASE \E price \in PriceInput : PlaceBid(u, k, price)
  BY <1>1, <1>3, RecordsStay DEF PlaceBid, PlaceBidRefunding, SellData
<1>4. CASE ~(\E price \in PriceInput : PlaceBid(u, k, price))
  <2>1. sell' = sell /\ offer' = offer
    BY <1>2, <1>4
       DEF CreateAuction, ClaimAuction, ClaimAuctionNaming, UpdateReserve,
           CancelAuction
  <2> QED BY <2>1, RecordsStay
<1> QED BY <1>3, <1>4

LEMMA RecordsStep ==
  ASSUME TypeOK, RecordsExist, [Next]_vars
  PROVE  RecordsExist'
<1>1. CASE sell' = sell /\ offer' = offer BY <1>1, RecordsStay
<1>2. CASE Creation
  <2>1. /\ sell \in [Mint -> SellData]
        /\ offer \in [Mint -> [User -> OfferData]]
        /\ \A m \in Mint : offer[m] \in [User -> OfferData]
    BY DEF TypeOK
  <2>2. ASSUME NEW k \in Mint, InitSellData(k) PROVE RecordsExist'
    BY <2>1, <2>2
       DEF InitSellData, RecordsExist, Listed, SellExists, OfferExists, SellData
  <2>3. ASSUME NEW u \in User, NEW k \in Mint, InitOfferData(u, k)
        PROVE  RecordsExist'
    <3>1. \A m \in Mint, x \in User :
             /\ offer'[m][x].active = offer[m][x].active
             /\ \/ offer'[m][x] = offer[m][x]
                \/ offer'[m][x].mint = m /\ offer'[m][x].buyer = x
      BY <2>1, <2>3 DEF InitOfferData, OfferData
    <3>2. sell' = sell BY <2>3 DEF InitOfferData
    <3> QED BY <3>1, <3>2 DEF RecordsExist, Listed, SellExists, OfferExists
  <2> QED
    BY <1>1, <1>2, <2>2, <2>3 DEF Creation, InitAuctionData, InitUserPool
<1> QED
  BY <1>1, <1>2, ListingRecords, OfferingRecords, AuctioningRecords
     DEF Next, vars, accounts, Tick, Administration, Escrow, DepositToEscrow,
         WithdrawFromEscrow

LEMMA RecordsAlwaysExist == Spec => []RecordsExist
<1>1. Init => RecordsExist
  BY DEF Init, NoSellData, NoOfferData, RecordsExist, Listed
<1>2. TypeOK /\ RecordsExist /\ [Next]_vars => RecordsExist' BY RecordsStep
<1> QED BY <1>1, <1>2, TypeCorrect, PTL DEF Spec

-----------------------------------------------------------------------------
(***************************************************************************)
(* What the scans show.                                                    *)
(***************************************************************************)
\* The numbers of what is on the market fit into a double.
ListingsReadable ==
    \A m \in Mint : Listed(m) =>
        sell[m].price_sol <= MaxSafe /\ AsUnsigned(sell[m].listed_date) <= MaxSafe

AuctionsReadable ==
    \A m \in Mint : AuctionOpen(m) =>
        LET a == auction[m]
        IN  /\ a.start_price <= MaxSafe /\ a.min_increase_amount <= MaxSafe
            /\ a.highest_bid <= MaxSafe
            /\ AsUnsigned(a.start_date) <= MaxSafe
            /\ AsUnsigned(a.last_bid_date) <= MaxSafe
            /\ AsUnsigned(a.duration) <= MaxSafe

OffersReadable ==
    \A m \in Mint, u \in User : offer[m][u].active = 1 =>
        /\ offer[m][u].offer_price <= MaxSafe
        /\ AsUnsigned(offer[m][u].offer_listing_date) <= MaxSafe

\* The scan of the listings answers with the mints of all listings, or not
\* at all; and it answers when their numbers fit.
LEMMA ListingsScanned ==
  ASSUME RecordsExist
  PROVE  /\ getAllListedNFTs \subseteq {{m \in Mint : Listed(m)}}
         /\ ListingsReadable => getAllListedNFTs # {}
<1> DEFINE found == {data \in OfSize(SELL_DATA_SIZE) : Slice(data, 120, 128) = 1}
           numbers == {<<104, 112>>, <<112, 120>>, <<120, 128>>}
<1>1. found = {SellAccount(m) : m \in {x \in Mint : Listed(x)}}
  BY SizesTellKinds, SellSlices DEF RecordsExist, Listed
<1> HIDE DEF found
<1>2. {Slice(data, 8, 40) : data \in found} = {m \in Mint : Listed(m)}
  BY <1>1, SellSlices
<1>3. getAllListedNFTs =
         {{Slice(data, 8, 40) : data \in f} : f \in Answer(found, numbers)}
  BY DEF getAllListedNFTs, found
<1>4. Answer(found, numbers) \subseteq {found} BY DEF Answer
<1>5. ASSUME ListingsReadable PROVE found \in Answer(found, numbers)
  <2>1. ASSUME NEW m \in Mint, Listed(m), NEW n \in numbers
        PROVE  Slice(SellAccount(m), n[1], n[2]) <= MaxSafe
    BY <1>5, <2>1, SellSlices, MaxSafeAssumption DEF ListingsReadable, Listed
  <2> QED BY <1>1, <2>1 DEF Answer
<1> HIDE DEF numbers
<1> QED BY <1>2, <1>3, <1>4, <1>5

\* The same of the auctions that are open for bids.
LEMMA AuctionsScanned ==
  ASSUME TypeOK, AuctionsExist
  PROVE  /\ getAllStartedAuctions \subseteq {{m \in Mint : AuctionOpen(m)}}
         /\ AuctionsReadable => getAllStartedAuctions # {}
<1> DEFINE found == {data \in OfSize(AUCTION_DATA_SIZE) :
                        Slice(data, 152, 160) \in {1, 3}}
           numbers == {<<72, 80>>, <<80, 88>>, <<88, 96>>, <<96, 104>>,
                       <<136, 144>>, <<144, 152>>, <<152, 160>>}
<1>1. found = {AuctionAccount(m) : m \in {x \in Mint : AuctionOpen(x)}}
  BY SizesTellKinds, AuctionSlices DEF AuctionsExist, AuctionOpen
<1> HIDE DEF found
<1>2. {Slice(data, 8, 40) : data \in found} = {m \in Mint : AuctionOpen(m)}
  BY <1>1, AuctionSlices
<1>3. getAllStartedAuctions =
         {{Slice(data, 8, 40) : data \in f} : f \in Answer(found, numbers)}
  BY DEF getAllStartedAuctions, found
<1>4. Answer(found, numbers) \subseteq {found} BY DEF Answer
<1>5. ASSUME AuctionsReadable PROVE found \in Answer(found, numbers)
  <2>1. ASSUME NEW m \in Mint, AuctionOpen(m), NEW n \in numbers
        PROVE  Slice(AuctionAccount(m), n[1], n[2]) <= MaxSafe
    BY <1>5, <2>1, AuctionSlices, MaxSafeAssumption
       DEF AuctionsReadable, AuctionOpen
  <2> QED BY <1>1, <2>1 DEF Answer
<1> HIDE DEF numbers
<1> QED BY <1>2, <1>3, <1>4, <1>5

\* And of the active offers for one NFT: the answer is their buyers.
LEMMA OffersScanned ==
  ASSUME RecordsExist, NEW m \in Mint
  PROVE  /\ getAllOffersForListedNFT(m)
               \subseteq {{u \in User : offer[m][u].active = 1}}
         /\ OffersReadable => getAllOffersForListedNFT(m) # {}
<1> DEFINE found == {data \in OfSize(OFFER_DATA_SIZE) :
                        Slice(data, 8, 40) = m /\ Slice(data, 88, 96) = 1}
           numbers == {<<72, 80>>, <<80, 88>>, <<88, 96>>}
<1>1. found = {OfferAccount(m, u) : u \in {x \in User : offer[m][x].active = 1}}
  <2>1. OfSize(OFFER_DATA_SIZE) =
           {OfferAccount(p[1], p[2]) :
               p \in {x \in Mint \X User : OfferExists(x[1], x[2])}}
    BY SizesTellKinds
  <2>2. ASSUME NEW data \in found
        PROVE  \E u \in User : offer[m][u].active = 1 /\ data = OfferAccount(m, u)
    <3>1. PICK k \in Mint, u \in User : data = OfferAccount(k, u) BY <2>1
    <3> QED BY <3>1, OfferSlices
  <2>3. ASSUME NEW u \in User, offer[m][u].active = 1
        PROVE  OfferAccount(m, u) \in found
    <3>1. OfferExists(m, u) BY <2>3 DEF RecordsExist
    <3> DEFINE p == <<m, u>>
    <3>2. p \in Mint \X User /\ p[1] = m /\ p[2] = u OBVIOUS
    <3> HIDE DEF p
    <3>3. OfferAccount(m, u) \in OfSize(OFFER_DATA_SIZE) BY <2>1, <3>1, <3>2
    <3> QED BY <2>3, <3>3, OfferSlices
  <2> HIDE DEF found
  <2> QED BY <2>2, <2>3
<1> HIDE DEF found
<1>2. {Slice(data, 40, 72) : data \in found} = {u \in User : offer[m][u].active = 1}
  BY <1>1, OfferSlices
<1>3. getAllOffersForListedNFT(m) =
         {{Slice(data, 40, 72) : data \in f} : f \in Answer(found, numbers)}
  BY DEF getAllOffersForListedNFT, found
<1>4. Answer(found, numbers) \subseteq {found} BY DEF Answer
<1>5. ASSUME OffersReadable PROVE found \in Answer(found, numbers)
  <2>1. ASSUME NEW u \in User, offer[m][u].active = 1, NEW n \in numbers
        PROVE  Slice(OfferAccount(m, u), n[1], n[2]) <= MaxSafe
    BY <1>5, <2>1, OfferSlices, MaxSafeAssumption DEF OffersReadable
  <2> QED BY <1>1, <2>1 DEF Answer
<1> HIDE DEF numbers
<1> QED BY <1>2, <1>3, <1>4, <1>5

\* In every build, and whatever the numbers: when both scans answer, their
\* listings and auctions together are the NFTs in escrow.
THEOREM ScansShowEscrow ==
  Spec => [](\A listed \in getAllListedNFTs, started \in getAllStartedAuctions :
                listed \cup started = {m \in Mint : holder[m] = GlobalAuthority})
<1>1. TypeOK /\ CustodyInv /\ AuctionsExist /\ RecordsExist =>
         \A listed \in getAllListedNFTs, started \in getAllStartedAuctions :
            listed \cup started = {m \in Mint : holder[m] = GlobalAuthority}
  BY ListingsScanned, AuctionsScanned DEF CustodyInv, EscrowCustody
<1> QED
  BY <1>1, TypeCorrect, CustodyHolds, AuctionsAlwaysExist, RecordsAlwaysExist, PTL

-----------------------------------------------------------------------------
(***************************************************************************)
(* The scans answer as long as everybody types numbers that fit.           *)
(***************************************************************************)
Readable == 0 .. MaxSafe

InputsReadable ==
    /\ PriceInput \subseteq Readable /\ MinIncreaseInput \subseteq Readable
    /\ DurationInput \subseteq Readable
    /\ StartTime \in Readable /\ MaxTime <= MaxSafe

ReadableSell(s) == s.price_sol \in Readable /\ s.listed_date \in Readable

ReadableOffer(o) == o.offer_price \in Readable /\ o.offer_listing_date \in Readable

ReadableAuction(a) ==
    /\ a.start_price \in Readable /\ a.min_increase_amount \in Readable
    /\ a.start_date \in Readable /\ a.last_bid_date \in Readable
    /\ a.duration \in Readable
    /\ OverflowChecks => a.highest_bid \in Readable

NumbersReadable ==
    /\ now \in Readable
    /\ \A m \in Mint : ReadableSell(sell[m]) /\ ReadableAuction(auction[m])
    /\ \A m \in Mint, u \in User : ReadableOffer(offer[m][u])

LEMMA EndListingReadable ==
  ASSUME TypeOK, NumbersReadable, NEW k \in Mint, EndListing(k)
  PROVE  \A m \in Mint : ReadableSell(sell'[m]) /\ ReadableAuction(auction'[m])
<1>1. sell \in [Mint -> SellData] /\ auction \in [Mint -> AuctionData]
  BY DEF TypeOK
<1>2. \A m \in Mint : ReadableSell(sell'[m])
  BY <1>1 DEF NumbersReadable, EndListing, ReadableSell, SellData
<1>3. \A m \in Mint : ReadableAuction(auction'[m])
  BY <1>1 DEF NumbersReadable, EndListing, ReadableAuction, AuctionData
<1> QED BY <1>2, <1>3

LEMMA CreationReadable ==
  ASSUME TypeOK, NumbersReadable, Creation
  PROVE  NumbersReadable'
<1>1. /\ sell \in [Mint -> SellData] /\ auction \in [Mint -> AuctionData]
      /\ offer \in [Mint -> [User -> OfferData]]
      /\ \A m \in Mint : offer[m] \in [User -> OfferData]
  BY DEF TypeOK
<1>2. ASSUME NEW k \in Mint, InitSellData(k) PROVE NumbersReadable'
  BY <1>1, <1>2 DEF InitSellData, NumbersReadable, ReadableSell, SellData
<1>3. ASSUME NEW k \in Mint, InitAuctionData(k) PROVE NumbersReadable'
  BY <1>1, <1>3 DEF InitAuctionData, NumbersReadable, ReadableAuction, AuctionData
<1>4. ASSUME NEW u \in User, InitUserPool(u) PROVE NumbersReadable'
  BY <1>4 DEF InitUserPool, NumbersReadable
<1>5. ASSUME NEW u \in User, NEW k \in Mint, InitOfferData(u, k)
      PROVE  NumbersReadable'
  BY <1>1, <1>5 DEF InitOfferData, NumbersReadable, ReadableOffer, OfferData
<1> QED BY <1>2, <1>3, <1>4, <1>5 DEF Creation

LEMMA ListingReadable ==
  ASSUME TypeOK, InputsReadable, NumbersReadable, Listing
  PROVE  NumbersReadable'
<1>1. sell \in [Mint -> SellData] BY DEF TypeOK
<1>2. PICK u \in User, k \in Mint :
         \/ \E price \in PriceInput : ListNftForSale(u, k, price)
         \/ DelistNft(u, k)
         \/ \E price \in PriceInput : SetPrice(u, k, price)
         \/ \E recipient \in User : TransferNft(u, recipient, k)
         \/ \E recipient \in User : TransferFromVault(u, recipient, k)
         \/ Purchase(u, k)
  BY DEF Listing
<1>3. offer' = offer /\ now' = now
  BY <1>2 DEF ListNftForSale, DelistNft, SetPrice, TransferNft,
              TransferFromVault, Purchase, PurchaseNaming, accounts
<1>4. ASSUME NEW price \in PriceInput, ListNftForSale(u, k, price)
      PROVE  NumbersReadable'
  BY <1>1, <1>3, <1>4
     DEF ListNftForSale, NumbersReadable, ReadableSell, InputsReadable
<1>5. CASE DelistNft(u, k)
  BY <1>1, <1>3, <1>5 DEF DelistNft, NumbersReadable, ReadableSell, SellData
<1>6. ASSUME NEW price \in PriceInput, SetPrice(u, k, price)
      PROVE  NumbersReadable'
  BY <1>1, <1>3, <1>6
     DEF SetPrice, NumbersReadable, ReadableSell, InputsReadable, SellData
<1>7. ASSUME NEW recipient, TransferNft(u, recipient, k) PROVE NumbersReadable'
  BY <1>7 DEF TransferNft, NumbersReadable, accounts
<1>8. ASSUME EndListing(k) PROVE NumbersReadable'
  BY <1>3, <1>8, EndListingReadable DEF NumbersReadable
<1> QED
  BY <1>2, <1>4, <1>5, <1>6, <1>7, <1>8
     DEF TransferFromVault, Purchase, PurchaseNaming

LEMMA OfferingReadable ==
  ASSUME TypeOK, InputsReadable, NumbersReadable, Offering
  PROVE  NumbersReadable'
<1>1. /\ offer \in [Mint -> [User -> OfferData]]
      /\ \A m \in Mint : offer[m] \in [User -> OfferData]
  BY DEF TypeOK
<1>2. ASSUME NEW u \in User, NEW k \in Mint, NEW price \in PriceInput,
             MakeOffer(u, k, price)
      PROVE  NumbersReadable'
  <2>1. UNCHANGED <<now, sell, auction>> /\ ReadableSell(sell[k])
    BY <1>2 DEF MakeOffer, NumbersReadable
  <2>2. \A m \in Mint, x \in User : ReadableOffer(offer'[m][x])
    BY <1>1, <1>2, <2>1
       DEF MakeOffer, NumbersReadable, ReadableOffer, ReadableSell,
           InputsReadable, OfferData
  <2> QED BY <2>1, <2>2 DEF NumbersReadable
<1>3. ASSUME NEW u \in User, NEW k \in Mint, CancelOffer(u, k)
      PROVE  NumbersReadable'
  BY <1>1, <1>3 DEF CancelOffer, NumbersReadable, ReadableOffer, OfferData
<1>4. ASSUME NEW u \in User, NEW buyer \in User, NEW k \in Mint,
             AcceptOffer(u, buyer, k)
      PROVE  NumbersReadable'
  <2>1. \A m \in Mint, x \in User : ReadableOffer(offer'[m][x])
    BY <1>1, <1>4
       DEF AcceptOffer, AcceptOfferNaming, NumbersReadable, ReadableOffer,
           OfferData
  <2>2. EndListing(k) /\ now' = now BY <1>4 DEF AcceptOffer, AcceptOfferNaming
  <2> QED BY <2>1, <2>2, EndListingReadable DEF NumbersReadable
<1> QED BY <1>2, <1>3, <1>4 DEF Offering

LEMMA AuctioningReadable ==
  ASSUME TypeOK, InputsReadable, NumbersReadable, Auctioning
  PROVE  NumbersReadable'
<1>1. sell \in [Mint -> SellData] /\ auction \in [Mint -> AuctionData]
  BY DEF TypeOK
<1>2. PICK u \in User, k \in Mint :
         \/ \E price \in PriceInput, min_increase \in MinIncreaseInput,
               duration \in DurationInput, reserved \in 0 .. 1 :
               CreateAuction(u, k, price, min_increase, duration, reserved)
         \/ \E price \in PriceInput : PlaceBid(u, k, price)
         \/ ClaimAuction(u, k)
         \/ \E price \in PriceInput : UpdateReserve(u, k, price)
         \/ CancelAuction(u, k)
  BY DEF Auctioning
<1>3. ASSUME offer' = offer, now' = now, NEW b,
             auction' = [auction EXCEPT ![k] = b], ReadableAuction(b),
             \A m \in Mint : ReadableSell(sell'[m])
      PROVE  NumbersReadable'
  BY <1>1, <1>3 DEF NumbersReadable
<1>4. ASSUME NEW price \in PriceInput, NEW min_increase \in MinIncreaseInput,
             NEW duration \in DurationInput, NEW reserved,
             CreateAuction(u, k, price, min_increase, duration, reserved)
      PROVE  NumbersReadable'
  <2>1. OverflowChecks => Wrapped(price - min_increase) \in Readable
    <3>1. OverflowChecks => price - min_increase \in U64
      BY <1>4 DEF CreateAuction, Computes
    <3>2. price \in Readable /\ min_increase \in Readable
      BY DEF InputsReadable
    <3> QED
      BY <3>1, <3>2, IntegersAssumption, MaxSafeAssumption
         DEF Wrapped, U64, Readable
  <2>2. ReadableAuction(NewAuction(auction[k], u, price, min_increase, duration,
                                   reserved))
    BY <1>1, <2>1
       DEF NewAuction, ReadableAuction, NumbersReadable, InputsReadable,
           AuctionData
  <2> QED BY <1>3, <1>4, <2>2 DEF CreateAuction, NumbersReadable
<1>5. ASSUME NEW price \in PriceInput, PlaceBid(u, k, price)
      PROVE  NumbersReadable'
  <2>1. ReadableAuction(AfterBid(auction[k], u, price))
    BY <1>1
       DEF AfterBid, ReadableAuction, NumbersReadable, InputsReadable,
           AuctionData
  <2>2. \A m \in Mint : ReadableSell(sell'[m])
    BY <1>1, <1>5
       DEF PlaceBid, PlaceBidRefunding, NumbersReadable, ReadableSell, SellData
  <2> QED BY <1>3, <1>5, <2>1, <2>2 DEF PlaceBid, PlaceBidRefunding
<1>6. CASE ClaimAuction(u, k)
  <2>1. \A m \in Mint : ReadableAuction(auction'[m])
    BY <1>1, <1>6
       DEF ClaimAuction, ClaimAuctionNaming, NumbersReadable, ReadableAuction,
           AuctionData
  <2> QED BY <1>6, <2>1 DEF ClaimAuction, ClaimAuctionNaming, NumbersReadable
<1>7. ASSUME NEW price \in PriceInput, UpdateReserve(u, k, price)
      PROVE  NumbersReadable'
  <2>1. \A m \in Mint : ReadableAuction(auction'[m])
    BY <1>1, <1>7
       DEF UpdateReserve, NumbersReadable, ReadableAuction, InputsReadable,
           AuctionData
  <2> QED BY <1>7, <2>1 DEF UpdateReserve, NumbersReadable
<1>8. CASE CancelAuction(u, k)
  <2>1. \A m \in Mint : ReadableAuction(auction'[m])
    BY <1>1, <1>8
       DEF CancelAuction, NumbersReadable, ReadableAuction, AuctionData
  <2> QED BY <1>8, <2>1 DEF CancelAuction, NumbersReadable
<1> QED BY <1>2, <1>4, <1>5, <1>6, <1>7, <1>8

LEMMA ReadableStep ==
  ASSUME TypeOK, InputsReadable, NumbersReadable, [Next]_vars
  PROVE  NumbersReadable'
<1>1. CASE UNCHANGED <<now, sell, offer, auction>>
  BY <1>1 DEF NumbersReadable
<1>2. CASE Tick
  BY <1>2, MaxSafeAssumption, MarketInputAssumption
     DEF Tick, accounts, NumbersReadable, Readable, InputsReadable, I64
<1> QED
  BY <1>1, <1>2, CreationReadable, ListingReadable, OfferingReadable,
     AuctioningReadable
     DEF Next, vars, accounts, Administration, Escrow, DepositToEscrow,
         WithdrawFromEscrow

LEMMA NumbersStayReadable == ASSUME InputsReadable PROVE Spec => []NumbersReadable
<1>1. Init => NumbersReadable
  BY MaxSafeAssumption
     DEF Init, InputsReadable, NumbersReadable, Readable, ReadableSell,
         ReadableOffer, ReadableAuction, NoSellData, NoOfferData, NoAuctionData
<1>2. TypeOK /\ NumbersReadable /\ [Next]_vars => NumbersReadable'
  BY ReadableStep
<1> QED BY <1>1, <1>2, TypeCorrect, PTL DEF Spec

\* A date that is not before 1970 reads as it is.
LEMMA DateUnsigned ==
  ASSUME NEW x \in I64, x \in Readable
  PROVE  AsUnsigned(x) <= MaxSafe
BY IntegersAssumption, MaxSafeAssumption DEF I64, Readable, AsUnsigned

LEMMA ReadableMarket ==
  ASSUME TypeOK, NumbersReadable
  PROVE  /\ ListingsReadable /\ OffersReadable
         /\ OverflowChecks => AuctionsReadable
<1>1. ListingsReadable
  BY DateUnsigned, MaxSafeAssumption
     DEF TypeOK, SellData, NumbersReadable, ReadableSell, ListingsReadable,
         Readable
<1>2. OffersReadable
  BY DateUnsigned, MaxSafeAssumption
     DEF TypeOK, OfferData, NumbersReadable, ReadableOffer, OffersReadable,
         Readable
<1>3. OverflowChecks => AuctionsReadable
  BY DateUnsigned, MaxSafeAssumption
     DEF TypeOK, AuctionData, NumbersReadable, ReadableAuction,
         AuctionsReadable, Readable
<1> QED BY <1>1, <1>2, <1>3

\* The two scans together show exactly the NFTs in escrow.  Unchecked, a
\* minimum increase above a start price would leave a highest bid that no
\* double holds, and the scan of the auctions would reject.
THEOREM EscrowStaysVisible ==
  ASSUME OverflowChecks, InputsReadable
  PROVE  Spec => []EscrowIsVisible
<1>1. ASSUME TypeOK, CustodyInv, AuctionsExist, RecordsExist, NumbersReadable
      PROVE  EscrowIsVisible
  <2>1. getAllListedNFTs # {} /\ getAllStartedAuctions # {}
    BY <1>1, ReadableMarket, ListingsScanned, AuctionsScanned
  <2> QED
    BY <1>1, <2>1, ListingsScanned, AuctionsScanned
       DEF EscrowIsVisible, CustodyInv, EscrowCustody
<1> QED
  BY <1>1, TypeCorrect, CustodyHolds, AuctionsAlwaysExist, RecordsAlwaysExist,
     NumbersStayReadable, PTL

\* The scan of the offers for an NFT answers, with every buyer whose offer
\* the seller could accept, in every build.
THEOREM AcceptableOffersStayShown ==
  ASSUME InputsReadable
  PROVE  Spec => []AcceptableOffersShown
<1>1. ASSUME TypeOK, RecordsExist, NumbersReadable
      PROVE  AcceptableOffersShown
  BY <1>1, ReadableMarket, OffersScanned DEF AcceptableOffersShown, OfferStands
<1> QED BY <1>1, TypeCorrect, RecordsAlwaysExist, NumbersStayReadable, PTL

-----------------------------------------------------------------------------
(***************************************************************************)
(* The parser of the back end.  Its interface is the program's, once more. *)
(***************************************************************************)
\* The arguments of an instruction, and where they end.
LEMMA ParserLayout ==
  ASSUME NEW fields, NEW n \in Nat, Len(fields) = n, DOMAIN fields = 1 .. n,
         NEW f \in [0 .. n -> Nat], f[0] = 8,
         \A k \in 1 .. n : f[k] = f[k - 1] + BE!IDL!Width(fields[k][2])
  PROVE  \A k \in 0 .. n : BE!IDL!Ends(fields)[k] = f[k]
<1>1. f[0] = IDL!Discriminator BY DEF IDL!Discriminator
<1>2. \A k \in 1 .. n : f[k] = f[k - 1] + IDL!Width(fields[k][2])
  BY DEF IDL!Width, BE!IDL!Width
<1>3. EndAt(fields, f) BY <1>1, <1>2, EndsAddUp
<1>4. IDL!Ends(fields) = BE!IDL!Ends(fields)
  BY DEF BE!IDL!Ends, IDL!Ends, BE!IDL!Width, IDL!Width, BE!IDL!Discriminator,
         IDL!Discriminator
<1> QED BY <1>3, <1>4 DEF EndAt

\* The last argument is a number of eight bytes, behind bumps of one.
BumpsThenNumber(fields, n) ==
    /\ Len(fields) = n /\ DOMAIN fields = 1 .. n
    /\ \A k \in 1 .. n - 1 : fields[k][2] = "u8"
    /\ fields[n][2] = "u64"
    /\ \A j, k \in 1 .. n : fields[j][1] = fields[k][1] => j = k

LEMMA NumberExtent ==
  ASSUME NEW fields, NEW n \in Nat, n > 0, BumpsThenNumber(fields, n)
  PROVE  /\ \A k \in 1 .. n :
               BE!IDL!Extent(fields, fields[k][1]) = <<n + 7, n + 15>> <=> k = n
         /\ BE!IDL!Size(fields) = n + 15
<1> DEFINE f == [k \in 0 .. n |-> IF k < n THEN 8 + k ELSE n + 15]
<1> USE DEF BumpsThenNumber
<1>1. f \in [0 .. n -> Nat] /\ f[0] = 8 OBVIOUS
<1>2. ASSUME NEW k \in 1 .. n
      PROVE  f[k] = f[k - 1] + BE!IDL!Width(fields[k][2])
  <2>1. CASE k \in 1 .. n - 1 BY <2>1 DEF BE!IDL!Width
  <2>2. CASE k = n BY <2>2 DEF BE!IDL!Width
  <2> QED BY <2>1, <2>2
<1>3. \A k \in 0 .. n : BE!IDL!Ends(fields)[k] = f[k]
  <2>1. \A k \in 1 .. n : f[k] = f[k - 1] + BE!IDL!Width(fields[k][2]) BY <1>2
  <2>2. Len(fields) = n /\ DOMAIN fields = 1 .. n OBVIOUS
  <2> HIDE DEF f, BumpsThenNumber
  <2> QED BY <1>1, <2>1, <2>2, ParserLayout
<1>4. ASSUME NEW k \in 1 .. n
      PROVE  BE!IDL!Extent(fields, fields[k][1]) = <<f[k - 1], f[k]>>
  <2>1. (CHOOSE j \in DOMAIN fields : fields[j][1] = fields[k][1]) = k OBVIOUS
  <2> HIDE DEF f
  <2> QED BY <1>3, <2>1 DEF BE!IDL!Extent, BE!IDL!Offset
<1>5. BE!IDL!Size(fields) = n + 15 BY <1>3 DEF BE!IDL!Size
<1>6. ASSUME NEW k \in 1 .. n
      PROVE  <<f[k - 1], f[k]>> = <<n + 7, n + 15>> <=> k = n
  OBVIOUS
<1> QED BY <1>4, <1>5, <1>6

\* Nothing but bumps.
Bumps(fields, n) ==
    /\ Len(fields) = n /\ DOMAIN fields = 1 .. n
    /\ \A k \in 1 .. n : fields[k][2] = "u8"

LEMMA BumpsSize ==
  ASSUME NEW fields, NEW n \in Nat, Bumps(fields, n)
  PROVE  BE!IDL!Size(fields) = n + 8
<1> USE DEF Bumps
<1> DEFINE f == [k \in 0 .. n |-> 8 + k]
<1>1. f \in [0 .. n -> Nat] /\ f[0] = 8 OBVIOUS
<1>2. \A k \in 1 .. n : f[k] = f[k - 1] + BE!IDL!Width(fields[k][2])
  BY DEF BE!IDL!Width
<1>3. \A k \in 0 .. n : BE!IDL!Ends(fields)[k] = f[k]
  <2> HIDE DEF f
  <2> QED BY <1>1, <1>2, ParserLayout
<1> QED BY <1>3 DEF BE!IDL!Size

\* The trades have nonces that their bytes begin with.
LEMMA TradesKnown ==
  ASSUME NEW i, i.data # BE!NoData, i.data.ix \in Trades
  PROVE  BE!Known(i)
<1> DEFINE fields(ix) == BE!IDL!instructions[ix].args
<1>1. BE!Prefix("purchase") = <<"purchase", 4>>
  <2> DEFINE s == fields("purchase")
  <2>1. Bumps(s, 4)
    BY DEF Bumps, BE!IDL!instructions, BE!IDL!purchase, BE!IDL!Instruction, BE!IDL!U8
  <2> HIDE DEF s
  <2>2. BE!IDL!Size(s) = 4 + 8 BY <2>1, 4 \in Nat, BumpsSize
  <2> QED BY <2>2 DEF s, BE!Prefix, BE!IDL!Discriminator
<1>2. BE!Prefix("acceptOffer") = <<"acceptOffer", 6>>
  <2> DEFINE s == fields("acceptOffer")
  <2>1. Bumps(s, 6)
    BY DEF Bumps, BE!IDL!instructions, BE!IDL!acceptOffer, BE!IDL!Instruction, BE!IDL!U8
  <2> HIDE DEF s
  <2>2. BE!IDL!Size(s) = 6 + 8 BY <2>1, 6 \in Nat, BumpsSize
  <2> QED BY <2>2 DEF s, BE!Prefix, BE!IDL!Discriminator
<1>3. BE!Prefix("claimAuction") = <<"claimAuction", 3>>
  <2> DEFINE s == fields("claimAuction")
  <2>1. Bumps(s, 3)
    BY DEF Bumps, BE!IDL!instructions, BE!IDL!claimAuction, BE!IDL!Instruction, BE!IDL!U8
  <2> HIDE DEF s
  <2>2. BE!IDL!Size(s) = 3 + 8 BY <2>1, 3 \in Nat, BumpsSize
  <2> QED BY <2>2 DEF s, BE!Prefix, BE!IDL!Discriminator
<1>4. BE!Prefix("placeBid") = <<"placeBid", 10>>
  <2> DEFINE s == fields("placeBid")
  <2>1. BumpsThenNumber(s, 3)
    BY DEF BumpsThenNumber, BE!IDL!instructions, BE!IDL!placeBid,
           BE!IDL!Instruction, BE!IDL!U8, BE!IDL!U64
  <2> HIDE DEF s
  <2>2. BE!IDL!Size(s) = 3 + 15 BY <2>1, 3 \in Nat, 3 > 0, NumberExtent
  <2> QED BY <2>2 DEF s, BE!Prefix, BE!IDL!Discriminator
<1>5. BE!Prefix("makeOffer") = <<"makeOffer", 12>>
  <2> DEFINE s == fields("makeOffer")
  <2>1. BumpsThenNumber(s, 5)
    BY DEF BumpsThenNumber, BE!IDL!instructions, BE!IDL!makeOffer,
           BE!IDL!Instruction, BE!IDL!U8, BE!IDL!U64
  <2> HIDE DEF s
  <2>2. BE!IDL!Size(s) = 5 + 15 BY <2>1, 5 \in Nat, 5 > 0, NumberExtent
  <2> QED BY <2>2 DEF s, BE!Prefix, BE!IDL!Discriminator
<1>6. \E j \in DOMAIN BE!nonce : BE!nonce[j] = BE!Prefix(i.data.ix)
  <2>1. {11, 15, 17, 20, 21} \subseteq DOMAIN BE!nonce BY DEF BE!nonce
  <2>2. /\ BE!nonce[11] = <<"purchase", 4>> /\ BE!nonce[17] = <<"acceptOffer", 6>>
        /\ BE!nonce[21] = <<"claimAuction", 3>> /\ BE!nonce[20] = <<"placeBid", 10>>
        /\ BE!nonce[15] = <<"makeOffer", 12>>
    BY DEF BE!nonce
  <2> QED BY <1>1, <1>2, <1>3, <1>4, <1>5, <2>1, <2>2 DEF Trades
<1> QED BY <1>6 DEF BE!Known

\* What is cut out of the others' bytes is their only number.
LEMMA NumberCutOut ==
  ASSUME NEW i, NEW fields, NEW n \in Nat, n > 0, BumpsThenNumber(fields, n),
         fields = BE!IDL!instructions[i.data.ix].args
  PROVE  BE!Argument(i, n + 7, n + 15) = i.data.args[fields[n][1]]
<1>1. \A k \in 1 .. n :
         BE!IDL!Extent(fields, fields[k][1]) = <<n + 7, n + 15>> <=> k = n
  BY NumberExtent
<1>2. (CHOOSE k \in DOMAIN fields :
          BE!IDL!Extent(fields, fields[k][1]) = <<n + 7, n + 15>>) = n
  BY <1>1 DEF BumpsThenNumber
<1> QED BY <1>2 DEF BE!Argument

LEMMA NumbersCutOut ==
  ASSUME NEW i
  PROVE  /\ i.data.ix \in {"depositToEscrow", "withdrawFromEscrow"} =>
               BE!Argument(i, 10, 18) = i.data.args.sol
         /\ i.data.ix \in {"setPrice", "updateReserve"} =>
               BE!Argument(i, 9, 17) = i.data.args.price
<1> DEFINE s == BE!IDL!instructions[i.data.ix].args
<1>1. ASSUME i.data.ix \in {"depositToEscrow", "withdrawFromEscrow"}
      PROVE  BE!Argument(i, 10, 18) = i.data.args.sol
  <2>1. BumpsThenNumber(s, 3) /\ s[3][1] = "sol"
    BY <1>1 DEF BumpsThenNumber, BE!IDL!instructions, BE!IDL!depositToEscrow,
                BE!IDL!withdrawFromEscrow, BE!IDL!Instruction, BE!IDL!U8, BE!IDL!U64
  <2> HIDE DEF s
  <2>2. s = BE!IDL!instructions[i.data.ix].args BY DEF s
  <2>3. BE!Argument(i, 3 + 7, 3 + 15) = i.data.args[s[3][1]]
    BY <2>1, <2>2, 3 \in Nat, 3 > 0, NumberCutOut
  <2> QED BY <2>1, <2>3
<1>2. ASSUME i.data.ix \in {"setPrice", "updateReserve"}
      PROVE  BE!Argument(i, 9, 17) = i.data.args.price
  <2>1. BumpsThenNumber(s, 2) /\ s[2][1] = "price"
    BY <1>2 DEF BumpsThenNumber, BE!IDL!instructions, BE!IDL!setPrice,
                BE!IDL!updateReserve, BE!IDL!Instruction, BE!IDL!U8, BE!IDL!U64
  <2> HIDE DEF s
  <2>2. s = BE!IDL!instructions[i.data.ix].args BY DEF s
  <2>3. BE!Argument(i, 2 + 7, 2 + 15) = i.data.args[s[2][1]]
    BY <2>1, <2>2, 2 \in Nat, 2 > 0, NumberCutOut
  <2> QED BY <2>1, <2>3
<1> QED BY <1>1, <1>2

-----------------------------------------------------------------------------
\* The instruction of a transaction, behind the creation of a token account.
Main(tx) ==
    [data |-> [ix |-> tx.ix, args |-> tx.args], accounts |-> AccountKeys(tx)]

Inner(tx) == IF CallsOut(tx) THEN {LamportTransfers(tx)} ELSE {}

Behind(s, n, e, x) ==
    /\ DOMAIN s = 1 .. n + 1 /\ s[n + 1] = x
    /\ \A k \in 1 .. n : s[k] = e

LEMMA BehindCreations ==
  ASSUME NEW n \in {0, 1}, NEW e, NEW x, NEW s, s = [k \in 1 .. n |-> e] \o <<x>>
  PROVE  Behind(s, n, e, x)
<1> DEFINE a == [k \in 1 .. n |-> e]
           b == <<x>>
           S == {e, x}
<1>1. a \in Seq(S) /\ Len(a) = n OBVIOUS
<1>2. b \in Seq(S) /\ Len(b) = 1 /\ b[1] = x OBVIOUS
<1>3. DOMAIN a = 1 .. n /\ \A k \in 1 .. n : a[k] = e OBVIOUS
<1>4. s = a \o b OBVIOUS
<1> HIDE DEF a, b, S
<1>5. Joined(s, a, b) BY <1>1, <1>2, <1>4, ConcatJoins
<1>6. DOMAIN s = 1 .. n + 1 BY <1>1, <1>2, <1>5 DEF Joined
<1>7. s[n + 1] = x BY <1>1, <1>2, <1>5 DEF Joined
<1>8. \A k \in 1 .. n : s[k] = e BY <1>1, <1>2, <1>3, <1>5 DEF Joined
<1> QED BY <1>6, <1>7, <1>8 DEF Behind

\* The instruction is the first the parser may know, and its calls are found
\* where it looks for them.
LEMMA ParserReads ==
  ASSUME NEW tx, NEW n \in {0, 1}, n = Cardinality(tx.creates),
         CallsOut(tx) \/ n = 0
  PROVE  BE!getDataFromSignature(Parsed(tx)) =
            IF BE!Known(Main(tx)) THEN BE!ActivityIn(Main(tx), Inner(tx))
            ELSE {BE!Undefined}
<1> DEFINE e == [data |-> BE!NoData, accounts |-> <<>>]
           p == Parsed(tx)
<1>1. PICK s : s = p.instructions OBVIOUS
<1>2. PICK inner : inner = p.inner OBVIOUS
<1> DEFINE known == {k \in DOMAIN s : BE!Known(s[k])}
           ixId == CHOOSE k \in known : \A j \in known : k <= j
           innerIx == IF ixId \in DOMAIN inner THEN {inner[ixId]} ELSE {}
<1>3. s = [k \in 1 .. n |-> e] \o <<Main(tx)>>
  BY <1>1 DEF Parsed, Instructions, Main
<1>4. /\ DOMAIN s = 1 .. n + 1 /\ s[n + 1] = Main(tx)
      /\ \A k \in 1 .. n : s[k] = e
  <2>1. PICK x : x = Main(tx) OBVIOUS
  <2>2. PICK y : y = e OBVIOUS
  <2> HIDE DEF e
  <2>3. s = [k \in 1 .. n |-> y] \o <<x>> BY <1>3, <2>1, <2>2
  <2>4. Behind(s, n, y, x) BY <2>3, BehindCreations
  <2> QED BY <2>1, <2>2, <2>4 DEF Behind
<1>5. \A k \in 1 .. n : ~BE!Known(s[k]) BY <1>4 DEF BE!Known
<1>6. known = IF BE!Known(Main(tx)) THEN {n + 1} ELSE {}
  BY <1>4, <1>5
<1>7. ASSUME BE!Known(Main(tx))
      PROVE  /\ ixId = n + 1 /\ innerIx = Inner(tx)
             /\ inner = <<>> \/ innerIx # {}
  <2>1. ixId = n + 1
    <3> HIDE DEF known
    <3> QED BY <1>6, <1>7
  <2> HIDE DEF ixId
  <2>2. CASE CallsOut(tx)
    <3>1. PICK calls : calls = LamportTransfers(tx) OBVIOUS
    <3>2. inner = [k \in 1 .. n |-> <<>>] \o <<calls>>
      BY <1>2, <2>2, <3>1 DEF Parsed, Creations
    <3>3. Behind(inner, n, <<>>, calls) BY <3>2, BehindCreations
    <3> QED BY <2>1, <2>2, <3>1, <3>3 DEF Behind, Inner
  <2>3. CASE ~CallsOut(tx)
    <3>1. n = 0 BY <2>3
    <3>2. inner = [k \in 1 .. n |-> <<>>] \o <<>>
      BY <1>2, <2>3 DEF Parsed, Creations
    <3>3. [k \in 1 .. n |-> <<>>] = <<>> BY <3>1
    <3>4. inner = <<>> BY <3>2, <3>3
    <3>5. innerIx = {} /\ Inner(tx) = {} BY <2>3, <3>4 DEF Inner
    <3> QED BY <2>1, <3>4, <3>5
  <2> QED BY <2>2, <2>3
<1>8. BE!getDataFromSignature(p) =
         IF known = {} THEN {BE!Undefined}
         ELSE IF inner # <<>> /\ innerIx = {} THEN {}
         ELSE BE!ActivityIn(s[ixId], innerIx)
  BY <1>1, <1>2 DEF BE!getDataFromSignature
<1> HIDE DEF known, ixId, innerIx
<1> QED BY <1>4, <1>6, <1>7, <1>8

\* The keys travel in the order of the interface.
Keyed(tx, n, name) ==
    name \in DOMAIN tx.accounts /\ BE!Key(Main(tx), n) = tx.accounts[name]

LEMMA KeyNamed ==
  ASSUME NEW tx, AccountsNeeded(tx.ix) \subseteq DOMAIN tx.accounts,
         NEW n, n + 1 \in DOMAIN AccountNames(tx.ix),
         NEW name, name = AccountNames(tx.ix)[n + 1], name \notin FixedAccounts
  PROVE  Keyed(tx, n, name)
BY DEF Keyed, Main, AccountKeys, AccountsNeeded, BE!Key

LEMMA FirstKey ==
  ASSUME NEW tx, 1 \in DOMAIN AccountNames(tx.ix),
         AccountNames(tx.ix)[1] \in DOMAIN tx.accounts
  PROVE  BE!Signer(Main(tx)) = Signer(tx) /\ BE!Key(Main(tx), 0) = Signer(tx)
BY DEF Main, AccountKeys, BE!Key, BE!Signer, Signer

LEMMA KeysInOrder ==
  ASSUME NEW tx, AccountsNeeded(tx.ix) \subseteq DOMAIN tx.accounts
  PROVE  /\ tx.ix = "purchase" =>
               Keyed(tx, 6, "seller") /\ Keyed(tx, 8, "nftMint")
         /\ tx.ix = "acceptOffer" =>
               Keyed(tx, 2, "buyer") /\ Keyed(tx, 5, "nftMint")
                 /\ Keyed(tx, 10, "escrowVault")
         /\ tx.ix = "claimAuction" =>
               Keyed(tx, 5, "nftMint") /\ Keyed(tx, 6, "escrowVault")
                 /\ Keyed(tx, 8, "creator")
         /\ tx.ix = "placeBid" =>
               Keyed(tx, 2, "nftMint")
         /\ tx.ix = "makeOffer" =>
               Keyed(tx, 3, "nftMint")
         /\ tx.ix = "cancelOffer" =>
               Keyed(tx, 2, "nftMint")
         /\ tx.ix = "delistNft" =>
               Keyed(tx, 5, "nftMint")
         /\ tx.ix = "cancelAuction" =>
               Keyed(tx, 5, "nftMint")
         /\ tx.ix = "transfer" =>
               Keyed(tx, 2, "recipient") /\ Keyed(tx, 4, "nftMint")
         /\ tx.ix = "transferFromVault" =>
               Keyed(tx, 3, "recipient") /\ Keyed(tx, 6, "nftMint")
         /\ tx.ix = "setPrice" =>
               Keyed(tx, 2, "nftMint")
         /\ tx.ix = "updateReserve" =>
               Keyed(tx, 2, "nftMint")
<1>1. ASSUME tx.ix = "purchase" PROVE Keyed(tx, 6, "seller") /\ Keyed(tx, 8, "nftMint")
  <2> DEFINE names == AccountNames(tx.ix)
  <2>1. /\ 6 + 1 \in DOMAIN names /\ names[6 + 1] = "seller"
        /\ 8 + 1 \in DOMAIN names /\ names[8 + 1] = "nftMint"
    BY <1>1 DEF AccountNames, IDL!instructions, IDL!purchase, IDL!Instruction
  <2> HIDE DEF names
  <2> QED BY <2>1, KeyNamed DEF FixedAccounts, names
<1>2. ASSUME tx.ix = "acceptOffer"
      PROVE  /\ Keyed(tx, 2, "buyer") /\ Keyed(tx, 5, "nftMint")
             /\ Keyed(tx, 10, "escrowVault")
  <2> DEFINE names == AccountNames(tx.ix)
  <2>1. /\ 2 + 1 \in DOMAIN names /\ names[2 + 1] = "buyer"
        /\ 5 + 1 \in DOMAIN names /\ names[5 + 1] = "nftMint"
        /\ 10 + 1 \in DOMAIN names /\ names[10 + 1] = "escrowVault"
    BY <1>2 DEF AccountNames, IDL!instructions, IDL!acceptOffer, IDL!Instruction
  <2> HIDE DEF names
  <2> QED BY <2>1, KeyNamed DEF FixedAccounts, names
<1>3. ASSUME tx.ix = "claimAuction"
      PROVE  /\ Keyed(tx, 5, "nftMint") /\ Keyed(tx, 6, "escrowVault")
             /\ Keyed(tx, 8, "creator")
  <2> DEFINE names == AccountNames(tx.ix)
  <2>1. /\ 5 + 1 \in DOMAIN names /\ names[5 + 1] = "nftMint"
        /\ 6 + 1 \in DOMAIN names /\ names[6 + 1] = "escrowVault"
        /\ 8 + 1 \in DOMAIN names /\ names[8 + 1] = "creator"
    BY <1>3 DEF AccountNames, IDL!instructions, IDL!claimAuction, IDL!Instruction
  <2> HIDE DEF names
  <2> QED BY <2>1, KeyNamed DEF FixedAccounts, names
<1>4. ASSUME tx.ix = "placeBid" PROVE Keyed(tx, 2, "nftMint")
  <2> DEFINE names == AccountNames(tx.ix)
  <2>1. /\ 2 + 1 \in DOMAIN names /\ names[2 + 1] = "nftMint"
    BY <1>4 DEF AccountNames, IDL!instructions, IDL!placeBid, IDL!Instruction
  <2> HIDE DEF names
  <2> QED BY <2>1, KeyNamed DEF FixedAccounts, names
<1>5. ASSUME tx.ix = "makeOffer" PROVE Keyed(tx, 3, "nftMint")
  <2> DEFINE names == AccountNames(tx.ix)
  <2>1. /\ 3 + 1 \in DOMAIN names /\ names[3 + 1] = "nftMint"
    BY <1>5 DEF AccountNames, IDL!instructions, IDL!makeOffer, IDL!Instruction
  <2> HIDE DEF names
  <2> QED BY <2>1, KeyNamed DEF FixedAccounts, names
<1>6. ASSUME tx.ix = "cancelOffer" PROVE Keyed(tx, 2, "nftMint")
  <2> DEFINE names == AccountNames(tx.ix)
  <2>1. /\ 2 + 1 \in DOMAIN names /\ names[2 + 1] = "nftMint"
    BY <1>6 DEF AccountNames, IDL!instructions, IDL!cancelOffer, IDL!Instruction
  <2> HIDE DEF names
  <2> QED BY <2>1, KeyNamed DEF FixedAccounts, names
<1>7. ASSUME tx.ix = "delistNft" PROVE Keyed(tx, 5, "nftMint")
  <2> DEFINE names == AccountNames(tx.ix)
  <2>1. /\ 5 + 1 \in DOMAIN names /\ names[5 + 1] = "nftMint"
    BY <1>7 DEF AccountNames, IDL!instructions, IDL!delistNft, IDL!Instruction
  <2> HIDE DEF names
  <2> QED BY <2>1, KeyNamed DEF FixedAccounts, names
<1>8. ASSUME tx.ix = "cancelAuction" PROVE Keyed(tx, 5, "nftMint")
  <2> DEFINE names == AccountNames(tx.ix)
  <2>1. /\ 5 + 1 \in DOMAIN names /\ names[5 + 1] = "nftMint"
    BY <1>8 DEF AccountNames, IDL!instructions, IDL!cancelAuction, IDL!Instruction
  <2> HIDE DEF names
  <2> QED BY <2>1, KeyNamed DEF FixedAccounts, names
<1>9. ASSUME tx.ix = "transfer" PROVE Keyed(tx, 2, "recipient") /\ Keyed(tx, 4, "nftMint")
  <2> DEFINE names == AccountNames(tx.ix)
  <2>1. /\ 2 + 1 \in DOMAIN names /\ names[2 + 1] = "recipient"
        /\ 4 + 1 \in DOMAIN names /\ names[4 + 1] = "nftMint"
    BY <1>9 DEF AccountNames, IDL!instructions, IDL!transfer, IDL!Instruction
  <2> HIDE DEF names
  <2> QED BY <2>1, KeyNamed DEF FixedAccounts, names
<1>10. ASSUME tx.ix = "transferFromVault"
       PROVE  Keyed(tx, 3, "recipient") /\ Keyed(tx, 6, "nftMint")
  <2> DEFINE names == AccountNames(tx.ix)
  <2>1. /\ 3 + 1 \in DOMAIN names /\ names[3 + 1] = "recipient"
        /\ 6 + 1 \in DOMAIN names /\ names[6 + 1] = "nftMint"
    BY <1>10 DEF AccountNames, IDL!instructions, IDL!transferFromVault, IDL!Instruction
  <2> HIDE DEF names
  <2> QED BY <2>1, KeyNamed DEF FixedAccounts, names
<1>11. ASSUME tx.ix = "setPrice" PROVE Keyed(tx, 2, "nftMint")
  <2> DEFINE names == AccountNames(tx.ix)
  <2>1. /\ 2 + 1 \in DOMAIN names /\ names[2 + 1] = "nftMint"
    BY <1>11 DEF AccountNames, IDL!instructions, IDL!setPrice, IDL!Instruction
  <2> HIDE DEF names
  <2> QED BY <2>1, KeyNamed DEF FixedAccounts, names
<1>12. ASSUME tx.ix = "updateReserve" PROVE Keyed(tx, 2, "nftMint")
  <2> DEFINE names == AccountNames(tx.ix)
  <2>1. /\ 2 + 1 \in DOMAIN names /\ names[2 + 1] = "nftMint"
    BY <1>12 DEF AccountNames, IDL!instructions, IDL!updateReserve, IDL!Instruction
  <2> HIDE DEF names
  <2> QED BY <2>1, KeyNamed DEF FixedAccounts, names
<1> QED BY <1>1, <1>2, <1>3, <1>4, <1>5, <1>6, <1>7, <1>8, <1>9, <1>10, <1>11, <1>12

\* The money the parser counts.
LEMMA CountedSum ==
  ASSUME NEW calls, NEW source, NEW f,
         f = [k \in DOMAIN calls |-> IF calls[k].source = source
                                     THEN calls[k].lamports ELSE 0]
  PROVE  BE!Transferred({calls}, source) = {Sum(DOMAIN calls, f)}
<1>1. BE!Sum(DOMAIN calls, f) = Sum(DOMAIN calls, f) BY DEF BE!Sum, Sum
<1>2. BE!Transferred({calls}, source) = {BE!Sum(DOMAIN calls, f)}
  BY DEF BE!Transferred
<1> QED BY <1>1, <1>2

LEMMA OneTransfer ==
  ASSUME NEW source, NEW x \in Int
  PROVE  BE!Transferred({<<[source |-> source, lamports |-> x]>>}, source) = {x}
<1>1. PICK calls : calls = <<[source |-> source, lamports |-> x]>> OBVIOUS
<1>2. PICK f : f = [k \in DOMAIN calls |-> IF calls[k].source = source
                                          THEN calls[k].lamports ELSE 0]
  OBVIOUS
<1>3. DOMAIN calls = {1} /\ f[1] = x BY <1>1, <1>2
<1>4. Sum({} \cup {1}, f) = f[1] + Sum({}, f) BY <1>3, FS_EmptySet, SumAdd
<1>5. Sum({1}, f) = x BY <1>3, <1>4, SumEmpty
<1> QED BY <1>1, <1>2, <1>3, <1>5, CountedSum

LEMMA SecondTransfer ==
  ASSUME NEW source, NEW other, other # source, NEW x \in Int, NEW y,
         NEW calls, calls = <<[source |-> other, lamports |-> y]>>
                               \o <<[source |-> source, lamports |-> x]>>
  PROVE  BE!Transferred({calls}, source) = {x}
<1>1. /\ DOMAIN calls = {1, 2}
      /\ calls[1].source = other
      /\ calls[2].source = source /\ calls[2].lamports = x
  <2>1. PICK a : a = [source |-> other, lamports |-> y] OBVIOUS
  <2>2. PICK b : b = [source |-> source, lamports |-> x] OBVIOUS
  <2>3. <<a>> \in Seq({a, b}) /\ <<b>> \in Seq({a, b}) OBVIOUS
  <2>4. Joined(calls, <<a>>, <<b>>) BY <2>1, <2>2, <2>3, ConcatJoins
  <2>5. DOMAIN calls = {1, 2} /\ calls[1] = a /\ calls[2] = b
    BY <2>4 DEF Joined
  <2>6. a.source = other /\ b.source = source /\ b.lamports = x BY <2>1, <2>2
  <2> QED BY <2>5, <2>6, Zenon
<1>2. PICK f : f = [k \in DOMAIN calls |-> IF calls[k].source = source
                                          THEN calls[k].lamports ELSE 0]
  OBVIOUS
<1>3. DOMAIN calls = {1} \cup {2} /\ f[1] = 0 /\ f[2] = x BY <1>1, <1>2
<1>4. Sum({} \cup {1}, f) = f[1] + Sum({}, f)
  <2>1. \A k \in {} \cup {1} : f[k] \in Int BY <1>3
  <2> QED BY <2>1, FS_EmptySet, SumAdd
<1>5. Sum({1}, f) = 0 BY <1>3, <1>4, SumEmpty
<1>6. IsFiniteSet({1}) BY FS_Singleton
<1>7. Sum({1} \cup {2}, f) = f[2] + Sum({1}, f)
  <2>1. 2 \notin {1} /\ \A k \in {1} \cup {2} : f[k] \in Int BY <1>3
  <2> QED BY <1>6, <2>1, SumAdd
<1>8. Sum(DOMAIN calls, f) = x BY <1>3, <1>5, <1>7
<1> QED BY <1>2, <1>8, CountedSum

LEMMA LegsTransferred ==
  ASSUME NEW source, NEW legs
  PROVE  BE!Transferred({TransfersFrom(source, legs)}, source) = {LegTotal(legs)}
<1>1. PICK calls : calls = TransfersFrom(source, legs) OBVIOUS
<1>2. /\ DOMAIN calls = DOMAIN legs
      /\ \A k \in DOMAIN legs : /\ calls[k].source = source
                                /\ calls[k].lamports = legs[k].amount
  BY <1>1 DEF TransfersFrom
<1>3. Amounts(legs) = [k \in DOMAIN calls |-> IF calls[k].source = source
                                             THEN calls[k].lamports ELSE 0]
  BY <1>2 DEF Amounts
<1> QED BY <1>1, <1>2, <1>3, CountedSum DEF LegTotal

-----------------------------------------------------------------------------
\* What the parser reports happened, and it reports every trade.
Told(tx) ==
    LET activities == BE!ActivityIn(Main(tx), Inner(tx))
    IN  /\ activities # {}
        /\ \A act \in activities :
              Happened(act) /\ (tx.ix \in Trades => act # BE!Undefined)

LEMMA ActivityOf ==
  ASSUME NEW i, NEW inner
  PROVE  /\ i.data.ix = "delistNft" =>
               BE!ActivityIn(i, inner) = BE!DelistNft(i)
         /\ i.data.ix = "transfer" =>
               BE!ActivityIn(i, inner) = BE!Transfer(i)
         /\ i.data.ix = "transferFromVault" =>
               BE!ActivityIn(i, inner) = BE!TransferFromVault(i)
         /\ i.data.ix = "purchase" =>
               BE!ActivityIn(i, inner) = BE!Purchase(i, inner)
         /\ i.data.ix = "depositToEscrow" =>
               BE!ActivityIn(i, inner) = BE!DepositToEscrow(i)
         /\ i.data.ix = "withdrawFromEscrow" =>
               BE!ActivityIn(i, inner) = BE!WithdrawFromEscrow(i)
         /\ i.data.ix = "makeOffer" =>
               BE!ActivityIn(i, inner) = BE!MakeOffer(i, inner)
         /\ i.data.ix = "cancelOffer" =>
               BE!ActivityIn(i, inner) = BE!CancelOffer(i)
         /\ i.data.ix = "acceptOffer" =>
               BE!ActivityIn(i, inner) = BE!AcceptOffer(i, inner)
         /\ i.data.ix = "placeBid" =>
               BE!ActivityIn(i, inner) = BE!PlaceBid(i, inner)
         /\ i.data.ix = "claimAuction" =>
               BE!ActivityIn(i, inner) = BE!ClaimAuction(i, inner)
         /\ i.data.ix = "cancelAuction" =>
               BE!ActivityIn(i, inner) = BE!CancelAuction(i)
         /\ i.data.ix = "setPrice" =>
               BE!ActivityIn(i, inner) = BE!SetPrice(i)
         /\ i.data.ix = "updateReserve" =>
               BE!ActivityIn(i, inner) = BE!UpdateReverse(i)
BY DEF BE!ActivityIn

LEMMA OneTold ==
  ASSUME NEW tx, NEW act, BE!ActivityIn(Main(tx), Inner(tx)) = {act},
         Happened(act), act.type # "undefined"
  PROVE  Told(tx)
BY DEF Told, BE!Undefined

\* A sale pays its seller and those who have a share in the price.
LEMMA PaidShareholders ==
  ASSUME TypeOK, NEW price \in U64, NEW m \in Mint, HasCreators(m),
         NEW seller \in Key, NEW legs, legs = SaleLegs(price, m, seller)
  PROVE  \A k \in 1 .. Len(legs) : legs[k].to \in {seller} \cup Shareholders(m)
<1> DEFINE a == SellerLeg(price, m, seller)
           b == TeamLegs(price)
           c == CreatorLegs(price, m)
           payees == {seller} \cup Shareholders(m)
<1>1. TreasuryTypeOK BY DEF TypeOK
<1>2. a \in Seq(LegData) /\ b \in Seq(LegData) /\ c \in Seq(LegData)
  BY <1>1, SellerLegType, TeamLegsType, CreatorLegsType
<1>3. \A k \in 1 .. Len(a) : a[k].to \in payees BY DEF SellerLeg, Leg
<1>4. \A k \in 1 .. Len(b) : b[k].to \in payees
  <2>1. global_authority.team_count \in Nat /\ global_authority.team_count <= MaxTeam
    BY <1>1, IntegersAssumption DEF TreasuryTypeOK, GlobalPool
  <2>2. DOMAIN b = 1 .. global_authority.team_count BY DEF TeamLegs
  <2>3. ASSUME NEW k \in 1 .. global_authority.team_count PROVE b[k].to \in payees
    <3>1. k - 1 \in ActiveSlots(global_authority) BY <2>1 DEF ActiveSlots
    <3>2. b[k].to = global_authority.team_treasury[k - 1] BY DEF TeamLegs, Leg
    <3> QED BY <3>1, <3>2 DEF Shareholders
  <2>4. DOMAIN b = 1 .. Len(b) BY <1>2, LenProperties
  <2> QED BY <2>2, <2>3, <2>4
<1>5. \A k \in 1 .. Len(c) : c[k].to \in payees
  <2>1. DOMAIN c = 1 .. Len(c) BY <1>2, LenProperties
  <2>2. DOMAIN c = DOMAIN Metadata[m].creators BY DEF CreatorLegs
  <2>3. ASSUME NEW k \in DOMAIN Metadata[m].creators PROVE c[k].to \in payees
    <3>1. c[k].to = Metadata[m].creators[k].address BY DEF CreatorLegs, Leg
    <3> QED BY <3>1 DEF Shareholders
  <2> QED BY <2>1, <2>2, <2>3
<1>6. legs = (a \o b) \o c BY DEF SaleLegs
<1> HIDE DEF a, b, c, payees
<1>7. a \o b \in Seq(LegData) /\ Joined(a \o b, a, b) BY <1>2, ConcatJoins
<1>8. Joined(legs, a \o b, c) BY <1>2, <1>6, <1>7, ConcatJoins
<1>9. Len(a) \in Nat /\ Len(b) \in Nat /\ Len(c) \in Nat BY <1>2, LenProperties
<1>10. \A k \in 1 .. Len(a \o b) : (a \o b)[k].to \in payees
  BY <1>3, <1>4, <1>7, <1>9 DEF Joined
<1>11. \A k \in 1 .. Len(legs) : legs[k].to \in payees
  BY <1>5, <1>7, <1>8, <1>9, <1>10 DEF Joined
<1> QED BY <1>11 DEF payees

LEMMA SignerFirst ==
  ASSUME NEW tx, AccountsNeeded(tx.ix) \subseteq DOMAIN tx.accounts,
         tx.ix \in Trades \cup
            {"delistNft", "cancelOffer", "cancelAuction", "depositToEscrow",
             "setPrice", "updateReserve"}
  PROVE  BE!Signer(Main(tx)) = Signer(tx) /\ BE!Key(Main(tx), 0) = Signer(tx)
<1> DEFINE names == AccountNames(tx.ix)
<1>1. /\ 1 \in DOMAIN names
      /\ names[1] \in {"buyer", "seller", "bidder", "owner", "creator"}
  BY DEF Trades, AccountNames, IDL!instructions, IDL!Instruction, IDL!purchase,
         IDL!acceptOffer, IDL!claimAuction, IDL!placeBid, IDL!makeOffer,
         IDL!delistNft, IDL!cancelOffer, IDL!cancelAuction, IDL!depositToEscrow,
         IDL!setPrice, IDL!updateReserve
<1> HIDE DEF names
<1>2. names[1] \in DOMAIN tx.accounts
  BY <1>1 DEF AccountsNeeded, FixedAccounts, names
<1> QED BY <1>1, <1>2, FirstKey DEF names

\* The accounts of an instruction that is executed.
LEMMA AccountsTold ==
  ASSUME NEW tx, TxBuilt(tx), AccountsFit(tx)
  PROVE  /\ AccountsNeeded(tx.ix) \subseteq DOMAIN tx.accounts
         /\ \A n : Keyed(tx, n, "nftMint") => BE!Key(Main(tx), n) = MintOf(tx)
         /\ \A n : Keyed(tx, n, "escrowVault") => BE!Key(Main(tx), n) = EscrowVault
<1>1. \A n : Keyed(tx, n, "nftMint") => BE!Key(Main(tx), n) = MintOf(tx)
  BY DEF Keyed, MintOf
<1>2. \A n : Keyed(tx, n, "escrowVault") => BE!Key(Main(tx), n) = EscrowVault
  BY DEF Keyed, AccountsFit, SeedsOf
<1> QED BY <1>1, <1>2 DEF TxBuilt

\* A buyer who has no share in the price spends it.
LEMMA BuyerSpends ==
  ASSUME TypeOK, NEW user \in User, NEW price \in U64, NEW m \in Mint,
         HasCreators(m), NEW seller \in Key, NEW legs,
         legs = SaleLegs(price, m, seller), CanPayAll(lamports, user, legs),
         lamports' = PaidAll(lamports, user, legs),
         user \notin {seller} \cup Shareholders(m)
  PROVE  Spent(user) = LegTotal(legs)
<1> DEFINE D == Wallet \cup {EscrowVault}
<1>1. TreasuryTypeOK /\ lamports \in [D -> Nat] BY DEF TypeOK
<1>2. legs \in Seq(LegData) BY <1>1, SaleLegsType
<1>3. \A k \in 1 .. Len(legs) : legs[k].to # user BY PaidShareholders
<1>4. user \in D BY VaultApart
<1> HIDE DEF D
<1>5. PaidAll(lamports, user, legs)[user] = lamports[user] - LegTotal(legs)
  BY <1>1, <1>2, <1>3, <1>4, PaidAllPayer
<1>6. lamports[user] \in Nat /\ LegTotal(legs) \in Nat
  BY <1>1, <1>2, <1>4, LegTotalNat
<1> QED BY <1>5, <1>6 DEF Spent

LEMMA VaultSpends ==
  ASSUME TypeOK, NEW price \in U64, NEW m \in Mint, HasCreators(m),
         NEW seller \in Key, NEW legs, legs = SaleLegs(price, m, seller),
         CanPayAll(lamports, EscrowVault, legs),
         lamports' = PaidAll(lamports, EscrowVault, legs)
  PROVE  Spent(EscrowVault) = LegTotal(legs)
<1>1. TreasuryTypeOK /\ lamports[EscrowVault] \in Nat BY DEF TypeOK
<1>2. legs \in Seq(LegData) BY <1>1, SaleLegsType
<1>3. PaidAll(lamports, EscrowVault, legs)[EscrowVault]
         = lamports[EscrowVault] - LegTotal(legs)
  BY <1>2, PaidByVault
<1>4. LegTotal(legs) \in Nat BY <1>2, LegTotalNat
<1> QED BY <1>1, <1>3, <1>4 DEF Spent

LEMMA PurchaseTold ==
  ASSUME TypeOK, NEW tx, TxFits(tx), TxBuilt(tx), AccountsFit(tx),
         RunListing(tx), tx.ix = "purchase"
  PROVE  Told(tx)
<1> DEFINE user == Signer(tx)
           m == MintOf(tx)
           price == sell[m].price_sol
           seller == sell[m].seller
<1>1. user \in User /\ m \in Mint BY DEF TxFits, NftInstructions
<1>2. PICK legs : legs = SettlementLegs(price, m, seller, tx.remaining) OBVIOUS
<1>3. /\ tx.accounts.seller = seller
      /\ PurchaseNaming(user, m, tx.remaining)
  BY DEF RunListing
<1>4. PICK treasuries \in Seq(Key) : tx.remaining = NamedPayees(m, treasuries)
  BY DEF TxFits, Selling
<1>5. HasCreators(m) /\ RemainingFit(tx.remaining, m)
  BY <1>3 DEF PurchaseNaming, SaleCanSettle
<1>6. price \in U64 /\ seller \in Key /\ TreasuryTypeOK
  BY <1>1 DEF TypeOK, SellData
<1>7. Inner(tx) = {TransfersFrom(user, legs)}
  BY <1>2 DEF Inner, CallsOut, LamportTransfers
<1>12. CanPayAll(lamports, user, legs) /\ lamports' = PaidAll(lamports, user, legs)
  BY <1>2, <1>3 DEF PurchaseNaming
<1> HIDE DEF user, m, price, seller
<1>8. legs = SaleLegs(price, m, seller)
  BY <1>1, <1>2, <1>3, <1>4, <1>5, <1>6, SettlementIsSale
<1>9. BE!Transferred(Inner(tx), user) = {LegTotal(legs)}
  BY <1>7, LegsTransferred
<1> DEFINE act == [type |-> "Purchase", buyer |-> user, seller |-> seller,
                   mint |-> m, price |-> LegTotal(legs)]
<1>10. BE!ActivityIn(Main(tx), Inner(tx)) = {act}
  <2>1. BE!Signer(Main(tx)) = user /\ BE!Key(Main(tx), 0) = user
    BY SignerFirst, AccountsTold DEF Trades, user
  <2>2. BE!Key(Main(tx), 6) = seller /\ BE!Key(Main(tx), 8) = m
    BY <1>3, KeysInOrder, AccountsTold DEF Keyed, m
  <2>3. BE!ActivityIn(Main(tx), Inner(tx)) = BE!Purchase(Main(tx), Inner(tx))
    BY ActivityOf DEF Main
  <2> QED BY <1>9, <2>1, <2>2, <2>3 DEF BE!Purchase, BE!SaleAt
<1>11. Happened(act)
  <2>1. sell[m].active = 1 /\ sell[m].seller = seller
    BY <1>3 DEF PurchaseNaming, seller
  <2>2. holder'[m] = user
    BY <1>1, <1>3 DEF PurchaseNaming, TypeOK
  <2>3. user \notin {seller} \cup Shareholders(m) => Spent(user) = LegTotal(legs)
    BY <1>1, <1>5, <1>6, <1>8, <1>12, BuyerSpends
  <2> QED BY <2>1, <2>2, <2>3 DEF Happened
<1> QED BY <1>10, <1>11, OneTold

LEMMA AcceptTold ==
  ASSUME TypeOK, NEW tx, TxFits(tx), TxBuilt(tx), AccountsFit(tx),
         RunOffering(tx), tx.ix = "acceptOffer"
  PROVE  Told(tx)
<1> DEFINE user == Signer(tx)
           m == MintOf(tx)
           buyer == tx.accounts.buyer
           price == offer[m][buyer].offer_price
<1>1. user \in User /\ buyer \in User /\ m \in Mint
  BY DEF TxFits, NftInstructions
<1>2. PICK legs : legs = SettlementLegs(price, m, user, tx.remaining) OBVIOUS
<1>3. AcceptOfferNaming(user, buyer, m, tx.remaining) BY DEF RunOffering
<1>4. PICK treasuries \in Seq(Key) : tx.remaining = NamedPayees(m, treasuries)
  BY DEF TxFits, Selling
<1>5. HasCreators(m) /\ RemainingFit(tx.remaining, m)
  BY <1>3 DEF AcceptOfferNaming, SaleCanSettle
<1>6. price \in U64 /\ user \in Key /\ TreasuryTypeOK
  BY <1>1, VaultApart DEF TypeOK, OfferData
<1>7. Inner(tx) = {TransfersFrom(EscrowVault, legs)}
  BY <1>2 DEF Inner, CallsOut, LamportTransfers
<1>8. /\ CanPayAll(lamports, EscrowVault, legs)
      /\ lamports' = PaidAll(lamports, EscrowVault, legs)
      /\ sell[m].active = 1 /\ sell[m].seller = user
      /\ holder' = [holder EXCEPT ![m] = buyer]
  BY <1>2, <1>3 DEF AcceptOfferNaming
<1> HIDE DEF user, m, price, buyer
<1>9. legs = SaleLegs(price, m, user)
  BY <1>1, <1>2, <1>3, <1>4, <1>5, <1>6, SettlementIsSale
<1>10. BE!Transferred(Inner(tx), EscrowVault) = {LegTotal(legs)}
  BY <1>7, LegsTransferred
<1> DEFINE act == [type |-> "AcceptOffer", buyer |-> buyer, seller |-> user,
                   mint |-> m, price |-> LegTotal(legs)]
<1>11. BE!ActivityIn(Main(tx), Inner(tx)) = {act}
  <2>1. BE!Signer(Main(tx)) = user
    BY SignerFirst, AccountsTold DEF Trades, user
  <2>2. /\ BE!Key(Main(tx), 2) = buyer /\ BE!Key(Main(tx), 5) = m
        /\ BE!Key(Main(tx), 10) = EscrowVault
    BY KeysInOrder, AccountsTold DEF Keyed, m, buyer
  <2>3. BE!ActivityIn(Main(tx), Inner(tx)) = BE!AcceptOffer(Main(tx), Inner(tx))
    BY ActivityOf DEF Main
  <2> QED BY <1>10, <2>1, <2>2, <2>3 DEF BE!AcceptOffer, BE!SaleAt
<1>12. Happened(act)
  <2>1. holder'[m] = buyer BY <1>1, <1>8 DEF TypeOK
  <2>2. Spent(EscrowVault) = LegTotal(legs)
    BY <1>1, <1>5, <1>6, <1>8, <1>9, VaultSpends
  <2> QED BY <1>8, <2>1, <2>2 DEF Happened
<1> QED BY <1>11, <1>12, OneTold

LEMMA ClaimTold ==
  ASSUME TypeOK, NEW tx, TxFits(tx), TxBuilt(tx), AccountsFit(tx),
         RunAuctioning(tx), tx.ix = "claimAuction"
  PROVE  Told(tx)
<1> DEFINE user == Signer(tx)
           m == MintOf(tx)
           price == auction[m].highest_bid
           creator == auction[m].creator
<1>1. user \in User /\ m \in Mint BY DEF TxFits, NftInstructions
<1>2. PICK legs : legs = SettlementLegs(price, m, creator, tx.remaining) OBVIOUS
<1>3. /\ tx.accounts.creator = creator
      /\ ClaimAuctionNaming(user, m, tx.remaining)
  BY DEF RunAuctioning
<1>4. PICK treasuries \in Seq(Key) : tx.remaining = NamedPayees(m, treasuries)
  BY DEF TxFits, Selling
<1>5. HasCreators(m) /\ RemainingFit(tx.remaining, m)
  BY <1>3 DEF ClaimAuctionNaming, SaleCanSettle
<1>6. price \in U64 /\ creator \in Key /\ TreasuryTypeOK
  BY <1>1 DEF TypeOK, AuctionData
<1>7. Inner(tx) = {TransfersFrom(EscrowVault, legs)}
  BY <1>2 DEF Inner, CallsOut, LamportTransfers
<1>8. /\ CanPayAll(lamports, EscrowVault, legs)
      /\ lamports' = PaidAll(lamports, EscrowVault, legs)
      /\ auction' = [auction EXCEPT ![m].status = 2]
      /\ holder' = [holder EXCEPT ![m] = user]
  BY <1>2, <1>3 DEF ClaimAuctionNaming
<1>9. auction[m].creator = creator OBVIOUS
<1> HIDE DEF user, m, price, creator
<1>10. legs = SaleLegs(price, m, creator)
  BY <1>1, <1>2, <1>3, <1>4, <1>5, <1>6, SettlementIsSale
<1>11. BE!Transferred(Inner(tx), EscrowVault) = {LegTotal(legs)}
  BY <1>7, LegsTransferred
<1> DEFINE act == [type |-> "ClaimAuction", buyer |-> user, seller |-> creator,
                   mint |-> m, price |-> LegTotal(legs)]
<1>12. BE!ActivityIn(Main(tx), Inner(tx)) = {act}
  <2>1. BE!Signer(Main(tx)) = user
    BY SignerFirst, AccountsTold DEF Trades, user
  <2>2. /\ BE!Key(Main(tx), 8) = creator /\ BE!Key(Main(tx), 5) = m
        /\ BE!Key(Main(tx), 6) = EscrowVault
    BY <1>3, KeysInOrder, AccountsTold DEF Keyed, m
  <2>3. BE!ActivityIn(Main(tx), Inner(tx)) = BE!ClaimAuction(Main(tx), Inner(tx))
    BY ActivityOf DEF Main
  <2> QED BY <1>11, <2>1, <2>2, <2>3 DEF BE!ClaimAuction, BE!SaleAt
<1>13. Happened(act)
  <2>1. holder'[m] = user /\ auction'[m].status = 2
    BY <1>1, <1>8 DEF TypeOK, AuctionData
  <2>2. Spent(EscrowVault) = LegTotal(legs)
    BY <1>1, <1>5, <1>6, <1>8, <1>10, VaultSpends
  <2> QED BY <1>9, <2>1, <2>2 DEF Happened
<1> QED BY <1>12, <1>13, OneTold

LEMMA BidTold ==
  ASSUME TypeOK, NEW tx, TxFits(tx), TxBuilt(tx), AccountsFit(tx),
         RunAuctioning(tx), tx.ix = "placeBid"
  PROVE  Told(tx)
<1> DEFINE user == Signer(tx)
           m == MintOf(tx)
           price == tx.args.price
<1>1. user \in User /\ m \in Mint /\ price \in Int
  <2>1. user \in User /\ m \in Mint /\ price \in PriceInput
    BY DEF TxFits, NftInstructions
  <2>2. PriceInput \subseteq Int
    BY MarketInputAssumption, IntegersAssumption DEF U64
  <2> QED BY <2>1, <2>2
<1>2. auction' = [auction EXCEPT ![m] = AfterBid(auction[m], user, price)]
  BY DEF RunAuctioning, PlaceBidRefunding
<1>3. PICK calls : calls = LamportTransfers(tx) OBVIOUS
<1>4. calls = (IF auction[m].last_bidder = Default THEN <<>>
               ELSE <<[source |-> EscrowVault,
                       lamports |-> auction[m].highest_bid]>>)
                 \o <<[source |-> user, lamports |-> price]>>
  BY <1>3 DEF LamportTransfers
<1>5. Inner(tx) = {calls} BY <1>3 DEF Inner, CallsOut
<1> HIDE DEF user, m, price
<1>6. BE!Transferred({calls}, user) = {price}
  <2>1. CASE auction[m].last_bidder = Default
    <3>1. calls = <<>> \o <<[source |-> user, lamports |-> price]>>
      BY <1>4, <2>1
    <3>2. calls = <<[source |-> user, lamports |-> price]>> BY <3>1
    <3> QED BY <1>1, <3>2, OneTransfer
  <2>2. CASE auction[m].last_bidder # Default
    <3>1. PICK y : y = auction[m].highest_bid OBVIOUS
    <3>2. calls = <<[source |-> EscrowVault, lamports |-> y]>>
                    \o <<[source |-> user, lamports |-> price]>>
      BY <1>4, <2>2, <3>1
    <3>3. EscrowVault # user BY <1>1, VaultApart
    <3> QED BY <1>1, <3>2, <3>3, SecondTransfer
  <2> QED BY <2>1, <2>2
<1> DEFINE act == [type |-> "PlaceBid", address |-> user, mint |-> m,
                   price |-> price]
<1>7. BE!ActivityIn(Main(tx), Inner(tx)) = {act}
  <2>1. BE!Signer(Main(tx)) = user /\ BE!Key(Main(tx), 0) = user
    BY SignerFirst, AccountsTold DEF Trades, user
  <2>2. BE!Key(Main(tx), 2) = m
    BY KeysInOrder, AccountsTold DEF m
  <2>3. BE!ActivityIn(Main(tx), Inner(tx)) = BE!PlaceBid(Main(tx), Inner(tx))
    BY ActivityOf DEF Main
  <2> QED BY <1>5, <1>6, <2>1, <2>2, <2>3 DEF BE!PlaceBid, BE!ActivityAt
<1>8. Happened(act)
  <2>1. auction'[m] = AfterBid(auction[m], user, price)
    BY <1>1, <1>2 DEF TypeOK
  <2>2. auction[m] \in AuctionData BY <1>1 DEF TypeOK
  <2>3. auction'[m].last_bidder = user /\ auction'[m].highest_bid = price
    BY <2>1, <2>2 DEF AfterBid, AuctionData
  <2> QED BY <2>3 DEF Happened
<1> QED BY <1>7, <1>8, OneTold

LEMMA OfferTold ==
  ASSUME TypeOK, NEW tx, TxFits(tx), TxBuilt(tx), AccountsFit(tx),
         RunOffering(tx), tx.ix = "makeOffer"
  PROVE  Told(tx)
<1> DEFINE user == Signer(tx)
           m == MintOf(tx)
           price == tx.args.price
<1>1. user \in User /\ m \in Mint /\ price \in Int
  <2>1. user \in User /\ m \in Mint /\ price \in PriceInput
    BY DEF TxFits, NftInstructions
  <2>2. PriceInput \subseteq Int
    BY MarketInputAssumption, IntegersAssumption DEF U64
  <2> QED BY <2>1, <2>2
<1>2. offer' = [offer EXCEPT
                  ![m][user].offer_listing_date = sell[m].listed_date,
                  ![m][user].offer_price = price,
                  ![m][user].active = 1]
  BY DEF RunOffering, MakeOffer
<1>3. Inner(tx) = {<<[source |-> user, lamports |-> price]>>}
  BY DEF Inner, CallsOut, LamportTransfers
<1> HIDE DEF user, m, price
<1>4. BE!Transferred(Inner(tx), user) = {price} BY <1>1, <1>3, OneTransfer
<1> DEFINE act == [type |-> "MakeOffer", address |-> user, mint |-> m,
                   price |-> price]
<1>5. BE!ActivityIn(Main(tx), Inner(tx)) = {act}
  <2>1. BE!Signer(Main(tx)) = user /\ BE!Key(Main(tx), 0) = user
    BY SignerFirst, AccountsTold DEF Trades, user
  <2>2. BE!Key(Main(tx), 3) = m
    BY KeysInOrder, AccountsTold DEF m
  <2>3. BE!ActivityIn(Main(tx), Inner(tx)) = BE!MakeOffer(Main(tx), Inner(tx))
    BY ActivityOf DEF Main
  <2> QED BY <1>4, <2>1, <2>2, <2>3 DEF BE!MakeOffer, BE!ActivityAt
<1>6. Happened(act)
  <2>1. offer \in [Mint -> [User -> OfferData]] BY DEF TypeOK
  <2>2. offer'[m][user].active = 1 /\ offer'[m][user].offer_price = price
    BY <1>1, <1>2, <2>1 DEF OfferData
  <2> QED BY <2>2 DEF Happened
<1> QED BY <1>5, <1>6, OneTold

LEMMA OfferCancelTold ==
  ASSUME TypeOK, NEW tx, TxFits(tx), TxBuilt(tx), AccountsFit(tx),
         RunOffering(tx), tx.ix = "cancelOffer"
  PROVE  Told(tx)
<1> DEFINE user == Signer(tx)
           m == MintOf(tx)
           act == [type |-> "CancelOffer", address |-> user, mint |-> m]
<1>1. user \in User /\ m \in Mint BY DEF TxFits, NftInstructions
<1>2. /\ offer[m][user].active = 1
      /\ offer' = [offer EXCEPT ![m][user].active = 0]
  BY DEF RunOffering, CancelOffer
<1>3. BE!ActivityIn(Main(tx), Inner(tx)) = {act}
  <2>1. BE!Signer(Main(tx)) = user BY SignerFirst, AccountsTold
  <2>2. BE!Key(Main(tx), 2) = m BY KeysInOrder, AccountsTold
  <2>3. BE!ActivityIn(Main(tx), Inner(tx)) = BE!CancelOffer(Main(tx))
    BY ActivityOf DEF Main
  <2> QED BY <2>1, <2>2, <2>3 DEF BE!CancelOffer, BE!Activity
<1>4. Happened(act)
  <2> HIDE DEF user, m
  <2>1. offer \in [Mint -> [User -> OfferData]] BY DEF TypeOK
  <2>2. offer'[m][user].active = 0 BY <1>1, <1>2, <2>1 DEF OfferData
  <2> QED BY <1>2, <2>2 DEF Happened
<1> QED BY <1>3, <1>4, OneTold

LEMMA DelistTold ==
  ASSUME TypeOK, NEW tx, TxFits(tx), TxBuilt(tx), AccountsFit(tx),
         RunListing(tx), tx.ix = "delistNft"
  PROVE  Told(tx)
<1> DEFINE user == Signer(tx)
           m == MintOf(tx)
           act == [type |-> "DelistNft", address |-> user, mint |-> m]
<1>1. user \in User /\ m \in Mint BY DEF TxFits, NftInstructions
<1>2. /\ sell[m].seller = user /\ sell[m].active = 1
      /\ sell' = [sell EXCEPT ![m].active = 0]
  BY DEF RunListing, DelistNft
<1>3. BE!ActivityIn(Main(tx), Inner(tx)) = {act}
  <2>1. BE!Signer(Main(tx)) = user BY SignerFirst, AccountsTold
  <2>2. BE!Key(Main(tx), 5) = m BY KeysInOrder, AccountsTold
  <2>3. BE!ActivityIn(Main(tx), Inner(tx)) = BE!DelistNft(Main(tx))
    BY ActivityOf DEF Main
  <2> QED BY <2>1, <2>2, <2>3 DEF BE!DelistNft, BE!Activity
<1>4. Happened(act)
  <2> HIDE DEF user, m
  <2>1. sell'[m].active = 0 BY <1>1, <1>2 DEF TypeOK, SellData
  <2> QED BY <1>2, <2>1 DEF Happened
<1> QED BY <1>3, <1>4, OneTold

LEMMA AuctionCancelTold ==
  ASSUME TypeOK, NEW tx, TxFits(tx), TxBuilt(tx), AccountsFit(tx),
         RunAuctioning(tx), tx.ix = "cancelAuction"
  PROVE  Told(tx)
<1> DEFINE user == Signer(tx)
           m == MintOf(tx)
           act == [type |-> "CancelAuction", address |-> user, mint |-> m]
<1>1. user \in User /\ m \in Mint BY DEF TxFits, NftInstructions
<1>2. /\ auction[m].creator = user /\ auction[m].status \in {1, 3}
      /\ auction' = [auction EXCEPT ![m].status = 0]
  BY DEF RunAuctioning, CancelAuction
<1>3. BE!ActivityIn(Main(tx), Inner(tx)) = {act}
  <2>1. BE!Signer(Main(tx)) = user BY SignerFirst, AccountsTold
  <2>2. BE!Key(Main(tx), 5) = m BY KeysInOrder, AccountsTold
  <2>3. BE!ActivityIn(Main(tx), Inner(tx)) = BE!CancelAuction(Main(tx))
    BY ActivityOf DEF Main
  <2> QED BY <2>1, <2>2, <2>3 DEF BE!CancelAuction, BE!Activity
<1>4. Happened(act)
  <2> HIDE DEF user, m
  <2>1. auction'[m].status = 0 BY <1>1, <1>2 DEF TypeOK, AuctionData
  <2> QED BY <1>2, <2>1 DEF Happened
<1> QED BY <1>3, <1>4, OneTold

LEMMA TransferTold ==
  ASSUME TypeOK, NEW tx, TxFits(tx), TxBuilt(tx), AccountsFit(tx),
         RunListing(tx), tx.ix \in {"transfer", "transferFromVault"}
  PROVE  Told(tx)
<1> DEFINE recipient == tx.accounts.recipient
           m == MintOf(tx)
<1>1. recipient \in User /\ m \in Mint BY DEF TxFits, NftInstructions
<1>2. holder' = [holder EXCEPT ![m] = recipient]
  BY DEF RunListing, TransferNft, TransferFromVault
<1>3. holder'[m] = recipient BY <1>1, <1>2 DEF TypeOK
<1>4. AccountsNeeded(tx.ix) \subseteq DOMAIN tx.accounts BY DEF TxBuilt
<1>5. CASE tx.ix = "transfer"
  <2>1. PICK act : act = [type |-> "Transfer", address |-> BE!Signer(Main(tx)),
                          recipient |-> recipient, mint |-> m]
    OBVIOUS
  <2>2. BE!Key(Main(tx), 2) = recipient /\ BE!Key(Main(tx), 4) = m
    BY <1>4, <1>5, KeysInOrder, AccountsTold DEF Keyed
  <2>3. BE!ActivityIn(Main(tx), Inner(tx)) = BE!Transfer(Main(tx))
    BY <1>5, ActivityOf DEF Main
  <2> HIDE DEF recipient, m
  <2>4. BE!ActivityIn(Main(tx), Inner(tx)) = {act}
    BY <2>1, <2>2, <2>3 DEF BE!Transfer
  <2>5. Happened(act) BY <1>3, <2>1 DEF Happened
  <2> QED BY <2>1, <2>4, <2>5, OneTold
<1>6. CASE tx.ix = "transferFromVault"
  <2>1. PICK act : act = [type |-> "TransferFromVault",
                          address |-> BE!Signer(Main(tx)),
                          recipient |-> recipient, mint |-> m]
    OBVIOUS
  <2>2. BE!Key(Main(tx), 3) = recipient /\ BE!Key(Main(tx), 6) = m
    BY <1>4, <1>6, KeysInOrder, AccountsTold DEF Keyed
  <2>3. BE!ActivityIn(Main(tx), Inner(tx)) = BE!TransferFromVault(Main(tx))
    BY <1>6, ActivityOf DEF Main
  <2> HIDE DEF recipient, m
  <2>4. BE!ActivityIn(Main(tx), Inner(tx)) = {act}
    BY <2>1, <2>2, <2>3 DEF BE!TransferFromVault
  <2>5. Happened(act) BY <1>3, <2>1 DEF Happened
  <2> QED BY <2>1, <2>4, <2>5, OneTold
<1> QED BY <1>5, <1>6

LEMMA EscrowTold ==
  ASSUME TypeOK, NEW tx, TxFits(tx), TxBuilt(tx), AccountsFit(tx), RunEscrow(tx)
  PROVE  Told(tx)
<1> DEFINE D == Wallet \cup {EscrowVault}
           user == Signer(tx)
           sol == tx.args.sol
<1>1. tx.ix \in {"depositToEscrow", "withdrawFromEscrow"} BY DEF RunEscrow
<1>2. user \in User /\ sol \in Nat
  <2>1. user \in User /\ sol \in PriceInput BY <1>1 DEF TxFits
  <2>2. PriceInput \subseteq Nat
    BY MarketInputAssumption, IntegersAssumption DEF U64
  <2> QED BY <2>1, <2>2
<1>3. /\ lamports \in [D -> Nat] /\ user \in D /\ EscrowVault \in D
      /\ user # EscrowVault
  BY <1>2, VaultApart DEF TypeOK
<1>4. CASE tx.ix = "depositToEscrow"
  <2>1. PICK act : act = [type |-> "DepositToEscrow", address |-> user,
                          sol_amount |-> sol]
    OBVIOUS
  <2>2. BE!Signer(Main(tx)) = user BY <1>4, SignerFirst, AccountsTold
  <2>3. BE!Argument(Main(tx), 10, 18) = sol BY <1>4, NumbersCutOut DEF Main
  <2>4. BE!ActivityIn(Main(tx), Inner(tx)) = BE!DepositToEscrow(Main(tx))
    BY <1>4, ActivityOf DEF Main
  <2>5. lamports' = Pay(lamports, user, EscrowVault, sol)
    BY <1>4 DEF RunEscrow, DepositToEscrow
  <2> HIDE DEF user, sol, D
  <2>6. BE!ActivityIn(Main(tx), Inner(tx)) = {act}
    BY <2>1, <2>2, <2>3, <2>4 DEF BE!DepositToEscrow
  <2>7. Paid(Pay(lamports, user, EscrowVault, sol), lamports, D, user,
             EscrowVault, sol)
    BY <1>2, <1>3, PayParts
  <2>8. lamports'[user] = lamports[user] - sol /\ lamports[user] \in Nat
    BY <1>3, <2>5, <2>7 DEF Paid
  <2>9. Spent(user) = sol BY <1>2, <2>8 DEF Spent
  <2>10. Happened(act) BY <2>1, <2>9 DEF Happened
  <2> QED BY <2>1, <2>6, <2>10, OneTold
<1>5. CASE tx.ix = "withdrawFromEscrow"
  <2>1. PICK act : act = [type |-> "Withdraw", address |-> BE!Signer(Main(tx)),
                          sol_amount |-> sol]
    OBVIOUS
  <2>3. BE!Argument(Main(tx), 10, 18) = sol BY <1>5, NumbersCutOut DEF Main
  <2>4. BE!ActivityIn(Main(tx), Inner(tx)) = BE!WithdrawFromEscrow(Main(tx))
    BY <1>5, ActivityOf DEF Main
  <2>5. lamports' = Pay(lamports, EscrowVault, user, sol)
    BY <1>5 DEF RunEscrow, WithdrawFromEscrow
  <2> HIDE DEF user, sol, D
  <2>6. BE!ActivityIn(Main(tx), Inner(tx)) = {act}
    BY <2>1, <2>3, <2>4 DEF BE!WithdrawFromEscrow
  <2>7. Paid(Pay(lamports, EscrowVault, user, sol), lamports, D, EscrowVault,
             user, sol)
    BY <1>2, <1>3, PayParts
  <2>8. /\ lamports'[EscrowVault] = lamports[EscrowVault] - sol
        /\ lamports[EscrowVault] \in Nat
    BY <1>3, <2>5, <2>7 DEF Paid
  <2>9. Spent(EscrowVault) = sol BY <1>2, <2>8 DEF Spent
  <2>10. Happened(act) BY <2>1, <2>9 DEF Happened
  <2> QED BY <2>1, <2>6, <2>10, OneTold
<1> QED BY <1>1, <1>4, <1>5

LEMMA PriceTold ==
  ASSUME TypeOK, NEW tx, TxFits(tx), TxBuilt(tx), AccountsFit(tx),
         RunListing(tx), tx.ix = "setPrice"
  PROVE  Told(tx)
<1> DEFINE m == MintOf(tx)
           price == tx.args.price
           act == [type |-> "SetPrice", address |-> BE!Signer(Main(tx)),
                   mint |-> m, price |-> price]
<1>1. m \in Mint BY DEF TxFits, NftInstructions
<1>2. sell' = [sell EXCEPT ![m].price_sol = price] BY DEF RunListing, SetPrice
<1>3. BE!ActivityIn(Main(tx), Inner(tx)) = {act}
  <2>1. BE!Key(Main(tx), 2) = m BY KeysInOrder, AccountsTold
  <2>2. BE!Argument(Main(tx), 9, 17) = price BY NumbersCutOut DEF Main
  <2>3. BE!ActivityIn(Main(tx), Inner(tx)) = BE!SetPrice(Main(tx))
    BY ActivityOf DEF Main
  <2> QED BY <2>1, <2>2, <2>3 DEF BE!SetPrice, BE!ActivityAt
<1>4. Happened(act)
  <2> HIDE DEF m, price
  <2>1. sell'[m].price_sol = price BY <1>1, <1>2 DEF TypeOK, SellData
  <2> QED BY <2>1 DEF Happened
<1> QED BY <1>3, <1>4, OneTold

LEMMA ReserveTold ==
  ASSUME TypeOK, NEW tx, TxFits(tx), TxBuilt(tx), AccountsFit(tx),
         RunAuctioning(tx), tx.ix = "updateReserve"
  PROVE  Told(tx)
<1> DEFINE m == MintOf(tx)
           price == tx.args.price
           act == [type |-> "UpdateReverse", address |-> BE!Signer(Main(tx)),
                   mint |-> m, price |-> price]
<1>1. m \in Mint BY DEF TxFits, NftInstructions
<1>2. auction' = [auction EXCEPT ![m].start_price = price]
  BY DEF RunAuctioning, UpdateReserve
<1>3. BE!ActivityIn(Main(tx), Inner(tx)) = {act}
  <2>1. BE!Key(Main(tx), 2) = m BY KeysInOrder, AccountsTold
  <2>2. BE!Argument(Main(tx), 9, 17) = price BY NumbersCutOut DEF Main
  <2>3. BE!ActivityIn(Main(tx), Inner(tx)) = BE!UpdateReverse(Main(tx))
    BY ActivityOf DEF Main
  <2> QED BY <2>1, <2>2, <2>3 DEF BE!UpdateReverse, BE!ActivityAt
<1>4. Happened(act)
  <2> HIDE DEF m, price
  <2>1. auction'[m].start_price = price BY <1>1, <1>2 DEF TypeOK, AuctionData
  <2> QED BY <2>1 DEF Happened
<1> QED BY <1>3, <1>4, OneTold

\* Administration and creations are only named; listings and auctions too,
\* did the parser know them.
Named == {"initialize", "updateFee", "addTeamTreasury", "removeTeamTreasury",
          "initUserPool", "initSellData", "initAuctionData", "initOfferData"}

LEMMA NamedTold ==
  ASSUME NEW tx, tx.ix \in Named \cup {"listNftForSale", "createAuction"}
  PROVE  Told(tx)
<1>1. PICK i : i = Main(tx) OBVIOUS
<1>2. PICK inner : inner = Inner(tx) OBVIOUS
<1>3. i.data.ix = tx.ix BY <1>1 DEF Main
<1>4. tx.ix \notin Trades BY DEF Named, Trades
<1> DEFINE acts == BE!ActivityIn(i, inner)
           Types == Named \cup {"undefined", "ListNftForSale", "CreateAuction"}
<1>5. PICK act : acts = {act} /\ act.type \in Types
  <2>1. CASE tx.ix = "listNftForSale"
    <3>1. acts = BE!ListNftForSale(i) BY <1>3, <2>1 DEF BE!ActivityIn
    <3>2. PICK act : act = [type |-> "ListNftForSale", address |-> BE!Signer(i),
                            mint |-> BE!Key(i, 5),
                            sol_price |-> BE!Argument(i, 10, 18)]
      OBVIOUS
    <3>3. acts = {act} BY <3>1, <3>2 DEF BE!ListNftForSale
    <3>4. act.type = "ListNftForSale" BY <3>2
    <3> HIDE DEF acts
    <3> QED BY <3>3, <3>4
  <2>2. CASE tx.ix = "createAuction"
    <3>1. acts = BE!CreateAuction(i) BY <1>3, <2>2 DEF BE!ActivityIn
    <3>2. PICK act : act = [type |-> "CreateAuction", address |-> BE!Signer(i),
                            mint |-> BE!Key(i, 5),
                            start_price |-> BE!Argument(i, 10, 18),
                            min_increase |-> BE!Argument(i, 18, 26),
                            duration |-> BE!Argument(i, 26, 34)]
      OBVIOUS
    <3>3. acts = {act} BY <3>1, <3>2 DEF BE!CreateAuction
    <3>4. act.type = "CreateAuction" BY <3>2
    <3> HIDE DEF acts
    <3> QED BY <3>3, <3>4
  <2>3. CASE tx.ix = "initSellData"
    <3>1. acts = {BE!Undefined} BY <1>3, <2>3 DEF BE!ActivityIn
    <3>2. BE!Undefined.type = "undefined" BY DEF BE!Undefined
    <3> HIDE DEF acts
    <3> QED BY <3>1, <3>2
  <2>4. CASE tx.ix \in Named \ {"initSellData"}
    <3>1. PICK act : act = [type |-> tx.ix] OBVIOUS
    <3>2. acts = {act} BY <1>3, <2>4, <3>1 DEF BE!ActivityIn, Named
    <3>3. act.type \in Named BY <2>4, <3>1
    <3> HIDE DEF acts
    <3> QED BY <3>2, <3>3
  <2> QED BY <2>1, <2>2, <2>3, <2>4
<1> HIDE DEF acts
<1>6. Happened(act) BY <1>5 DEF Happened, Named
<1> QED BY <1>1, <1>2, <1>4, <1>5, <1>6 DEF Told, acts

-----------------------------------------------------------------------------
\* At most one token account is created, and none by an instruction that
\* leaves the NFT where it is.
LEMMA CreatesFew ==
  ASSUME TypeOK, CustodyInv, EscrowAccounts, NEW tx, TxFits(tx), TxBuilt(tx),
         Execute(tx)
  PROVE  /\ Cardinality(tx.creates) \in {0, 1}
         /\ CallsOut(tx) \/ Cardinality(tx.creates) = 0
<1> DEFINE m == MintOf(tx)
           user == Signer(tx)
<1>1. tx.creates \subseteq {<<w, m>> : w \in Recipients(tx)} BY DEF TxBuilt
<1>2. tx.creates \cap atas = {} BY DEF Execute, AccountsFit
<1>3. \E w : Recipients(tx) \subseteq {w} BY DEF Recipients
<1>4. \E p : tx.creates \subseteq {p}
  <2>1. PICK w : Recipients(tx) \subseteq {w} BY <1>3
  <2>2. tx.creates \subseteq {<<w, m>>} BY <1>1, <2>1
  <2> QED BY <2>2
<1>5. Cardinality(tx.creates) \in {0, 1}
  <2>1. PICK p : tx.creates \subseteq {p} BY <1>4
  <2>2. tx.creates = {} \/ tx.creates = {p} BY <2>1
  <2> QED BY <2>2, FS_EmptySet, FS_Singleton
<1>6. ASSUME ~CallsOut(tx) PROVE tx.creates = {}
  <2>1. CASE tx.ix \in {"updateFee", "addTeamTreasury", "removeTeamTreasury",
                        "setPrice", "cancelOffer", "updateReserve"}
    <3>1. Recipients(tx) = {} BY <2>1 DEF Recipients, Taking, Giving
    <3> QED BY <1>1, <3>1
  <2>2. CASE tx.ix \in {"listNftForSale", "createAuction"}
    <3>1. m \in Mint BY <2>2 DEF TxFits, NftInstructions
    <3>2. holder[m] = GlobalAuthority
      BY <1>6, <2>2 DEF Execute, CallsOut, RunAdministration, RunCreation,
         RunEscrow, RunListing, RunOffering, RunAuctioning, ListNftForSale,
         CreateAuction
    <3>3. <<GlobalAuthority, m>> \in atas BY <3>1, <3>2 DEF EscrowAccounts
    <3>4. Recipients(tx) = {GlobalAuthority}
      BY <2>2 DEF Recipients, Taking, Giving
    <3> HIDE DEF m
    <3> QED BY <1>1, <1>2, <3>3, <3>4
  <2>3. CASE tx.ix \in {"delistNft", "cancelAuction"}
    <3>1. m \in Mint BY <2>3 DEF TxFits, NftInstructions
    <3>2. /\ sell[m].active = 1 /\ auction[m].status = 3
          /\ sell[m].seller = user
      <4>1. CASE tx.ix = "delistNft"
        BY <1>6, <4>1 DEF Execute, CallsOut, RunAdministration, RunCreation,
           RunEscrow, RunListing, RunOffering, RunAuctioning, DelistNft
      <4>2. CASE tx.ix = "cancelAuction"
        <5>1. CancelAuction(user, m)
          BY <4>2 DEF Execute, RunAdministration, RunCreation, RunEscrow,
             RunListing, RunOffering, RunAuctioning
        <5>2. sell[m].active # 0 BY <1>6, <4>2 DEF CallsOut
        <5>3. sell[m].active = 1 BY <3>1, <5>2 DEF TypeOK, SellData
        <5>4. auction[m].status \in {1, 3} /\ sell[m].seller = user
          BY <5>1, <5>3 DEF CancelAuction
        <5>5. auction[m].status = 3
          BY <3>1, <5>3, <5>4
             DEF CustodyInv, OnlyReservedWhileListed, Listed, AuctionOpen
        <5> QED BY <5>3, <5>4, <5>5
      <4> QED BY <2>3, <4>1, <4>2
    <3>3. <<user, m>> \in atas BY <3>1, <3>2 DEF EscrowAccounts
    <3>4. Recipients(tx) = {user} BY <2>3 DEF Recipients, Taking, Giving
    <3> HIDE DEF m, user
    <3> QED BY <1>1, <1>2, <3>3, <3>4
  <2> QED BY <1>6, <2>1, <2>2, <2>3 DEF CallsOut
<1> QED BY <1>5, <1>6, FS_EmptySet

\* Whatever a transaction does, the parser tells.
LEMMA ExecuteTold ==
  ASSUME TypeOK, CustodyInv, EscrowAccounts, NEW tx, TxFits(tx), TxBuilt(tx),
         Execute(tx)
  PROVE  Told(tx)
<1>1. AccountsFit(tx) BY DEF Execute
<1>2. CASE RunAdministration(tx)
  <2>1. tx.ix \in Named BY <1>2 DEF RunAdministration, Named
  <2> QED BY <2>1, NamedTold
<1>3. CASE RunCreation(tx)
  <2>1. tx.ix \in Named BY <1>3 DEF RunCreation, Named
  <2> QED BY <2>1, NamedTold
<1>4. CASE RunEscrow(tx) BY <1>1, <1>4, EscrowTold
<1>5. CASE RunListing(tx)
  <2>1. tx.ix \in {"listNftForSale", "delistNft", "setPrice", "transfer",
                   "transferFromVault", "purchase"}
    BY <1>5 DEF RunListing
  <2> QED BY <1>1, <1>5, <2>1, NamedTold, DelistTold, PriceTold, TransferTold,
             PurchaseTold
<1>6. CASE RunOffering(tx)
  <2>1. tx.ix \in {"makeOffer", "cancelOffer", "acceptOffer"}
    BY <1>6 DEF RunOffering
  <2> QED BY <1>1, <1>6, <2>1, OfferTold, OfferCancelTold, AcceptTold
<1>7. CASE RunAuctioning(tx)
  <2>1. tx.ix \in {"createAuction", "placeBid", "claimAuction",
                   "updateReserve", "cancelAuction"}
    BY <1>7 DEF RunAuctioning
  <2> QED BY <1>1, <1>7, <2>1, NamedTold, BidTold, ClaimTold, ReserveTold,
             AuctionCancelTold
<1> QED BY <1>2, <1>3, <1>4, <1>5, <1>6, <1>7 DEF Execute

LEMMA ExecuteReported ==
  ASSUME TypeOK, CustodyInv, EscrowAccounts, NEW tx, TxFits(tx), TxBuilt(tx),
         Execute(tx)
  PROVE  Reported(tx)
<1>1. PICK n \in {0, 1} : /\ n = Cardinality(tx.creates)
                          /\ CallsOut(tx) \/ n = 0
  BY CreatesFew
<1> DEFINE activities == BE!getDataFromSignature(Parsed(tx))
<1>2. activities = IF BE!Known(Main(tx)) THEN BE!ActivityIn(Main(tx), Inner(tx))
                   ELSE {BE!Undefined}
  BY <1>1, ParserReads
<1>3. Told(tx) BY ExecuteTold
<1> HIDE DEF activities
<1>4. CASE BE!Known(Main(tx))
  BY <1>2, <1>3, <1>4 DEF Told, Reported, activities
<1>5. CASE ~BE!Known(Main(tx))
  <2>1. activities = {BE!Undefined} BY <1>2, <1>5
  <2>2. Happened(BE!Undefined) BY DEF Happened, BE!Undefined
  <2>3. tx.ix \notin Trades
    <3>1. PICK i : i = Main(tx) OBVIOUS
    <3>2. i.data = [ix |-> tx.ix, args |-> tx.args] BY <3>1 DEF Main
    <3>3. i.data.ix = tx.ix BY <3>2
    <3>4. tx.ix \in Trades => tx.ix # "none" BY DEF Trades
    <3>5. BE!NoData.ix = "none" BY DEF BE!NoData
    <3>6. tx.ix \in Trades => i.data # BE!NoData BY <3>3, <3>4, <3>5
    <3> QED BY <1>5, <3>1, <3>3, <3>6, TradesKnown
  <2> QED BY <2>1, <2>2, <2>3 DEF Reported, activities
<1> QED BY <1>4, <1>5

\* Only a landing changes the ledger in a second of the clock.
LEMMA LandingOnly ==
  ASSUME TypeOK, [TerminalsNext]_systemVars, NEW f \in Succeeded
  PROVE  f \in flying /\ Execute(f.tx)
<1>1. chain' # chain /\ now' = now /\ f \in flying \ flying'
  BY DEF Succeeded
<1>2. ~UNCHANGED systemVars BY <1>1 DEF systemVars, chain
<1>3. ASSUME NEW t \in Terminal PROVE ~(Start(t) \/ Step(t) \/ Confirm(t) \/ TimeOut(t))
  BY <1>1 DEF Start, Step, Confirm, TimeOut
<1>4. ~Expire BY <1>1 DEF Expire
<1>5. ~Tick
  <2>1. now \in Int BY DEF TypeOK, I64
  <2> QED BY <1>1, <2>1 DEF Tick
<1>6. Land BY <1>2, <1>3, <1>4, <1>5 DEF TerminalsNext
<1>7. PICK g \in flying : flying' = flying \ {g} /\ Execute(g.tx)
  BY <1>1, <1>6 DEF Land
<1> QED BY <1>1, <1>7

LEMMA StepReported ==
  ASSUME FlightInv, [TerminalsNext]_systemVars, NEW f \in Succeeded
  PROVE  Reported(f.tx)
<1>1. /\ TypeOK /\ CustodyInv /\ EscrowAccounts
      /\ TerminalsInv /\ FlyingBuilt
  BY DEF FlightInv, MarketInv
<1>2. f \in flying /\ Execute(f.tx) BY <1>1, LandingOnly
<1>3. TxFits(f.tx) /\ TxBuilt(f.tx)
  BY <1>1, <1>2 DEF TerminalsInv, FlyingFits, FlyingBuilt
<1> QED BY <1>1, <1>2, <1>3, ExecuteReported

LEMMA SalesRun ==
  ASSUME NEW tx, Execute(tx)
  PROVE  /\ tx.ix = "purchase" =>
               PurchaseNaming(Signer(tx), MintOf(tx), tx.remaining)
         /\ tx.ix = "acceptOffer" =>
               AcceptOfferNaming(Signer(tx), tx.accounts.buyer, MintOf(tx),
                                 tx.remaining)
         /\ tx.ix = "claimAuction" =>
               ClaimAuctionNaming(Signer(tx), MintOf(tx), tx.remaining)
BY DEF Execute, RunAdministration, RunCreation, RunEscrow, RunListing,
       RunOffering, RunAuctioning

\* A list the program takes, of treasuries read at any time, is that of now.
LEMMA ExecutedAsOfNow ==
  ASSUME TypeOK, NEW tx, TxFits(tx), Execute(tx)
  PROVE  SaleAsOfNow(tx)
<1> DEFINE user == Signer(tx)
           m == MintOf(tx)
           now_named == NamedPayees(m, TreasuriesInUse)
<1>1. ASSUME tx.ix \in {"purchase", "acceptOffer", "claimAuction"},
             HasCreators(m), RemainingFit(tx.remaining, m)
      PROVE  tx.remaining = now_named
  <2>1. m \in Mint BY <1>1 DEF TxFits, NftInstructions
  <2>2. PICK treasuries \in Seq(Key) : tx.remaining = NamedPayees(m, treasuries)
    BY <1>1 DEF TxFits, Selling
  <2>3. TreasuryTypeOK BY DEF TypeOK
  <2> QED BY <1>1, <2>1, <2>2, <2>3, ClientListFits
<1>2. ASSUME tx.ix = "purchase"
      PROVE  SettledAsOfNow(user, sell[m].price_sol, m, sell[m].seller)
  <2>1. PurchaseNaming(user, m, tx.remaining)
    BY <1>2, SalesRun
  <2>2. tx.remaining = now_named
    BY <1>1, <1>2, <2>1 DEF PurchaseNaming, SaleCanSettle
  <2> QED BY <2>1, <2>2 DEF PurchaseNaming, SettledAsOfNow
<1>3. ASSUME tx.ix = "acceptOffer"
      PROVE  SettledAsOfNow(EscrowVault, offer[m][tx.accounts.buyer].offer_price,
                            m, user)
  <2>1. AcceptOfferNaming(user, tx.accounts.buyer, m, tx.remaining)
    BY <1>3, SalesRun
  <2>2. tx.remaining = now_named
    BY <1>1, <1>3, <2>1 DEF AcceptOfferNaming, SaleCanSettle
  <2> QED BY <2>1, <2>2 DEF AcceptOfferNaming, SettledAsOfNow
<1>4. ASSUME tx.ix = "claimAuction"
      PROVE  SettledAsOfNow(EscrowVault, auction[m].highest_bid, m,
                            auction[m].creator)
  <2>1. ClaimAuctionNaming(user, m, tx.remaining)
    BY <1>4, SalesRun
  <2>2. tx.remaining = now_named
    BY <1>1, <1>4, <2>1 DEF ClaimAuctionNaming, SaleCanSettle
  <2> QED BY <2>1, <2>2 DEF ClaimAuctionNaming, SettledAsOfNow
<1> QED BY <1>2, <1>3, <1>4 DEF SaleAsOfNow

\* Of every sale that a command has sent, however late it lands: it pays the
\* treasuries and creators it would pay if they had been read at that moment,
\* each once.
THEOREM SalesAlwaysPayThoseOfNow ==
  ASSUME NEW people, \A t \in Terminal : LinesFit(people[t].lines)
  PROVE  MarketInv /\ TerminalsInit(people) /\ [][TerminalsNext]_systemVars
            => SalesPayThoseOfNow
<1> DEFINE Inv == MarketInv /\ TerminalsInv
<1>1. MarketInv /\ TerminalsInit(people) => Inv BY TerminalsStart
<1>2. Inv /\ [TerminalsNext]_systemVars
         => Inv' /\ [\A f \in Succeeded : SaleAsOfNow(f.tx)]_systemVars
  <2> SUFFICES ASSUME Inv, [TerminalsNext]_systemVars
               PROVE  Inv' /\ \A f \in Succeeded : SaleAsOfNow(f.tx)
    OBVIOUS
  <2>1. TypeOK BY DEF MarketInv
  <2>2. Inv' BY <2>1, TerminalsStep, MarketStep
  <2>3. ASSUME NEW f \in Succeeded PROVE SaleAsOfNow(f.tx)
    <3>1. f \in flying /\ Execute(f.tx) BY <2>1, LandingOnly
    <3>2. TxFits(f.tx) BY <3>1 DEF TerminalsInv, FlyingFits
    <3> QED BY <2>1, <3>1, <3>2, ExecutedAsOfNow
  <2> QED BY <2>2, <2>3
<1> QED BY <1>1, <1>2, PTL DEF SalesPayThoseOfNow

\* Whatever the command lines did and in whatever order their transactions
\* landed, the activity the back end reads out of one that succeeded is what
\* it did to the marketplace: the positions, byte ranges and inner transfers
\* the parser relies on are those of the program, a token account created
\* along never makes it throw, and no trade goes unreported.
THEOREM ActivitiesTellTheStep ==
  ASSUME NEW people, \A t \in Terminal : LinesFit(people[t].lines)
  PROVE  MarketInv /\ CustodyInv /\ EscrowAccounts /\ TerminalsInit(people)
            /\ [][TerminalsNext]_systemVars => ActivityTellsTheStep
<1>1. MarketInv /\ CustodyInv /\ EscrowAccounts /\ TerminalsInit(people)
         => FlightInv
  BY TerminalsStart DEF FlightInv, TerminalsInit, FlyingBuilt
<1>2. FlightInv /\ [TerminalsNext]_systemVars
         => FlightInv' /\ [\A f \in Succeeded : Reported(f.tx)]_systemVars
  BY FlightStep, StepReported
<1> QED BY <1>1, <1>2, PTL DEF ActivityTellsTheStep

-----------------------------------------------------------------------------
\* A listing has three bumps and a price, an auction three bumps, three
\* numbers and a flag.  Their nonces are of one bump less.
LEMMA ListingsUnknown ==
  ASSUME NEW i, i.data.ix \in {"listNftForSale", "createAuction"}
  PROVE  ~BE!Known(i)
<1>1. BE!Prefix("listNftForSale") = <<"listNftForSale", 11>>
  <2> DEFINE s == BE!IDL!instructions["listNftForSale"].args
             f == [k \in 0 .. 4 |-> IF k = 4 THEN 19 ELSE 8 + k]
  <2>1. Len(s) = 4 /\ DOMAIN s = 1 .. 4
    BY DEF BE!IDL!instructions, BE!IDL!listNftForSale, BE!IDL!Instruction
  <2>2. \A k \in 1 .. 4 : s[k][2] = IF k = 4 THEN "u64" ELSE "u8"
    BY DEF BE!IDL!instructions, BE!IDL!listNftForSale, BE!IDL!Instruction,
           BE!IDL!U8, BE!IDL!U64
  <2> HIDE DEF s
  <2>3. \A k \in 1 .. 4 : f[k] = f[k - 1] + BE!IDL!Width(s[k][2])
    BY <2>2 DEF BE!IDL!Width
  <2>4. f \in [0 .. 4 -> Nat] /\ f[0] = 8 /\ f[4] = 19 OBVIOUS
  <2> HIDE DEF f
  <2>5. \A k \in 0 .. 4 : BE!IDL!Ends(s)[k] = f[k]
    BY <2>1, <2>3, <2>4, 4 \in Nat, ParserLayout
  <2>6. BE!IDL!Size(s) = 19 BY <2>1, <2>4, <2>5 DEF BE!IDL!Size
  <2> QED BY <2>6 DEF s, BE!Prefix, BE!IDL!Discriminator
<1>2. BE!Prefix("createAuction") = <<"createAuction", 28>>
  <2> DEFINE s == BE!IDL!instructions["createAuction"].args
             f == [k \in 0 .. 7 |->
                     CASE k < 4 -> 8 + k [] k = 4 -> 19 [] k = 5 -> 27
                       [] k = 6 -> 35 [] OTHER -> 36]
  <2>1. Len(s) = 7 /\ DOMAIN s = 1 .. 7
    BY DEF BE!IDL!instructions, BE!IDL!createAuction, BE!IDL!Instruction
  <2>2. /\ s[1][2] = "u8" /\ s[2][2] = "u8" /\ s[3][2] = "u8"
        /\ BE!IDL!Width(s[4][2]) = 8 /\ BE!IDL!Width(s[5][2]) = 8
        /\ BE!IDL!Width(s[6][2]) = 8 /\ s[7][2] = "u8"
    BY DEF BE!IDL!instructions, BE!IDL!createAuction, BE!IDL!Instruction,
           BE!IDL!U8, BE!IDL!U64, BE!IDL!I64, BE!IDL!Width
  <2> HIDE DEF s
  <2>3. f \in [0 .. 7 -> Nat] /\ f[0] = 8 /\ f[7] = 36 OBVIOUS
  <2>4. f[1] = 9 /\ f[2] = 10 /\ f[3] = 11 /\ f[4] = 19 /\ f[5] = 27 /\ f[6] = 35
    OBVIOUS
  <2>5. BE!IDL!Width("u8") = 1 BY DEF BE!IDL!Width
  <2> HIDE DEF f
  <2>6. ASSUME NEW k \in 1 .. 7
        PROVE  f[k] = f[k - 1] + BE!IDL!Width(s[k][2])
    <3>1. k \in {1, 2, 3, 4, 5, 6, 7} OBVIOUS
    <3>2. CASE k < 4 BY <2>2, <2>3, <2>4, <2>5, <3>1, <3>2
    <3>3. CASE k >= 4 BY <2>2, <2>3, <2>4, <2>5, <3>1, <3>3
    <3> QED BY <3>1, <3>2, <3>3
  <2>7. \A k \in 0 .. 7 : BE!IDL!Ends(s)[k] = f[k]
    BY <2>1, <2>6, <2>3, 7 \in Nat, ParserLayout
  <2>8. BE!IDL!Size(s) = 36 BY <2>1, <2>3, <2>7 DEF BE!IDL!Size
  <2> QED BY <2>8 DEF s, BE!Prefix, BE!IDL!Discriminator
<1>3. \A j \in DOMAIN BE!nonce : /\ BE!nonce[j] # <<"listNftForSale", 11>>
                                /\ BE!nonce[j] # <<"createAuction", 28>>
  BY DEF BE!nonce
<1> QED BY <1>1, <1>2, <1>3 DEF BE!Known

\* No listing and no new auction is ever recognised, in whatever state it
\* lands: the parser looks for data one byte shorter.
THEOREM ListingsNeverReported ==
  ASSUME NEW people, \A t \in Terminal : LinesFit(people[t].lines)
  PROVE  MarketInv /\ CustodyInv /\ EscrowAccounts /\ TerminalsInit(people)
            /\ [][TerminalsNext]_systemVars
            => [][\A f \in Succeeded :
                     f.tx.ix \in {"listNftForSale", "createAuction"} =>
                        BE!getDataFromSignature(Parsed(f.tx)) = {BE!Undefined}
                 ]_systemVars
<1>1. MarketInv /\ CustodyInv /\ EscrowAccounts /\ TerminalsInit(people)
         => FlightInv
  BY TerminalsStart DEF FlightInv, TerminalsInit, FlyingBuilt
<1>2. ASSUME FlightInv, [TerminalsNext]_systemVars, NEW f \in Succeeded,
             f.tx.ix \in {"listNftForSale", "createAuction"}
      PROVE  BE!getDataFromSignature(Parsed(f.tx)) = {BE!Undefined}
  <2>1. /\ TypeOK /\ CustodyInv /\ EscrowAccounts
        /\ TerminalsInv /\ FlyingBuilt
    BY <1>2 DEF FlightInv, MarketInv
  <2>2. f \in flying /\ Execute(f.tx) BY <1>2, <2>1, LandingOnly
  <2>3. PICK tx : tx = f.tx OBVIOUS
  <2>4. TxFits(tx) /\ TxBuilt(tx) /\ Execute(tx)
    BY <2>1, <2>2, <2>3 DEF TerminalsInv, FlyingFits, FlyingBuilt
  <2>5. PICK n \in {0, 1} : /\ n = Cardinality(tx.creates)
                            /\ CallsOut(tx) \/ n = 0
    BY <2>1, <2>4, CreatesFew
  <2>6. Main(tx).data.ix \in {"listNftForSale", "createAuction"}
    BY <1>2, <2>3 DEF Main
  <2>7. ~BE!Known(Main(tx)) BY <2>6, ListingsUnknown
  <2>8. BE!getDataFromSignature(Parsed(tx)) = {BE!Undefined}
    BY <2>5, <2>7, ParserReads
  <2> QED BY <2>3, <2>8
<1>3. FlightInv /\ [TerminalsNext]_systemVars
         => FlightInv' /\ [\A f \in Succeeded :
               f.tx.ix \in {"listNftForSale", "createAuction"} =>
                  BE!getDataFromSignature(Parsed(f.tx)) = {BE!Undefined}
              ]_systemVars
  BY <1>2, FlightStep
<1> QED BY <1>1, <1>3, PTL
=============================================================================
