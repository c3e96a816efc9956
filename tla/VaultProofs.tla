----------------------------- MODULE VaultProofs -----------------------------
(***************************************************************************)
(* The money in the vault, and what bids and offers may do to it, for      *)
(* every number of users and NFTs, every fee, rate and royalty, whatever   *)
(* accounts a sale names to be paid, and whether or not the build checks   *)
(* overflow.                                                               *)
(***************************************************************************)
EXTENDS MarketplaceProofs

-----------------------------------------------------------------------------
(***************************************************************************)
(* What a sale pays out.                                                   *)
(***************************************************************************)
\* Two percentages that leave something of the price, rounded down apart.
LEMMA FeesFit ==
  ASSUME TreasuryTypeOK, NEW price \in U64, NEW m \in Mint,
         Metadata[m].seller_fee_basis_points + global_authority.market_fee_sol
            <= PERMYRIAD
  PROVE  RoyaltyFee(price, m) + MarketFee(price) <= price
<1> DEFINE s == Metadata[m].seller_fee_basis_points
           t == global_authority.market_fee_sol
           R == RoyaltyFee(price, m)
           M == MarketFee(price)
<1>1. price \in Nat /\ s \in Nat /\ t \in Nat /\ s + t <= 10000
  <2>1. s \in Nat
    <3>1. PERMYRIAD \in Nat BY DEF PERMYRIAD
    <3>2. s \in 0 .. PERMYRIAD BY MetadataAssumption
    <3> QED BY <3>1, <3>2
  <2>2. price \in Nat /\ t \in Nat
    BY IntegersAssumption DEF TreasuryTypeOK, GlobalPool, U64
  <2>3. s + t <= 10000 BY DEF PERMYRIAD
  <2> QED BY <2>1, <2>2, <2>3
<1>2. R \in Nat /\ M \in Nat BY FeesNat
<1>3. 10000 * R <= price * s /\ 10000 * M <= price * t
  <2> HIDE DEF s, t
  <2> QED BY <1>1, ShareAtMost DEF R, M, RoyaltyFee, MarketFee, PERMYRIAD, s, t
<1> HIDE DEF s, t, R, M
<1>4. price * s + price * t = price * (s + t) BY <1>1
<1>5. price * (s + t) <= price * 10000
  <2>1. s + t \in Nat BY <1>1
  <2> QED BY <1>1, <2>1
<1>6. price * s \in Nat /\ price * t \in Nat BY <1>1
<1>7. 10000 * R + 10000 * M <= price * s + price * t
  <2>1. \A x, y, v, w \in Int : x <= v /\ y <= w => x + y <= v + w OBVIOUS
  <2>2. 10000 * R \in Int /\ 10000 * M \in Int BY <1>2
  <2> QED BY <1>3, <1>6, <2>1, <2>2
<1>8. 10000 * R + 10000 * M <= 10000 * price
  <2>1. price * (s + t) \in Int /\ price * 10000 = 10000 * price BY <1>1
  <2> QED BY <1>1, <1>2, <1>4, <1>5, <1>7, <2>1
<1>9. R + M <= price BY <1>1, <1>2, <1>8
<1> QED BY <1>9 DEF R, M

LEMMA PayoutOfPrice ==
  ASSUME MarketInv, NEW m \in Mint, NEW price \in U64, NEW seller \in Key,
         HasCreators(m), SaleComputes(price, m), FeesLeaveRest(m),
         NEW remaining \in RemainingLists(m), NamedOnce(remaining, m)
  PROVE  LegTotal(SettlementLegs(price, m, seller, remaining)) <= price
<1>1. TreasuryTypeOK /\ PoolOK(global_authority)
  BY DEF MarketInv, TypeOK
<1>2. RoyaltyFee(price, m) + MarketFee(price) <= price
  BY <1>1, SaleComputesFits, FeesFit DEF FeesLeaveRest
<1> QED BY <1>1, <1>2, PayoutFits DEF NamedOnce

\* Whatever the admin configures, whatever royalty the NFT asks for, and
\* whoever is named to be paid: as long as no creator is named twice, the
\* shares, rounded down one by one, stay within the price.  Unchecked, the
\* two percentages must leave something of it, which update_fee does not
\* look at; a checked build refuses the sale in which they do not.
THEOREM PayoutStaysWithinPrice == Spec => []PayoutWithinPrice
<1>1. MarketInv => PayoutWithinPrice
  <2> SUFFICES ASSUME MarketInv, NEW m \in Mint, NEW price \in PriceInput,
                      HasCreators(m), SaleComputes(price, m), FeesLeaveRest(m),
                      NEW remaining \in RemainingLists(m),
                      NamedOnce(remaining, m)
               PROVE  LegTotal(SettlementLegs(price, m, Default, remaining))
                         <= price
    BY DEF PayoutWithinPrice, LegTotal, Amounts
  <2>1. price \in U64 /\ Default \in Key BY MarketInputAssumption DEF Key
  <2> QED BY <2>1, PayoutOfPrice
<1> QED BY <1>1, MarketInvariant, PTL

-----------------------------------------------------------------------------
(***************************************************************************)
(* What the vault owes.  Every instruction moves the balance of one user   *)
(* or the bid on one NFT, or neither.                                      *)
(***************************************************************************)
Balances == [u \in User |-> user_pool[u].escrow_sol_balance]
Bids == [m \in Mint |-> LiveBid(m)]

LEMMA DebtsNat ==
  ASSUME TypeOK
  PROVE  /\ \A u \in User : Balances[u] \in Nat
         /\ \A m \in Mint : Bids[m] \in Nat
         /\ EscrowTotal = Sum(User, Balances) /\ EscrowTotal \in Nat
         /\ BidTotal = Sum(Mint, Bids) /\ BidTotal \in Nat
         /\ lamports[EscrowVault] \in Nat
<1>1. \A u \in User : Balances[u] \in Nat BY BalanceInt DEF Balances
<1>2. \A m \in Mint : Bids[m] \in Nat
  BY IntegersAssumption DEF Bids, LiveBid, TypeOK, AuctionData, U64
<1>3. Sum(User, Balances) \in Nat /\ Sum(Mint, Bids) \in Nat
  BY <1>1, <1>2, PopulationAssumption, SumNatural
<1>4. lamports[EscrowVault] \in Nat BY DEF TypeOK
<1> QED BY <1>1, <1>2, <1>3, <1>4 DEF EscrowTotal, BidTotal, Balances, Bids

\* One user's balance changes, at most.
LEMMA OneBalance ==
  ASSUME TypeOK, TypeOK', NEW u \in User,
         \A w \in User \ {u} : Balances'[w] = Balances[w]
  PROVE  EscrowTotal' = EscrowTotal - Balances[u] + Balances'[u]
<1>1. \A w \in User : Balances[w] \in Int /\ Balances'[w] \in Int
  <2>1. \A w \in User : Balances'[w] \in Nat
    BY IntegersAssumption DEF TypeOK, UserData, U64, Balances
  <2> QED BY <2>1, DebtsNat
<1>2. Sum(User, Balances') = Sum(User, Balances) - Balances[u] + Balances'[u]
  BY <1>1, PopulationAssumption, SumUpdate
<1> QED BY <1>2 DEF EscrowTotal, Balances

\* The bid on one NFT changes, at most.
LEMMA OneBid ==
  ASSUME TypeOK, TypeOK', NEW m \in Mint,
         \A k \in Mint \ {m} : auction'[k] = auction[k]
  PROVE  BidTotal' = BidTotal - Bids[m] + Bids'[m]
<1>1. \A k \in Mint : Bids[k] \in Int /\ Bids'[k] \in Int
  <2>1. \A k \in Mint : Bids'[k] \in Nat
    BY IntegersAssumption DEF TypeOK, AuctionData, U64, Bids, LiveBid
  <2> QED BY <2>1, DebtsNat
<1>2. \A k \in Mint \ {m} : Bids'[k] = Bids[k] BY DEF Bids, LiveBid
<1>3. Sum(Mint, Bids') = Sum(Mint, Bids) - Bids[m] + Bids'[m]
  BY <1>1, <1>2, PopulationAssumption, SumUpdate
<1> QED BY <1>3 DEF BidTotal, Bids

\* No balance changes.
LEMMA SameBalances ==
  ASSUME TypeOK, \A u \in User : Balances'[u] = Balances[u]
  PROVE  EscrowTotal' = EscrowTotal
<1>1. Sum(User, Balances) = Sum(User, Balances')
  BY PopulationAssumption, SumEqual
<1> QED BY <1>1 DEF EscrowTotal, Balances

\* No bid changes.
LEMMA SameBids ==
  ASSUME TypeOK, \A m \in Mint : Bids'[m] = Bids[m]
  PROVE  BidTotal' = BidTotal
<1>1. Sum(Mint, Bids) = Sum(Mint, Bids')
  BY PopulationAssumption, SumEqual
<1> QED BY <1>1 DEF BidTotal, Bids

-----------------------------------------------------------------------------
(***************************************************************************)
(* What the vault pays and is paid.                                        *)
(***************************************************************************)
\* The balance that is stored is the one computed, or a smaller one if that
\* does not fit a u64.
LEMMA StoredBalance ==
  ASSUME NEW pool \in UserData, NEW balance \in Nat
  PROVE  /\ WithEscrow(pool, balance).escrow_sol_balance \in Nat
         /\ WithEscrow(pool, balance).escrow_sol_balance <= balance
         /\ balance <= MaxU64 =>
               WithEscrow(pool, balance).escrow_sol_balance = balance
<1>1. /\ Wrapped(balance) \in Nat /\ Wrapped(balance) <= balance
      /\ balance <= MaxU64 => Wrapped(balance) = balance
  BY WrappedU64, WrappedAtMost
<1>2. WithEscrow(pool, balance).escrow_sol_balance = Wrapped(balance)
  BY DEF WithEscrow, UserData
<1> QED BY <1>1, <1>2

\* Traded volumes are not escrow.
LEMMA VolumesOnly ==
  ASSUME TypeOK, NEW a \in User, NEW b \in User, NEW price,
         user_pool' = [user_pool EXCEPT
                         ![a] = WithVolume(user_pool[a], price),
                         ![b] = WithVolume(user_pool[b], price)]
  PROVE  \A u \in User : Balances'[u] = Balances[u]
<1>1. user_pool \in [User -> UserData] BY DEF TypeOK
<1>2. \A u \in User : WithVolume(user_pool[u], price).escrow_sol_balance
                          = user_pool[u].escrow_sol_balance
  BY <1>1 DEF WithVolume, UserData
<1>3. ASSUME NEW u \in User
      PROVE  user_pool'[u].escrow_sol_balance = user_pool[u].escrow_sol_balance
  <2>1. user_pool'[u] \in {user_pool[u], WithVolume(user_pool[u], price)}
    BY <1>1
  <2> QED BY <1>2, <2>1
<1> QED BY <1>3 DEF Balances

\* The vault is nobody's wallet.
LEMMA VaultApart ==
  /\ EscrowVault \notin Key /\ EscrowVault \notin User
  /\ \A u \in User : u \in Key /\ u \in Wallet \cup {EscrowVault}
BY KeysAssumption DEF Key

LEMMA VaultUnpaid ==
  ASSUME NEW legs \in Seq(LegData), NEW i \in 1 .. Len(legs)
  PROVE  legs[i].to # EscrowVault
<1>1. legs[i] \in LegData BY ElementOfSeq
<1>2. legs[i].to \in Key BY <1>1 DEF LegData
<1> QED BY <1>2, VaultApart

\* A sale paid by its buyer does not touch the vault.
LEMMA PaidByUser ==
  ASSUME TypeOK, NEW u \in User, NEW legs \in Seq(LegData),
         CanPayAll(lamports, u, legs)
  PROVE  PaidAll(lamports, u, legs)[EscrowVault] = lamports[EscrowVault]
<1> DEFINE D == Wallet \cup {EscrowVault}
<1>1. lamports \in [D -> Nat] BY DEF TypeOK
<1>2. u \in D /\ EscrowVault \in D \ {u} BY VaultApart
<1>3. \A i \in 1 .. Len(legs) : legs[i].to # EscrowVault
  BY VaultUnpaid
<1> HIDE DEF D
<1> QED BY <1>1, <1>2, <1>3, PaidAllAside

\* A sale paid by the vault costs it the sum of the payments.
LEMMA PaidByVault ==
  ASSUME TypeOK, NEW legs \in Seq(LegData),
         CanPayAll(lamports, EscrowVault, legs)
  PROVE  PaidAll(lamports, EscrowVault, legs)[EscrowVault]
            = lamports[EscrowVault] - LegTotal(legs)
<1> DEFINE D == Wallet \cup {EscrowVault}
<1>1. lamports \in [D -> Nat] /\ EscrowVault \in D BY DEF TypeOK
<1>2. \A i \in 1 .. Len(legs) : legs[i].to # EscrowVault
  BY VaultUnpaid
<1> HIDE DEF D
<1> QED BY <1>1, <1>2, PaidAllPayer

\* So a sale that is not overpaid costs the vault at most its price.
LEMMA SaleFromVault ==
  ASSUME MarketInv, NEW m \in Mint, NEW price \in U64, NEW seller \in Key,
         NEW remaining \in RemainingLists(m), SaleCanSettle(price, m),
         NamedOnce(remaining, m), FeesLeaveRest(m),
         CanPayAll(lamports, EscrowVault,
                   SettlementLegs(price, m, seller, remaining))
  PROVE  PaidAll(lamports, EscrowVault,
                 SettlementLegs(price, m, seller, remaining))[EscrowVault]
            >= lamports[EscrowVault] - price
<1> DEFINE legs == SettlementLegs(price, m, seller, remaining)
<1>1. TypeOK /\ TreasuryTypeOK BY DEF MarketInv, TypeOK
<1>2. HasCreators(m) /\ SaleComputes(price, m) BY DEF SaleCanSettle
<1>3. legs \in Seq(LegData) BY <1>1, <1>2, ListsFit, SettlementLegsType
<1>4. LegTotal(legs) <= price BY <1>2, PayoutOfPrice
<1>5. LegTotal(legs) \in Nat BY <1>3, LegTotalNat
<1>6. PaidAll(lamports, EscrowVault, legs)[EscrowVault]
         = lamports[EscrowVault] - LegTotal(legs)
  <2> HIDE DEF legs
  <2> QED BY <1>1, <1>3, PaidByVault DEF legs
<1>7. lamports[EscrowVault] \in Nat /\ price \in Nat
  BY <1>1, DebtsNat, IntegersAssumption DEF U64
<1> HIDE DEF legs
<1> QED BY <1>4, <1>5, <1>6, <1>7 DEF legs

-----------------------------------------------------------------------------
(***************************************************************************)
(* What the vault has beyond its debts: one lemma for each group of        *)
(* instructions that move lamports, escrow balances or bids.               *)
(***************************************************************************)
\* A step that moves none of them.
LEMMA NothingMoves ==
  ASSUME TypeOK,
         \A u \in User : Balances'[u] = Balances[u],
         \A m \in Mint : Bids'[m] = Bids[m],
         lamports'[EscrowVault] = lamports[EscrowVault]
  PROVE  Surplus' >= Surplus
BY DebtsNat, SameBalances, SameBids DEF Surplus

\* The end of a listing is no end of a bid.
LEMMA EndListingBids ==
  ASSUME TypeOK, NEW m \in Mint, EndListing(m)
  PROVE  \A k \in Mint : Bids'[k] = Bids[k]
<1>1. auction \in [Mint -> AuctionData] BY DEF TypeOK
<1>2. ASSUME NEW k \in Mint
      PROVE  /\ auction'[k].last_bidder = auction[k].last_bidder
             /\ auction'[k].highest_bid = auction[k].highest_bid
             /\ auction'[k].status = 1 <=> auction[k].status = 1
  BY <1>1 DEF EndListing, AuctionData
<1> QED BY <1>2 DEF Bids, LiveBid

LEMMA CreationKeepsSurplus ==
  ASSUME TypeOK, Creation
  PROVE  Surplus' >= Surplus
<1>1. user_pool \in [User -> UserData] /\ auction \in [Mint -> AuctionData]
  BY DEF TypeOK
<1>2. ASSUME NEW m \in Mint, InitSellData(m) \/ \E u \in User : InitOfferData(u, m)
      PROVE  Surplus' >= Surplus
  <2>1. UNCHANGED <<user_pool, auction, lamports>>
    BY <1>2 DEF InitSellData, InitOfferData
  <2> QED BY <2>1, NothingMoves DEF Balances, Bids, LiveBid
<1>3. ASSUME NEW m \in Mint, InitAuctionData(m) PROVE Surplus' >= Surplus
  <2>1. UNCHANGED <<user_pool, lamports>> BY <1>3 DEF InitAuctionData
  <2>2. ASSUME NEW k \in Mint
        PROVE  /\ auction'[k].last_bidder = auction[k].last_bidder
               /\ auction'[k].highest_bid = auction[k].highest_bid
               /\ auction'[k].status = auction[k].status
    BY <1>1, <1>3 DEF InitAuctionData, AuctionData
  <2>3. \A k \in Mint : Bids'[k] = Bids[k] BY <2>2 DEF Bids, LiveBid
  <2> QED BY <2>1, <2>3, NothingMoves DEF Balances
<1>4. ASSUME NEW u \in User, InitUserPool(u) PROVE Surplus' >= Surplus
  <2>1. UNCHANGED <<auction, lamports>> BY <1>4 DEF InitUserPool
  <2>2. ASSUME NEW w \in User
        PROVE  user_pool'[w].escrow_sol_balance
                  = user_pool[w].escrow_sol_balance
    BY <1>1, <1>4 DEF InitUserPool, UserData
  <2>3. \A w \in User : Balances'[w] = Balances[w] BY <2>2 DEF Balances
  <2> QED BY <2>1, <2>3, NothingMoves DEF Bids, LiveBid
<1> QED BY <1>2, <1>3, <1>4 DEF Creation

LEMMA ListingKeepsSurplus ==
  ASSUME MarketInv, CustodyInv, Listing
  PROVE  Surplus' >= Surplus
<1>1. PICK u \in User, m \in Mint :
         \/ \E price \in PriceInput : ListNftForSale(u, m, price)
         \/ DelistNft(u, m)
         \/ \E price \in PriceInput : SetPrice(u, m, price)
         \/ \E recipient \in User : TransferNft(u, recipient, m)
         \/ \E recipient \in User : TransferFromVault(u, recipient, m)
         \/ Purchase(u, m)
  BY DEF Listing
<1>2. TypeOK /\ TreasuryTypeOK BY DEF MarketInv, TypeOK
<1>3. ASSUME UNCHANGED <<user_pool, auction, lamports>> PROVE Surplus' >= Surplus
  BY <1>2, <1>3, NothingMoves DEF Balances, Bids, LiveBid
<1>4. CASE \E price \in PriceInput : ListNftForSale(u, m, price)
  BY <1>3, <1>4 DEF ListNftForSale
<1>5. CASE DelistNft(u, m) BY <1>3, <1>5 DEF DelistNft
<1>6. CASE \E price \in PriceInput : SetPrice(u, m, price)
  BY <1>3, <1>6 DEF SetPrice
<1>7. CASE \E recipient \in User : TransferNft(u, recipient, m)
  BY <1>3, <1>7 DEF TransferNft, accounts
<1>8. CASE \E recipient \in User : TransferFromVault(u, recipient, m)
  <2>1. EndListing(m) /\ UNCHANGED <<user_pool, lamports>>
    BY <1>8 DEF TransferFromVault
  <2> QED BY <1>2, <2>1, EndListingBids, NothingMoves DEF Balances
<1>9. CASE Purchase(u, m)
  <2> DEFINE seller == sell[m].seller
             price == sell[m].price_sol
  <2>p. PICK remaining \in RemainingLists(m) : PurchaseNaming(u, m, remaining)
    BY <1>9 DEF Purchase
  <2> DEFINE legs == SettlementLegs(price, m, seller, remaining)
  <2>1. /\ seller \in User /\ seller \in Key /\ price \in U64 /\ HasCreators(m)
        /\ EndListing(m) /\ CanPayAll(lamports, u, legs)
        /\ lamports' = PaidAll(lamports, u, legs)
        /\ user_pool' = [user_pool EXCEPT
                           ![u] = WithVolume(user_pool[u], price),
                           ![seller] = WithVolume(user_pool[seller], price)]
    BY <1>2, <2>p, KeysAssumption
       DEF PurchaseNaming, SaleCanSettle, TypeOK, SellData, Key
  <2>2. legs \in Seq(LegData)
    <3> HIDE DEF price, seller
    <3> QED BY <1>2, <2>1, ListsFit, SettlementLegsType
  <2>3. lamports'[EscrowVault] = lamports[EscrowVault]
    <3> HIDE DEF legs
    <3> QED BY <1>2, <2>1, <2>2, PaidByUser
  <2>4. \A w \in User : Balances'[w] = Balances[w]
    <3> HIDE DEF seller, price
    <3> QED BY <1>2, <2>1, VolumesOnly
  <2> QED BY <1>2, <2>1, <2>3, <2>4, EndListingBids, NothingMoves
<1> QED BY <1>1, <1>4, <1>5, <1>6, <1>7, <1>8, <1>9

\* One user's balance and the vault move together.
LEMMA BalanceMoves ==
  ASSUME TypeOK, TypeOK', NEW u \in User, NEW balance \in Nat,
         user_pool' = [user_pool EXCEPT ![u] = WithEscrow(@, balance)],
         UNCHANGED auction,
         lamports'[EscrowVault] - lamports[EscrowVault]
            = balance - user_pool[u].escrow_sol_balance
  PROVE  Surplus' >= Surplus
<1>1. user_pool \in [User -> UserData] BY DEF TypeOK
<1>2. /\ user_pool'[u].escrow_sol_balance \in Nat
      /\ user_pool'[u].escrow_sol_balance <= balance
  BY <1>1, StoredBalance
<1>3. \A w \in User \ {u} : user_pool'[w] = user_pool[w] BY <1>1
<1>4. EscrowTotal' = EscrowTotal - Balances[u] + Balances'[u]
  BY <1>3, OneBalance DEF Balances
<1>5. BidTotal' = BidTotal BY SameBids DEF Bids, LiveBid
<1>6. /\ Balances[u] = user_pool[u].escrow_sol_balance
      /\ Balances'[u] \in Nat /\ Balances'[u] <= balance
  BY <1>2 DEF Balances
<1>7. /\ EscrowTotal \in Nat /\ BidTotal \in Nat /\ Balances[u] \in Nat
      /\ lamports[EscrowVault] \in Nat
  BY DebtsNat
<1>8. lamports'[EscrowVault] \in Nat BY DEF TypeOK
<1> HIDE DEF Balances
<1> QED BY <1>4, <1>5, <1>6, <1>7, <1>8 DEF Surplus

LEMMA EscrowKeepsSurplus ==
  ASSUME TypeOK, TypeOK', Escrow
  PROVE  Surplus' >= Surplus \/ OverdrawnWithdrawal
<1> DEFINE D == Wallet \cup {EscrowVault}
<1>1. PICK u \in User, sol \in PriceInput :
         DepositToEscrow(u, sol) \/ WithdrawFromEscrow(u, sol)
  BY DEF Escrow
<1>2. /\ sol \in Nat /\ lamports \in [D -> Nat] /\ u \in D /\ EscrowVault \in D
      /\ u # EscrowVault
  BY VaultApart, MarketInputAssumption, IntegersAssumption DEF TypeOK, U64
<1>3. user_pool[u].escrow_sol_balance \in Nat BY BalanceInt
<1>4. CASE DepositToEscrow(u, sol)
  <2>1. lamports' = Pay(lamports, u, EscrowVault, sol)
    BY <1>4 DEF DepositToEscrow
  <2>2. Paid(lamports', lamports, D, u, EscrowVault, sol)
    BY <1>2, <2>1, PayParts
  <2>3. lamports'[EscrowVault] = lamports[EscrowVault] + sol
    BY <1>2, <2>2 DEF Paid
  <2>4. lamports[EscrowVault] \in Nat BY <1>2
  <2> DEFINE balance == user_pool[u].escrow_sol_balance + sol
  <2>5. balance \in Nat
        /\ user_pool' = [user_pool EXCEPT ![u] = WithEscrow(@, balance)]
        /\ UNCHANGED auction
    BY <1>2, <1>3, <1>4 DEF DepositToEscrow
  <2>6. lamports'[EscrowVault] - lamports[EscrowVault]
           = balance - user_pool[u].escrow_sol_balance
    BY <1>2, <1>3, <2>3, <2>4
  <2> HIDE DEF balance
  <2> QED BY <2>5, <2>6, BalanceMoves
<1>5. CASE WithdrawFromEscrow(u, sol)
  <2>1. lamports' = Pay(lamports, EscrowVault, u, sol)
    BY <1>5 DEF WithdrawFromEscrow
  <2>2. Paid(lamports', lamports, D, EscrowVault, u, sol)
    BY <1>2, <2>1, PayParts
  <2>3. lamports'[EscrowVault] = lamports[EscrowVault] - sol
    BY <1>2, <2>2 DEF Paid
  <2>4. lamports[EscrowVault] \in Nat BY <1>2
  <2> SUFFICES ASSUME ~(user_pool[u].escrow_sol_balance < sol)
               PROVE  Surplus' >= Surplus
    BY <1>5 DEF OverdrawnWithdrawal
  <2> DEFINE balance == user_pool[u].escrow_sol_balance - sol
  <2>5. balance \in Nat
        /\ user_pool' = [user_pool EXCEPT ![u] = WithEscrow(@, balance)]
        /\ UNCHANGED auction
    BY <1>2, <1>3, <1>5 DEF WithdrawFromEscrow
  <2>6. lamports'[EscrowVault] - lamports[EscrowVault]
           = balance - user_pool[u].escrow_sol_balance
    BY <1>2, <1>3, <2>3, <2>4
  <2> HIDE DEF balance
  <2> QED BY <2>5, <2>6, BalanceMoves
<1> QED BY <1>1, <1>4, <1>5

\* An accepted offer takes its price off the buyer's balance, also when the
\* seller accepts an offer of his own.
LEMMA AcceptMoves ==
  ASSUME TypeOK, NEW seller \in User, NEW buyer \in User,
         NEW m \in Mint, AcceptOffer(seller, buyer, m)
  PROVE  /\ Balances'[buyer] = Balances[buyer] - offer[m][buyer].offer_price
         /\ \A w \in User \ {buyer} : Balances'[w] = Balances[w]
<1> DEFINE price == offer[m][buyer].offer_price
           balance == user_pool[buyer].escrow_sol_balance - price
           p == WithVolume(user_pool[seller], price)
           q == WithEscrow(WithVolume(user_pool[buyer], price), balance)
<1>1. user_pool \in [User -> UserData] /\ price \in Nat /\ price \in U64
  BY IntegersAssumption DEF TypeOK, OfferData, U64
<1>2. /\ balance >= 0
      /\ user_pool' = [user_pool EXCEPT ![seller] = p, ![buyer] = q]
  BY <1>1 DEF AcceptOffer, AcceptOfferNaming
<1>3. balance \in Nat /\ balance <= MaxU64
  <2>1. /\ user_pool[buyer].escrow_sol_balance \in Nat
        /\ user_pool[buyer].escrow_sol_balance <= MaxU64
    BY <1>1, IntegersAssumption DEF UserData, U64
  <2> HIDE DEF price
  <2> QED BY <1>1, <1>2, <2>1, IntegersAssumption
<1>4. WithVolume(user_pool[buyer], price) \in UserData
  <2> HIDE DEF price
  <2> QED BY <1>1, WithVolumeType
<1>5. q.escrow_sol_balance = balance
  <2> HIDE DEF balance, price
  <2> QED BY <1>3, <1>4, StoredBalance
<1>6. p.escrow_sol_balance = user_pool[seller].escrow_sol_balance
  BY <1>1 DEF WithVolume, UserData
<1> HIDE DEF p, q, balance
<1>7. user_pool'[buyer] = q
      /\ \A w \in User \ {buyer} :
            user_pool'[w] = IF w = seller THEN p ELSE user_pool[w]
  BY <1>1, <1>2
<1> QED BY <1>5, <1>6, <1>7 DEF Balances, balance

LEMMA OfferingKeepsSurplus ==
  ASSUME MarketInv, TypeOK', Offering
  PROVE  Surplus' >= Surplus \/ OverpaidSale
<1> DEFINE D == Wallet \cup {EscrowVault}
<1>1. PICK u \in User, m \in Mint :
         \/ \E price \in PriceInput : MakeOffer(u, m, price)
         \/ CancelOffer(u, m)
         \/ \E buyer \in User : AcceptOffer(u, buyer, m)
  BY DEF Offering
<1>2. /\ TypeOK /\ lamports \in [D -> Nat] /\ u \in D /\ EscrowVault \in D
      /\ u # EscrowVault /\ u \in Key
  BY VaultApart DEF MarketInv, TypeOK
<1>3. ASSUME NEW price \in PriceInput, MakeOffer(u, m, price)
      PROVE  Surplus' >= Surplus
  <2> DEFINE balance == user_pool[u].escrow_sol_balance + price
  <2>1. price \in Nat /\ user_pool[u].escrow_sol_balance \in Nat
    BY <1>2, BalanceInt, MarketInputAssumption, IntegersAssumption DEF U64
  <2>2. /\ lamports' = Pay(lamports, u, EscrowVault, price)
        /\ balance \in Nat
        /\ user_pool' = [user_pool EXCEPT ![u] = WithEscrow(@, balance)]
        /\ UNCHANGED auction
    BY <1>3, <2>1 DEF MakeOffer
  <2>3. Paid(lamports', lamports, D, u, EscrowVault, price)
    BY <1>2, <2>1, <2>2, PayParts
  <2>4. /\ lamports'[EscrowVault] = lamports[EscrowVault] + price
        /\ lamports[EscrowVault] \in Nat
    BY <1>2, <2>3 DEF Paid
  <2>5. lamports'[EscrowVault] - lamports[EscrowVault]
           = balance - user_pool[u].escrow_sol_balance
    BY <2>1, <2>4
  <2> HIDE DEF balance
  <2> QED BY <1>2, <2>2, <2>5, BalanceMoves
<1>4. CASE CancelOffer(u, m)
  <2>1. UNCHANGED <<user_pool, auction, lamports>> BY <1>4 DEF CancelOffer
  <2> QED BY <1>2, <2>1, NothingMoves DEF Balances, Bids, LiveBid
<1>5. ASSUME NEW buyer \in User, AcceptOffer(u, buyer, m)
      PROVE  Surplus' >= Surplus \/ OverpaidSale
  <2>h. HasCreators(m) BY <1>5 DEF AcceptOffer
  <2>p. PICK remaining \in RemainingLists(m) :
           AcceptOfferNaming(u, buyer, m, remaining)
    BY <1>5 DEF AcceptOffer
  <2> SUFFICES ASSUME NamedOnce(remaining, m), FeesLeaveRest(m)
               PROVE  Surplus' >= Surplus
    BY <2>h, <2>p DEF OverpaidSale
  <2> DEFINE price == offer[m][buyer].offer_price
  <2>1. LET legs == SettlementLegs(price, m, u, remaining)
        IN  /\ EndListing(m) /\ SaleCanSettle(price, m)
            /\ CanPayAll(lamports, EscrowVault, legs)
            /\ lamports' = PaidAll(lamports, EscrowVault, legs)
    BY <2>p DEF AcceptOfferNaming
  <2>2. price \in U64 /\ price \in Nat
    BY <1>2, IntegersAssumption DEF TypeOK, OfferData, U64
  <2>3. lamports'[EscrowVault] >= lamports[EscrowVault] - price
    <3> HIDE DEF price
    <3> QED BY <1>2, <2>1, <2>2, SaleFromVault
  <2>4. /\ Balances'[buyer] = Balances[buyer] - price
        /\ \A w \in User \ {buyer} : Balances'[w] = Balances[w]
    BY <1>2, <1>5, AcceptMoves
  <2>5. EscrowTotal' = EscrowTotal - Balances[buyer] + Balances'[buyer]
    BY <1>2, <2>4, OneBalance
  <2>6. BidTotal' = BidTotal BY <1>2, <2>1, EndListingBids, SameBids
  <2>7. /\ EscrowTotal \in Nat /\ BidTotal \in Nat /\ Balances[buyer] \in Nat
        /\ lamports[EscrowVault] \in Nat
    BY <1>2, DebtsNat
  <2>8. lamports'[EscrowVault] \in Nat BY DEF TypeOK
  <2> HIDE DEF price
  <2> QED BY <2>2, <2>3, <2>4, <2>5, <2>6, <2>7, <2>8 DEF Surplus
<1> QED BY <1>1, <1>3, <1>4, <1>5

\* A bid pays the vault and takes the bid before it out, back to its bidder.
LEMMA BidMoves ==
  ASSUME TypeOK, CustodyInv, NEW u \in User, NEW m \in Mint,
         NEW price \in PriceInput, PlaceBid(u, m, price)
  PROVE  /\ auction'[m].status = 1 /\ auction'[m].last_bidder = u
         /\ auction'[m].highest_bid = price
         /\ \A k \in Mint \ {m} : auction'[k] = auction[k]
         /\ lamports'[EscrowVault] = lamports[EscrowVault] - Bids[m] + price
         /\ auction[m].last_bidder # Default =>
               lamports'[auction[m].last_bidder] =
                  lamports[auction[m].last_bidder] + auction[m].highest_bid
<1> DEFINE D == Wallet \cup {EscrowVault}
           a == auction[m]
           mid == Refunded(a, a.last_bidder)
<1>1. /\ auction \in [Mint -> AuctionData] /\ lamports \in [D -> Nat]
      /\ a \in AuctionData /\ a.highest_bid \in Nat
      /\ price \in Nat /\ price \in U64
      /\ u \in D /\ EscrowVault \in D /\ u # EscrowVault
      /\ Default \notin D
  BY VaultApart, MarketInputAssumption, IntegersAssumption, KeysAssumption
     DEF TypeOK, U64, AuctionData
<1>2. /\ BiddingOpen(a) /\ u # a.last_bidder
      /\ a.last_bidder # Default => CanPay(lamports, EscrowVault, a.highest_bid)
      /\ CanPay(mid, u, price)
      /\ lamports' = Pay(mid, u, EscrowVault, price)
      /\ auction' = [auction EXCEPT ![m] = AfterBid(a, u, price)]
  BY <1>1 DEF PlaceBid, PlaceBidRefunding
<1>3. /\ auction'[m].status = 1 /\ auction'[m].last_bidder = u
      /\ auction'[m].highest_bid = price
      /\ \A k \in Mint \ {m} : auction'[k] = auction[k]
  BY <1>1, <1>2 DEF AfterBid, AuctionData
<1>4. /\ a.status = 3 => a.last_bidder = Default
      /\ a.status = 1 => a.last_bidder \in User \cup {Default}
      /\ a.status \in {1, 3}
  BY <1>2 DEF CustodyInv, ReservedHoldsNoBid, PartiesKnown, BiddingOpen
<1>5. CASE a.last_bidder = Default
  <2>1. mid = lamports BY <1>5 DEF Refunded
  <2>2. Paid(lamports', lamports, D, u, EscrowVault, price)
    BY <1>1, <1>2, <2>1, PayParts
  <2>3. lamports'[EscrowVault] = lamports[EscrowVault] + price
    BY <1>1, <2>2 DEF Paid
  <2>4. Bids[m] = 0 BY <1>5 DEF Bids, LiveBid
  <2>5. lamports[EscrowVault] \in Nat BY <1>1
  <2>6. lamports'[EscrowVault] = lamports[EscrowVault] - Bids[m] + price
    BY <1>1, <2>3, <2>4, <2>5
  <2> QED BY <1>3, <1>5, <2>6
<1>6. CASE a.last_bidder # Default
  <2> DEFINE x == a.last_bidder
             hb == a.highest_bid
  <2>1. x \in D /\ x # EscrowVault /\ u # x /\ a.status = 1
    BY <1>2, <1>4, <1>6, VaultApart
  <2>2. Bids[m] = hb BY <1>6, <2>1 DEF Bids, LiveBid
  <2>3. mid = Pay(lamports, EscrowVault, x, hb) BY <1>6 DEF Refunded
  <2>4. hb \in Nat /\ CanPay(lamports, EscrowVault, hb) BY <1>1, <1>2, <1>6
  <2> HIDE DEF x, hb, mid
  <2>5. mid \in [D -> Nat] BY <1>1, <2>1, <2>3, <2>4, PayType
  <2>6. Paid(mid, lamports, D, EscrowVault, x, hb)
    BY <1>1, <2>1, <2>3, <2>4, PayParts
  <2>7. Paid(lamports', mid, D, u, EscrowVault, price)
    BY <1>1, <1>2, <2>5, PayParts
  <2>8. /\ mid[EscrowVault] = lamports[EscrowVault] - hb
        /\ mid[x] = lamports[x] + hb
    BY <2>1, <2>6 DEF Paid
  <2>9. /\ lamports'[EscrowVault] = mid[EscrowVault] + price
        /\ lamports'[x] = mid[x]
    BY <1>1, <2>1, <2>7 DEF Paid
  <2>10. lamports'[EscrowVault] = lamports[EscrowVault] - Bids[m] + price
         /\ lamports'[x] = lamports[x] + hb
    BY <2>2, <2>8, <2>9
  <2> QED BY <1>3, <2>10 DEF x, hb
<1> QED BY <1>5, <1>6

LEMMA AuctioningKeepsSurplus ==
  ASSUME MarketInv, CustodyInv, TypeOK', Auctioning
  PROVE  Surplus' >= Surplus \/ OverpaidSale
<1>1. PICK u \in User, m \in Mint :
         \/ \E price \in PriceInput, min_increase \in MinIncreaseInput,
               duration \in DurationInput, reserved \in 0 .. 1 :
               CreateAuction(u, m, price, min_increase, duration, reserved)
         \/ \E price \in PriceInput : PlaceBid(u, m, price)
         \/ ClaimAuction(u, m)
         \/ \E price \in PriceInput : UpdateReserve(u, m, price)
         \/ CancelAuction(u, m)
  BY DEF Auctioning
<1>2. /\ TypeOK /\ auction \in [Mint -> AuctionData]
      /\ Default \notin User
  BY KeysAssumption DEF MarketInv, TypeOK
<1>3. /\ EscrowTotal \in Nat /\ BidTotal \in Nat /\ Bids[m] \in Nat
      /\ lamports[EscrowVault] \in Nat
  BY <1>2, DebtsNat
<1>4. lamports'[EscrowVault] \in Nat BY DEF TypeOK
<1>5. ASSUME NEW price \in PriceInput, NEW min_increase \in MinIncreaseInput,
             NEW duration \in DurationInput, NEW reserved \in 0 .. 1,
             CreateAuction(u, m, price, min_increase, duration, reserved)
      PROVE  Surplus' >= Surplus
  <2> DEFINE a == NewAuction(auction[m], u, price, min_increase, duration,
                             reserved)
  <2>1. a.last_bidder = Default BY <1>2 DEF NewAuction, AuctionData
  <2>2. /\ auction' = [auction EXCEPT ![m] = a]
        /\ UNCHANGED <<user_pool, lamports>>
    BY <1>5 DEF CreateAuction
  <2> HIDE DEF a
  <2>3. auction'[m] = a /\ \A k \in Mint \ {m} : auction'[k] = auction[k]
    BY <1>2, <2>2
  <2>4. Bids'[m] = 0 BY <2>1, <2>3 DEF Bids, LiveBid
  <2>5. BidTotal' = BidTotal - Bids[m] + Bids'[m] BY <1>2, <2>3, OneBid
  <2>6. EscrowTotal' = EscrowTotal
    BY <1>2, <2>2, SameBalances DEF Balances
  <2> QED BY <1>3, <2>2, <2>4, <2>5, <2>6 DEF Surplus
<1>6. ASSUME NEW price \in PriceInput, PlaceBid(u, m, price)
      PROVE  Surplus' >= Surplus
  <2>1. /\ auction'[m].status = 1 /\ auction'[m].last_bidder = u
        /\ auction'[m].highest_bid = price
        /\ \A k \in Mint \ {m} : auction'[k] = auction[k]
        /\ lamports'[EscrowVault] = lamports[EscrowVault] - Bids[m] + price
    BY <1>2, <1>6, BidMoves
  <2>2. Bids'[m] = price BY <1>2, <2>1 DEF Bids, LiveBid
  <2>3. BidTotal' = BidTotal - Bids[m] + Bids'[m] BY <1>2, <2>1, OneBid
  <2>4. EscrowTotal' = EscrowTotal
    BY <1>2, <1>6, SameBalances DEF Balances, PlaceBid, PlaceBidRefunding
  <2>5. price \in Nat BY MarketInputAssumption, IntegersAssumption DEF U64
  <2> QED BY <1>3, <1>4, <2>1, <2>2, <2>3, <2>4, <2>5 DEF Surplus
<1>7. CASE ClaimAuction(u, m)
  <2>h. HasCreators(m) BY <1>7 DEF ClaimAuction
  <2>p. PICK remaining \in RemainingLists(m) : ClaimAuctionNaming(u, m, remaining)
    BY <1>7 DEF ClaimAuction
  <2> SUFFICES ASSUME NamedOnce(remaining, m), FeesLeaveRest(m)
               PROVE  Surplus' >= Surplus
    BY <2>h, <2>p DEF OverpaidSale
  <2> DEFINE price == auction[m].highest_bid
             creator == auction[m].creator
             legs == SettlementLegs(price, m, creator, remaining)
  <2>1. /\ auction[m].status = 1 /\ auction[m].last_bidder = u
        /\ SaleCanSettle(price, m)
        /\ CanPayAll(lamports, EscrowVault, legs)
        /\ lamports' = PaidAll(lamports, EscrowVault, legs)
        /\ auction' = [auction EXCEPT ![m].status = 2]
        /\ user_pool' = [user_pool EXCEPT
                           ![u] = WithVolume(user_pool[u], price),
                           ![creator] = WithVolume(user_pool[creator], price)]
    BY <2>p DEF ClaimAuctionNaming
  <2>2. price \in U64 /\ creator \in User /\ creator \in Key
    BY <1>2, <2>1, VaultApart
       DEF CustodyInv, PartiesKnown, AuctionOpen, AuctionData
  <2>3. lamports'[EscrowVault] >= lamports[EscrowVault] - price
    <3> HIDE DEF price, creator
    <3> QED BY <2>1, <2>2, SaleFromVault DEF legs
  <2>4. Bids[m] = price BY <1>2, <2>1 DEF Bids, LiveBid
  <2>5. /\ auction'[m].status = 2
        /\ \A k \in Mint \ {m} : auction'[k] = auction[k]
    BY <1>2, <2>1 DEF AuctionData
  <2>6. Bids'[m] = 0 BY <2>5 DEF Bids, LiveBid
  <2>7. BidTotal' = BidTotal - Bids[m] + Bids'[m] BY <1>2, <2>5, OneBid
  <2>8. EscrowTotal' = EscrowTotal
    <3>1. \A w \in User : Balances'[w] = Balances[w]
      <4> HIDE DEF price, creator
      <4> QED BY <1>2, <2>1, <2>2, VolumesOnly
    <3> QED BY <1>2, <3>1, SameBalances
  <2>9. price \in Nat BY <2>2, IntegersAssumption DEF U64
  <2> HIDE DEF price
  <2> QED BY <1>3, <1>4, <2>3, <2>4, <2>6, <2>7, <2>8, <2>9 DEF Surplus
<1>8. ASSUME NEW price \in PriceInput, UpdateReserve(u, m, price)
      PROVE  Surplus' >= Surplus
  <2>1. /\ UNCHANGED <<user_pool, lamports>>
        /\ auction' = [auction EXCEPT ![m].start_price = price]
    BY <1>8 DEF UpdateReserve
  <2>2. ASSUME NEW k \in Mint
        PROVE  /\ auction'[k].last_bidder = auction[k].last_bidder
               /\ auction'[k].highest_bid = auction[k].highest_bid
               /\ auction'[k].status = auction[k].status
    BY <1>2, <2>1 DEF AuctionData
  <2>3. \A k \in Mint : Bids'[k] = Bids[k] BY <2>2 DEF Bids, LiveBid
  <2> QED BY <1>2, <2>1, <2>3, NothingMoves DEF Balances
<1>9. CASE CancelAuction(u, m)
  <2>1. /\ UNCHANGED <<user_pool, lamports>> /\ auction[m].last_bidder = Default
        /\ auction' = [auction EXCEPT ![m].status = 0]
    BY <1>9 DEF CancelAuction
  <2>2. ASSUME NEW k \in Mint
        PROVE  /\ auction'[k].last_bidder = auction[k].last_bidder
               /\ auction'[k].highest_bid = auction[k].highest_bid
               /\ k # m => auction'[k].status = auction[k].status
    BY <1>2, <2>1 DEF AuctionData
  <2>3. \A k \in Mint : Bids'[k] = Bids[k] BY <2>1, <2>2 DEF Bids, LiveBid
  <2> QED BY <1>2, <2>1, <2>3, NothingMoves DEF Balances
<1> QED BY <1>1, <1>5, <1>6, <1>7, <1>8, <1>9

LEMMA SurplusInt ==
  ASSUME TypeOK, TypeOK'
  PROVE  Surplus \in Int /\ Surplus' \in Int
<1>1. \A u \in User : Balances'[u] \in Nat
  BY IntegersAssumption DEF TypeOK, UserData, U64, Balances
<1>2. \A m \in Mint : Bids'[m] \in Nat
  BY IntegersAssumption DEF TypeOK, AuctionData, U64, Bids, LiveBid
<1>3. Sum(User, Balances') \in Nat /\ Sum(Mint, Bids') \in Nat
  BY <1>1, <1>2, PopulationAssumption, SumNatural
<1>4. lamports'[EscrowVault] \in Nat BY DEF TypeOK
<1>5. Surplus \in Int BY DebtsNat DEF Surplus
<1>6. EscrowTotal' \in Nat /\ BidTotal' \in Nat
  BY <1>3 DEF EscrowTotal, BidTotal, Balances, Bids
<1> QED BY <1>4, <1>5, <1>6 DEF Surplus

LEMMA SurplusStep ==
  ASSUME MarketInv, MarketInv', CustodyInv, [Next]_vars
  PROVE  Surplus' >= Surplus \/ OverpaidSale \/ OverdrawnWithdrawal
<1>1. TypeOK /\ TypeOK' BY DEF MarketInv
<1>2. ASSUME UNCHANGED <<user_pool, auction, lamports>> PROVE Surplus' >= Surplus
  BY <1>1, <1>2, NothingMoves DEF Balances, Bids, LiveBid
<1>3. CASE UNCHANGED vars BY <1>2, <1>3 DEF vars, accounts
<1>4. CASE Tick BY <1>2, <1>4 DEF Tick, accounts
<1>5. CASE Administration BY <1>2, <1>5 DEF Administration, accounts
<1>6. CASE Creation BY <1>1, <1>6, CreationKeepsSurplus
<1>7. CASE Listing BY <1>7, ListingKeepsSurplus
<1>8. CASE Escrow BY <1>1, <1>8, EscrowKeepsSurplus
<1>9. CASE Offering BY <1>1, <1>9, OfferingKeepsSurplus
<1>10. CASE Auctioning BY <1>1, <1>10, AuctioningKeepsSurplus
<1> QED BY <1>3, <1>4, <1>5, <1>6, <1>7, <1>8, <1>9, <1>10 DEF Next

\* However deposits, withdrawals, offers, bids, refunds, claims and accepted
\* offers of any number of users interleave: what the vault has beyond every
\* escrow balance and every live bid is never taken out, but by a sale that
\* names a creator twice or has fees above its price, or by an overdraft.
THEOREM SurplusAlwaysKept == Spec => SurplusKept
<1>1. MarketInv /\ MarketInv' /\ CustodyInv /\ [Next]_vars =>
         [Surplus' >= Surplus \/ OverpaidSale \/ OverdrawnWithdrawal]_vars
  BY SurplusStep
<1> QED BY <1>1, MarketInvariant, CustodyHolds, PTL DEF Spec, SurplusKept

\* Where nobody does one of these, the vault has the lamports for every
\* escrow balance and every live bid at once; what the rounding of shares
\* leaves behind stays in it.
THEOREM VaultAlwaysCovers ==
  Spec /\ [][~OverpaidSale /\ ~OverdrawnWithdrawal]_vars => []VaultCovers
<1>1. Init => VaultCovers
  <2> SUFFICES ASSUME Init PROVE VaultCovers
    OBVIOUS
  <2>1. TypeOK BY MarketInit DEF MarketInv
  <2>2. lamports[EscrowVault] = 0 BY DEF Init
  <2>3. \A u \in User : Balances[u] = 0 BY DEF Init, NoUserData, Balances
  <2>4. \A m \in Mint : Bids[m] = 0 BY DEF Init, NoAuctionData, Bids, LiveBid
  <2>5. Sum(User, Balances) = 0 /\ Sum(Mint, Bids) = 0
    BY <2>3, <2>4, PopulationAssumption, SumZero
  <2> QED BY <2>1, <2>2, <2>5, DebtsNat DEF VaultCovers, Surplus
<1>2. ASSUME MarketInv, MarketInv', CustodyInv, VaultCovers, [Next]_vars,
             [~OverpaidSale /\ ~OverdrawnWithdrawal]_vars
      PROVE  VaultCovers'
  <2>1. TypeOK /\ TypeOK' BY <1>2 DEF MarketInv
  <2>2. CASE UNCHANGED vars
    <3>1. UNCHANGED <<user_pool, auction, lamports>> BY <2>2 DEF vars, accounts
    <3>2. Surplus' >= Surplus
      BY <2>1, <3>1, NothingMoves DEF Balances, Bids, LiveBid
    <3> QED BY <1>2, <2>1, <3>2, SurplusInt DEF VaultCovers
  <2>3. CASE ~OverpaidSale /\ ~OverdrawnWithdrawal
    <3>1. Surplus' >= Surplus BY <1>2, <2>3, SurplusStep
    <3> QED BY <1>2, <2>1, <3>1, SurplusInt DEF VaultCovers
  <2> QED BY <1>2, <2>2, <2>3
<1>3. MarketInv /\ MarketInv' /\ CustodyInv /\ VaultCovers /\ [Next]_vars
         /\ [~OverpaidSale /\ ~OverdrawnWithdrawal]_vars => VaultCovers'
  BY <1>2
<1> QED BY <1>1, <1>3, MarketInvariant, CustodyHolds, PTL DEF Spec

-----------------------------------------------------------------------------
(***************************************************************************)
(* Bids and refunds.                                                       *)
(***************************************************************************)
\* An outbid bidder is paid in the step that outbids him, out of a vault that
\* every other refund, claim and withdrawal draws on, and no bid is replaced
\* in any other way: neither by a new auction over the old one, nor by the
\* end of a listing beside it.
THEOREM OutbidAlwaysRefunded == Spec => OutbidIsRefunded
<1>1. ASSUME TypeOK, CustodyInv, AuctionsExist, [Next]_vars, NEW m \in Mint,
             auction[m].status = 1, auction[m].last_bidder # Default,
             auction'[m].last_bidder # auction[m].last_bidder
      PROVE  LET a == auction[m]
             IN  /\ auction'[m].status = 1
                 /\ auction'[m].highest_bid
                       >= Wrapped(a.highest_bid + a.min_increase_amount)
                 /\ lamports'[a.last_bidder] =
                       lamports[a.last_bidder] + a.highest_bid
  <2>1. auction \in [Mint -> AuctionData] BY <1>1 DEF TypeOK
  <2>2. PICK u \in User :
           \/ \E price \in PriceInput : PlaceBid(u, m, price)
           \/ ClaimAuction(u, m)
           \/ CancelAuction(u, m)
    BY <1>1, StartedAuction
  <2>3. PICK price \in PriceInput : PlaceBid(u, m, price)
    BY <1>1, <2>1, <2>2
       DEF ClaimAuction, ClaimAuctionNaming, CancelAuction, AuctionData
  <2>4. /\ auction'[m].status = 1 /\ auction'[m].highest_bid = price
        /\ lamports'[auction[m].last_bidder] =
              lamports[auction[m].last_bidder] + auction[m].highest_bid
    BY <1>1, <2>3, BidMoves
  <2>5. price >= Wrapped(auction[m].highest_bid + auction[m].min_increase_amount)
    <3> DEFINE least == Wrapped(auction[m].highest_bid
                                   + auction[m].min_increase_amount)
    <3>1. least <= price BY <2>3 DEF PlaceBid, PlaceBidRefunding
    <3>2. auction[m].highest_bid + auction[m].min_increase_amount \in Int
      BY <2>1, IntegersAssumption DEF AuctionData, U64
    <3>3. least \in Nat BY <3>2, WrappedU64
    <3>4. price \in Nat BY MarketInputAssumption, IntegersAssumption DEF U64
    <3> HIDE DEF least
    <3>5. price >= least BY <3>1, <3>3, <3>4
    <3> QED BY <3>5 DEF least
  <2> QED BY <2>4, <2>5
<1>2. TypeOK /\ CustodyInv /\ AuctionsExist /\ [Next]_vars =>
         [\A m \in Mint :
            LET a == auction[m] IN
            a.status = 1 /\ a.last_bidder # Default
                /\ auction'[m].last_bidder # a.last_bidder =>
                    /\ auction'[m].status = 1
                    /\ auction'[m].highest_bid
                          >= Wrapped(a.highest_bid + a.min_increase_amount)
                    /\ lamports'[a.last_bidder] =
                          lamports[a.last_bidder] + a.highest_bid]_vars
  BY <1>1
<1> QED BY <1>2, TypeCorrect, CustodyHolds, AuctionsAlwaysExist, PTL
        DEF Spec, OutbidIsRefunded

-----------------------------------------------------------------------------
(***************************************************************************)
(* Who spends an escrow balance.                                           *)
(***************************************************************************)
\* What a user may find taken off his balance, and what for.
SpentWell(u, spent) ==
    \/ holder' = holder /\ lamports'[u] = lamports[u] + spent
    \/ /\ holder' = holder
       /\ user_pool[u].escrow_sol_balance + (lamports[u] - lamports'[u]) > MaxU64
    \/ \E m \in Mint :
          /\ holder[m] = GlobalAuthority /\ holder'[m] = u
          /\ offer[m][u].active = 1 /\ offer'[m][u].active = 0
          /\ offer[m][u].offer_price = spent
          /\ offer[m][u].offer_listing_date = sell[m].listed_date

BalanceSpent(u) ==
    user_pool[u].escrow_sol_balance - user_pool'[u].escrow_sol_balance

\* A payment into the vault takes something off only if it does not fit.
LEMMA PaymentSpends ==
  ASSUME TypeOK, NEW owner \in User, NEW sol \in Nat,
         user_pool' = [user_pool EXCEPT
            ![owner] = WithEscrow(@, user_pool[owner].escrow_sol_balance + sol)],
         lamports' = Pay(lamports, owner, EscrowVault, sol),
         UNCHANGED holder,
         NEW u \in User, BalanceSpent(u) > 0
  PROVE  SpentWell(u, BalanceSpent(u))
<1> DEFINE D == Wallet \cup {EscrowVault}
           was == user_pool[owner].escrow_sol_balance
           balance == was + sol
           stored == WithEscrow(user_pool[owner], balance)
<1>1. /\ user_pool \in [User -> UserData] /\ lamports \in [D -> Nat]
      /\ \A w \in User : user_pool[w].escrow_sol_balance \in Nat
      /\ was \in Nat /\ balance \in Nat /\ MaxU64 \in Nat
      /\ owner \in D /\ EscrowVault \in D /\ owner # EscrowVault
  BY VaultApart, BalanceInt, IntegersAssumption DEF TypeOK
<1>2. /\ user_pool'[owner] = stored
      /\ \A w \in User \ {owner} : user_pool'[w] = user_pool[w]
  BY <1>1
<1>3. /\ stored.escrow_sol_balance \in Nat
      /\ balance <= MaxU64 => stored.escrow_sol_balance = balance
  <2> HIDE DEF balance
  <2> QED BY <1>1, StoredBalance
<1> HIDE DEF stored
<1>4. u = owner BY <1>1, <1>2 DEF BalanceSpent
<1>5. balance > MaxU64
  <2>1. was - stored.escrow_sol_balance > 0 BY <1>2, <1>4 DEF BalanceSpent
  <2> QED BY <1>1, <1>3, <2>1
<1>6. lamports[owner] - lamports'[owner] = sol
  <2>1. Paid(lamports', lamports, D, owner, EscrowVault, sol)
    BY <1>1, PayParts
  <2>2. lamports'[owner] = lamports[owner] - sol BY <2>1 DEF Paid
  <2>3. lamports[owner] \in Nat BY <1>1
  <2> QED BY <2>2, <2>3
<1> QED BY <1>4, <1>5, <1>6 DEF SpentWell

\* A withdrawal pays what it takes off; an overdraft takes nothing off.
LEMMA WithdrawalSpends ==
  ASSUME TypeOK, NEW owner \in User, NEW sol \in PriceInput,
         WithdrawFromEscrow(owner, sol),
         NEW u \in User, BalanceSpent(u) > 0
  PROVE  SpentWell(u, BalanceSpent(u))
<1> DEFINE D == Wallet \cup {EscrowVault}
           was == user_pool[owner].escrow_sol_balance
           balance == was - sol
           stored == WithEscrow(user_pool[owner], balance)
<1>1. /\ user_pool \in [User -> UserData] /\ lamports \in [D -> Nat]
      /\ \A w \in User : user_pool[w].escrow_sol_balance \in Nat
      /\ was \in Nat /\ was <= MaxU64 /\ sol \in Nat /\ sol <= MaxU64
      /\ MaxU64 \in Nat
      /\ owner \in D /\ EscrowVault \in D /\ owner # EscrowVault
  BY VaultApart, MarketInputAssumption, IntegersAssumption
     DEF TypeOK, UserData, U64
<1>2. /\ user_pool'[owner] = stored
      /\ \A w \in User \ {owner} : user_pool'[w] = user_pool[w]
      /\ lamports' = Pay(lamports, EscrowVault, owner, sol)
      /\ UNCHANGED holder
  BY <1>1 DEF WithdrawFromEscrow
<1>3. stored.escrow_sol_balance = Wrapped(balance)
  BY <1>1 DEF WithEscrow, UserData
<1> HIDE DEF stored
<1>4. u = owner BY <1>1, <1>2 DEF BalanceSpent
<1>5. was - Wrapped(balance) > 0 BY <1>2, <1>3, <1>4 DEF BalanceSpent
<1>6. sol <= was
  <2> SUFFICES ASSUME ~(sol <= was) PROVE FALSE OBVIOUS
  <2>1. balance \in Int /\ -MaxU64 <= balance /\ balance < 0 BY <1>1
  <2>2. Wrapped(balance) = balance + MaxU64 + 1
    <3> HIDE DEF balance
    <3> QED BY <2>1, WrappedBelow
  <2> QED BY <1>1, <1>5, <2>2
<1>7. Wrapped(balance) = balance
  <2>1. balance \in Nat /\ balance <= MaxU64 BY <1>1, <1>6
  <2> HIDE DEF balance
  <2> QED BY <2>1, WrappedAtMost
<1>8. BalanceSpent(u) = sol BY <1>1, <1>2, <1>3, <1>4, <1>7 DEF BalanceSpent
<1>9. lamports'[owner] = lamports[owner] + sol
  <2>1. Paid(lamports', lamports, D, EscrowVault, owner, sol)
    BY <1>1, <1>2, PayParts
  <2> QED BY <1>1, <2>1 DEF Paid
<1> QED BY <1>2, <1>4, <1>8, <1>9 DEF SpentWell

LEMMA OfferSpends ==
  ASSUME TypeOK, Offering, NEW u \in User, BalanceSpent(u) > 0
  PROVE  SpentWell(u, BalanceSpent(u))
<1>1. /\ user_pool \in [User -> UserData]
      /\ offer \in [Mint -> [User -> OfferData]]
      /\ holder \in [Mint -> User \cup {GlobalAuthority}]
      /\ \A w \in User : user_pool[w].escrow_sol_balance \in Nat
  BY BalanceInt DEF TypeOK
<1>2. ASSUME NEW owner \in User, NEW m \in Mint, NEW price \in PriceInput,
             MakeOffer(owner, m, price)
      PROVE  SpentWell(u, BalanceSpent(u))
  <2>1. price \in Nat
    BY MarketInputAssumption, IntegersAssumption DEF U64
  <2>2. /\ user_pool' = [user_pool EXCEPT
              ![owner] = WithEscrow(@, user_pool[owner].escrow_sol_balance + price)]
        /\ lamports' = Pay(lamports, owner, EscrowVault, price)
        /\ UNCHANGED holder
    BY <1>1, <1>2 DEF MakeOffer
  <2> QED BY <2>1, <2>2, PaymentSpends
<1>3. ASSUME NEW owner \in User, NEW m \in Mint, CancelOffer(owner, m)
      PROVE  FALSE
  BY <1>1, <1>3 DEF CancelOffer, BalanceSpent
<1>4. ASSUME NEW seller \in User, NEW buyer \in User, NEW m \in Mint,
             AcceptOffer(seller, buyer, m)
      PROVE  SpentWell(u, BalanceSpent(u))
  <2> DEFINE price == offer[m][buyer].offer_price
  <2>1. /\ user_pool'[buyer].escrow_sol_balance
              = user_pool[buyer].escrow_sol_balance - price
        /\ \A w \in User \ {buyer} : user_pool'[w].escrow_sol_balance
                                      = user_pool[w].escrow_sol_balance
    BY <1>4, AcceptMoves DEF Balances
  <2>2. price \in Nat BY <1>1, IntegersAssumption DEF OfferData, U64
  <2>3. u = buyer /\ BalanceSpent(u) = price BY <1>1, <2>1, <2>2 DEF BalanceSpent
  <2>4. /\ holder[m] = GlobalAuthority /\ OfferStands(buyer, m)
        /\ offer' = [offer EXCEPT ![m][buyer].active = 0]
        /\ holder' = [holder EXCEPT ![m] = buyer]
    BY <1>4 DEF AcceptOffer, AcceptOfferNaming, AcceptOfferAccounts
  <2>5. holder'[m] = buyer /\ offer'[m][buyer].active = 0
    BY <1>1, <2>4 DEF OfferData
  <2> QED BY <2>3, <2>4, <2>5 DEF SpentWell, OfferStands
<1> QED BY <1>2, <1>3, <1>4 DEF Offering

\* Everything else leaves every balance alone.
LEMMA OthersKeepBalances ==
  ASSUME TypeOK, CustodyInv, NEW u \in User,
         \/ UNCHANGED vars \/ Tick \/ Administration
         \/ Creation \/ Listing \/ Auctioning
  PROVE  Balances'[u] = Balances[u]
<1>1. user_pool \in [User -> UserData] BY DEF TypeOK
<1>2. ASSUME UNCHANGED user_pool PROVE Balances'[u] = Balances[u]
  BY <1>2 DEF Balances
<1>3. CASE UNCHANGED vars BY <1>2, <1>3 DEF vars, accounts
<1>4. CASE Tick BY <1>2, <1>4 DEF Tick, accounts
<1>5. CASE Administration BY <1>2, <1>5 DEF Administration, accounts
<1>6. CASE Creation
  <2>1. ASSUME NEW owner \in User, InitUserPool(owner) PROVE Balances'[u] = Balances[u]
    <3>1. user_pool'[u].escrow_sol_balance = user_pool[u].escrow_sol_balance
      BY <1>1, <2>1 DEF InitUserPool, UserData
    <3> QED BY <3>1 DEF Balances
  <2> QED BY <1>2, <1>6, <2>1
          DEF Creation, InitSellData, InitAuctionData, InitOfferData
<1>7. CASE Listing
  <2>1. CASE \E buyer \in User, m \in Mint : Purchase(buyer, m)
    <3>1. PICK buyer \in User, m \in Mint : Purchase(buyer, m) BY <2>1
    <3>2. PICK seller, price :
             /\ seller \in User
             /\ user_pool' = [user_pool EXCEPT
                                ![buyer] = WithVolume(user_pool[buyer], price),
                                ![seller] = WithVolume(user_pool[seller], price)]
      BY <3>1 DEF Purchase, PurchaseNaming
    <3> QED BY <3>2, VolumesOnly
  <2>2. CASE ~(\E buyer \in User, m \in Mint : Purchase(buyer, m))
    BY <1>2, <1>7, <2>2
       DEF Listing, ListNftForSale, DelistNft, SetPrice, TransferNft,
           TransferFromVault, accounts
  <2> QED BY <2>1, <2>2
<1>8. CASE Auctioning
  <2>1. CASE \E winner \in User, m \in Mint : ClaimAuction(winner, m)
    <3>1. PICK winner \in User, m \in Mint : ClaimAuction(winner, m) BY <2>1
    <3>2. auction[m].creator \in User
      BY <3>1 DEF ClaimAuction, ClaimAuctionNaming, CustodyInv, PartiesKnown,
                  AuctionOpen
    <3>3. PICK creator, price :
             /\ creator \in User
             /\ user_pool' = [user_pool EXCEPT
                                ![winner] = WithVolume(user_pool[winner], price),
                                ![creator] = WithVolume(user_pool[creator], price)]
      BY <3>1, <3>2 DEF ClaimAuction, ClaimAuctionNaming
    <3> QED BY <3>3, VolumesOnly
  <2>2. CASE ~(\E winner \in User, m \in Mint : ClaimAuction(winner, m))
    BY <1>2, <1>8, <2>2
       DEF Auctioning, CreateAuction, PlaceBid, PlaceBidRefunding,
           UpdateReserve, CancelAuction
  <2> QED BY <2>1, <2>2
<1> QED BY <1>3, <1>4, <1>5, <1>6, <1>7, <1>8

\* A balance only shrinks by what its owner takes out, or pays for an NFT he
\* has an active offer for: sellers, rivals and the admin cannot spend it,
\* and an accepted offer cannot be accepted a second time.
THEOREM EscrowOnlySpentByOwner == Spec => EscrowSpentByOwner
<1>1. ASSUME TypeOK, CustodyInv, [Next]_vars, NEW u \in User, BalanceSpent(u) > 0
      PROVE  SpentWell(u, BalanceSpent(u))
  <2>1. CASE Escrow
    <3>1. PICK owner \in User, sol \in PriceInput :
             DepositToEscrow(owner, sol) \/ WithdrawFromEscrow(owner, sol)
      BY <2>1 DEF Escrow
    <3>2. CASE WithdrawFromEscrow(owner, sol) BY <1>1, <3>2, WithdrawalSpends
    <3>3. CASE DepositToEscrow(owner, sol)
      <4>1. sol \in Nat BY MarketInputAssumption, IntegersAssumption DEF U64
      <4>2. /\ user_pool' = [user_pool EXCEPT
                  ![owner] = WithEscrow(@, user_pool[owner].escrow_sol_balance + sol)]
            /\ lamports' = Pay(lamports, owner, EscrowVault, sol)
            /\ UNCHANGED holder
        BY <3>3 DEF DepositToEscrow
      <4> QED BY <1>1, <4>1, <4>2, PaymentSpends
    <3> QED BY <3>1, <3>2, <3>3
  <2>2. CASE Offering BY <1>1, <2>2, OfferSpends
  <2>3. CASE \/ UNCHANGED vars \/ Tick \/ Administration
             \/ Creation \/ Listing \/ Auctioning
    <3>1. Balances'[u] = Balances[u] BY <1>1, <2>3, OthersKeepBalances
    <3>2. user_pool[u].escrow_sol_balance \in Nat BY <1>1, BalanceInt
    <3> QED BY <1>1, <3>1, <3>2 DEF Balances, BalanceSpent
  <2> QED BY <1>1, <2>1, <2>2, <2>3 DEF Next
<1>2. TypeOK /\ CustodyInv /\ [Next]_vars =>
         [\A u \in User : BalanceSpent(u) > 0 => SpentWell(u, BalanceSpent(u))]_vars
  BY <1>1
<1>3. [\A u \in User : BalanceSpent(u) > 0 => SpentWell(u, BalanceSpent(u))]_vars =>
         [\A u \in User :
            LET balance == user_pool[u].escrow_sol_balance
                spent == balance - user_pool'[u].escrow_sol_balance
            IN  spent > 0 =>
                  \/ holder' = holder /\ lamports'[u] = lamports[u] + spent
                  \/ holder' = holder /\ balance + (lamports[u] - lamports'[u]) > MaxU64
                  \/ \E m \in Mint :
                        /\ holder[m] = GlobalAuthority /\ holder'[m] = u
                        /\ offer[m][u].active = 1 /\ offer'[m][u].active = 0
                        /\ offer[m][u].offer_price = spent
                        /\ offer[m][u].offer_listing_date = sell[m].listed_date
         ]_vars
  BY DEF BalanceSpent, SpentWell
<1> QED BY <1>2, <1>3, TypeCorrect, CustodyHolds, PTL
        DEF Spec, EscrowSpentByOwner
=============================================================================
