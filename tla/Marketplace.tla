----------------------------- MODULE Marketplace -----------------------------
(***************************************************************************)
(* The Mds_Marketplace program: listings, offers, auctions and the escrow  *)
(* of users' lamports, over the accounts they share.  A transaction is one *)
(* action: Solana runs an instruction to its end or undoes it, so a failed *)
(* `require!`, a failed transfer or a trapped overflow disables the action.*)
(*                                                                         *)
(* XAccounts is the accounts struct X of the instruction: the accounts     *)
(* that must exist (PDAs are derived from the mint or the signer, so the   *)
(* seeds fix which account it is) and the constraints on them.             *)
(***************************************************************************)
EXTENDS Payments

CONSTANTS
    PriceInput,        \* lamport arguments: prices, bids, deposits
    MinIncreaseInput,  \* min_increase arguments of create_auction
    DurationInput,     \* duration arguments of create_auction
    Endowment,         \* lamports each wallet starts with
    StartTime,         \* clock when the program is deployed
    MaxTime,           \* bound: the clock stops here
    MaxVolume          \* bound: traded_volume of a user stops here

ASSUME MarketInputAssumption ==
    /\ PriceInput \subseteq U64
    /\ MinIncreaseInput \subseteq U64
    /\ DurationInput \subseteq I64
    /\ StartTime \in I64 /\ MaxTime \in I64
    /\ Endowment \in [Wallet -> Nat]

\* Only so many wallets and mints have accounts of the program, whose rent
\* somebody paid.
ASSUME PopulationAssumption == IsFiniteSet(User) /\ IsFiniteSet(Mint)

VARIABLES
    now,        \* Clock::unix_timestamp
    user_pool,  \* UserData of each user
    sell,       \* SellData of each mint
    offer,      \* OfferData of each mint and buyer
    auction,    \* AuctionData of each mint
    lamports,   \* balances of the wallets and of the escrow vault
    holder      \* whose token account has the NFT

accounts == <<user_pool, sell, offer, auction>>
vars == <<global_authority, now, accounts, lamports, holder>>

\* A PDA exists once its init instruction stored the key it is derived from;
\* handlers compare that key with the mint or the signer again.
PoolExists(u) == user_pool[u].address = u
SellExists(m) == sell[m].mint = m
AuctionExists(m) == auction[m].mint = m
OfferExists(m, u) == offer[m][u].mint = m /\ offer[m][u].buyer = u

\* An auction's end date, as get_end_date computes it.
RawEndDate(a) == a.start_date + a.duration
EndDate(a) == WrappedI64(RawEndDate(a))

Init ==
    /\ TreasuryInit
    /\ now = StartTime
    /\ user_pool = [u \in User |-> NoUserData]
    /\ sell = [m \in Mint |-> NoSellData]
    /\ offer = [m \in Mint |-> [u \in User |-> NoOfferData]]
    /\ auction = [m \in Mint |-> NoAuctionData]
    /\ lamports = [w \in Wallet \cup {EscrowVault} |->
                      IF w = EscrowVault THEN 0 ELSE Endowment[w]]
    /\ holder \in [Mint -> User]

-----------------------------------------------------------------------------
(***************************************************************************)
(* Creation of the PDAs.  Anchor `init` fails on an account that exists.   *)
(***************************************************************************)
InitUserPool(owner) ==
    /\ ~PoolExists(owner)
    /\ user_pool' = [user_pool EXCEPT ![owner].address = owner]
    /\ UNCHANGED <<global_authority, now, sell, offer, auction, lamports, holder>>

InitSellData(nft) ==
    /\ ~SellExists(nft)
    /\ sell' = [sell EXCEPT ![nft].mint = nft]
    /\ UNCHANGED <<global_authority, now, user_pool, offer, auction, lamports, holder>>

InitAuctionData(nft) ==
    /\ ~AuctionExists(nft)
    /\ auction' = [auction EXCEPT ![nft].mint = nft]
    /\ UNCHANGED <<global_authority, now, user_pool, sell, offer, lamports, holder>>

InitOfferData(payer, nft) ==
    /\ ~OfferExists(nft, payer)
    /\ offer' = [offer EXCEPT ![nft][payer].mint = nft,
                              ![nft][payer].buyer = payer]
    /\ UNCHANGED <<global_authority, now, user_pool, sell, auction, lamports, holder>>

-----------------------------------------------------------------------------
(***************************************************************************)
(* Listing.                                                                *)
(***************************************************************************)
\* Mutant: the creator of the reserved auction is not compared.
ReservedByAnyone(m, signer) == TRUE

\* The signer created the reserved auction, if there is one.
ReservedBySigner(m, signer) ==
    auction[m].status = 3 => auction[m].creator = signer

ListNftForSaleAccounts(m) ==
    GlobalExists /\ SellExists(m) /\ AuctionExists(m)

\* Under a reserved auction the NFT is in escrow already.
ListNftForSale(owner, m, price_sol) ==
    /\ ListNftForSaleAccounts(m)
    /\ auction[m].status # 1
    /\ ReservedBySigner(m, owner)
    /\ HasCreators(m)
    /\ sell' = [sell EXCEPT ![m] = [mint |-> m, seller |-> owner,
                                    price_sol |-> price_sol,
                                    listed_date |-> now, active |-> 1]]
    /\ \/ /\ auction[m].status # 3
          /\ holder[m] = owner
          /\ holder' = [holder EXCEPT ![m] = GlobalAuthority]
       \/ /\ auction[m].status = 3
          /\ holder[m] = GlobalAuthority
          /\ UNCHANGED holder
    /\ UNCHANGED <<global_authority, now, user_pool, offer, auction, lamports>>

DelistNftAccounts(m) ==
    /\ GlobalExists /\ SellExists(m) /\ AuctionExists(m)
    /\ holder[m] = GlobalAuthority

\* A reserved auction keeps the NFT in escrow.
DelistNft(owner, m) ==
    /\ DelistNftAccounts(m)
    /\ sell[m].seller = owner
    /\ sell[m].active = 1
    /\ ReservedBySigner(m, owner)
    /\ sell' = [sell EXCEPT ![m].active = 0]
    /\ holder' = IF auction[m].status # 3
                 THEN [holder EXCEPT ![m] = owner] ELSE holder
    /\ UNCHANGED <<global_authority, now, user_pool, offer, auction, lamports>>

SetPrice(owner, m, price) ==
    /\ SellExists(m)
    /\ sell[m].seller = owner
    /\ sell[m].active = 1
    /\ sell' = [sell EXCEPT ![m].price_sol = price]
    /\ UNCHANGED <<global_authority, now, user_pool, offer, auction, lamports, holder>>

\* A wallet to wallet transfer; no program account is involved.
TransferNft(owner, recipient, m) ==
    /\ holder[m] = owner
    /\ holder' = [holder EXCEPT ![m] = recipient]
    /\ UNCHANGED <<global_authority, now, accounts, lamports>>

TransferFromVaultAccounts(m) ==
    /\ GlobalExists /\ SellExists(m) /\ AuctionExists(m)
    /\ holder[m] = GlobalAuthority

\* Mutant: the reserved auction stays.
EndListingOnly(m) ==
    sell' = [sell EXCEPT ![m].active = 0] /\ UNCHANGED auction

\* The listing of m ends, and with it a reserved auction.
EndListing(m) ==
    /\ sell' = [sell EXCEPT ![m].active = 0]
    /\ auction' = [auction EXCEPT ![m].status = IF @ = 3 THEN 0 ELSE @]

TransferFromVault(owner, recipient, m) ==
    /\ TransferFromVaultAccounts(m)
    /\ sell[m].seller = owner
    /\ sell[m].active = 1
    /\ ReservedBySigner(m, owner)
    /\ EndListing(m)
    /\ holder' = [holder EXCEPT ![m] = recipient]
    /\ UNCHANGED <<global_authority, now, user_pool, offer, lamports>>

-----------------------------------------------------------------------------
(***************************************************************************)
(* Sale of a listed NFT.                                                   *)
(***************************************************************************)
PurchaseNftAccounts(buyer, seller, m) ==
    /\ GlobalExists /\ SellExists(m) /\ AuctionExists(m)
    /\ PoolExists(buyer) /\ PoolExists(seller)
    /\ holder[m] = GlobalAuthority

WithVolume(pool, price) ==
    [pool EXCEPT !.traded_volume = Wrapped(@ + price)]

\* Both sides count the price.  MaxVolume bounds the exploration.
VolumeComputes(u, price) ==
    /\ Computes(user_pool[u].traded_volume + price)
    /\ user_pool[u].traded_volume + price <= MaxVolume

\* A sale whose buyer names the accounts `remaining` to be paid.  A user who
\* trades with himself names the same PDA twice: each name is a copy of the
\* account and the copy stored last, the seller's, stays.
PurchaseNaming(buyer, m, remaining) ==
    LET seller == sell[m].seller
        price == sell[m].price_sol
        legs == SettlementLegs(price, m, seller, remaining)
    IN  /\ seller \in User
        /\ PurchaseNftAccounts(buyer, seller, m)
        /\ ReservedBySigner(m, seller)
        /\ sell[m].active = 1
        /\ SaleCanSettle(price, m)
        /\ RemainingFit(remaining, m)
        /\ CanPayAll(lamports, buyer, legs)
        /\ VolumeComputes(buyer, price) /\ VolumeComputes(seller, price)
        /\ EndListing(m)
        /\ lamports' = PaidAll(lamports, buyer, legs)
        /\ user_pool' =
             [user_pool EXCEPT
                ![buyer]  = WithVolume(user_pool[buyer], price),
                ![seller] = WithVolume(user_pool[seller], price)]
        /\ holder' = [holder EXCEPT ![m] = buyer]
        /\ UNCHANGED <<global_authority, now, offer>>

Purchase(buyer, m) ==
    /\ HasCreators(m)
    /\ \E remaining \in RemainingLists(m) : PurchaseNaming(buyer, m, remaining)

-----------------------------------------------------------------------------
(***************************************************************************)
(* The escrow of a user's lamports.                                        *)
(***************************************************************************)
WithEscrow(pool, balance) == [pool EXCEPT !.escrow_sol_balance = Wrapped(balance)]

DepositToEscrow(owner, sol) ==
    LET balance == user_pool[owner].escrow_sol_balance + sol
    IN  /\ PoolExists(owner)
        /\ sol > 0
        /\ CanPay(lamports, owner, sol)
        /\ Computes(balance)
        /\ lamports' = Pay(lamports, owner, EscrowVault, sol)
        /\ user_pool' = [user_pool EXCEPT ![owner] = WithEscrow(@, balance)]
        /\ UNCHANGED <<global_authority, now, sell, offer, auction, holder>>

\* Mutant: the balance is checked but not debited.
WithdrawUndebited(owner, sol) ==
    /\ PoolExists(owner)
    /\ sol > 0
    /\ CanPay(lamports, EscrowVault, sol)
    /\ Computes(user_pool[owner].escrow_sol_balance - sol)
    /\ lamports' = Pay(lamports, EscrowVault, owner, sol)
    /\ UNCHANGED <<global_authority, now, accounts, holder>>

\* The balance is compared with nothing: an overdraft stops at the overflow
\* check of the subtraction.
WithdrawFromEscrow(owner, sol) ==
    LET balance == user_pool[owner].escrow_sol_balance - sol
    IN  /\ PoolExists(owner)
        /\ sol > 0
        /\ CanPay(lamports, EscrowVault, sol)
        /\ Computes(balance)
        /\ lamports' = Pay(lamports, EscrowVault, owner, sol)
        /\ user_pool' = [user_pool EXCEPT ![owner] = WithEscrow(@, balance)]
        /\ UNCHANGED <<global_authority, now, sell, offer, auction, holder>>

-----------------------------------------------------------------------------
(***************************************************************************)
(* Offers.                                                                 *)
(***************************************************************************)
MakeOfferAccounts(owner, m) ==
    SellExists(m) /\ OfferExists(m, owner) /\ PoolExists(owner)

\* "Offer price range is from x1 to x0.5".
OfferPriceInRange(listed, price) == listed > price /\ listed \div 2 <= price

\* Every call deposits the price, also one that replaces an active offer.
MakeOffer(owner, m, price) ==
    LET balance == user_pool[owner].escrow_sol_balance + price
    IN  /\ MakeOfferAccounts(owner, m)
        /\ sell[m].active = 1
        /\ OfferPriceInRange(sell[m].price_sol, price)
        /\ CanPay(lamports, owner, price)
        /\ Computes(balance)
        /\ offer' = [offer EXCEPT
                       ![m][owner].offer_listing_date = sell[m].listed_date,
                       ![m][owner].offer_price = price,
                       ![m][owner].active = 1]
        /\ lamports' = Pay(lamports, owner, EscrowVault, price)
        /\ user_pool' = [user_pool EXCEPT ![owner] = WithEscrow(@, balance)]
        /\ UNCHANGED <<global_authority, now, sell, auction, holder>>

\* The price stays in the user's escrow balance.
CancelOffer(owner, m) ==
    /\ OfferExists(m, owner)
    /\ offer[m][owner].active = 1
    /\ offer' = [offer EXCEPT ![m][owner].active = 0]
    /\ UNCHANGED <<global_authority, now, user_pool, sell, auction, lamports, holder>>

AcceptOfferAccounts(seller, buyer, m) ==
    /\ GlobalExists /\ SellExists(m) /\ AuctionExists(m)
    /\ OfferExists(m, buyer)
    /\ PoolExists(seller) /\ PoolExists(buyer)
    /\ holder[m] = GlobalAuthority

\* Mutant: an offer stands for every later listing of the NFT.
OfferStandsForever(buyer, m) == offer[m][buyer].active = 1

\* The offer is active and was made on this listing, told by its date.
OfferStands(buyer, m) ==
    /\ offer[m][buyer].active = 1
    /\ offer[m][buyer].offer_listing_date = sell[m].listed_date

\* The seller names the accounts that the vault pays.  Here the buyer's copy
\* of the user PDA is the one stored last.
AcceptOfferNaming(seller, buyer, m, remaining) ==
    LET price == offer[m][buyer].offer_price
        balance == user_pool[buyer].escrow_sol_balance - price
        legs == SettlementLegs(price, m, seller, remaining)
    IN  /\ AcceptOfferAccounts(seller, buyer, m)
        /\ ReservedBySigner(m, seller)
        /\ sell[m].active = 1
        /\ sell[m].seller = seller
        /\ OfferStands(buyer, m)
        /\ balance >= 0
        /\ VolumeComputes(buyer, price) /\ VolumeComputes(seller, price)
        /\ SaleCanSettle(price, m)
        /\ RemainingFit(remaining, m)
        /\ CanPayAll(lamports, EscrowVault, legs)
        /\ offer' = [offer EXCEPT ![m][buyer].active = 0]
        /\ EndListing(m)
        /\ lamports' = PaidAll(lamports, EscrowVault, legs)
        /\ user_pool' =
             [user_pool EXCEPT
                ![seller] = WithVolume(user_pool[seller], price),
                ![buyer]  = WithEscrow(WithVolume(user_pool[buyer], price),
                                       balance)]
        /\ holder' = [holder EXCEPT ![m] = buyer]
        /\ UNCHANGED <<global_authority, now>>

AcceptOffer(seller, buyer, m) ==
    /\ HasCreators(m)
    /\ \E remaining \in RemainingLists(m) :
          AcceptOfferNaming(seller, buyer, m, remaining)

-----------------------------------------------------------------------------
(***************************************************************************)
(* Auctions.                                                               *)
(***************************************************************************)
CreateAuctionAccounts(m) ==
    GlobalExists /\ SellExists(m) /\ AuctionExists(m)

\* A reserved auction keeps the start_date, and every new auction the
\* last_bid_date, of the auction before it.
NewAuction(a, owner, start_price, min_increase, duration, reserved) ==
    [a EXCEPT !.creator = owner,
              !.start_price = start_price,
              !.min_increase_amount = min_increase,
              !.duration = duration,
              !.last_bidder = Default,
              !.highest_bid = Wrapped(start_price - min_increase),
              !.status = IF reserved = 0 THEN 1 ELSE 3,
              !.start_date = IF reserved = 0 THEN now ELSE a.start_date]

\* The status the auction had before is not looked at: only the NFT's place
\* and the listing are.
CreateAuction(owner, m, start_price, min_increase, duration, reserved) ==
    /\ CreateAuctionAccounts(m)
    /\ reserved < 2
    /\ reserved = 0 => sell[m].active = 0
    /\ sell[m].active = 1 => sell[m].seller = owner
    /\ Computes(start_price - min_increase)
    /\ auction' =
         [auction EXCEPT ![m] = NewAuction(@, owner, start_price, min_increase,
                                           duration, reserved)]
    /\ \/ /\ sell[m].active = 0
          /\ holder[m] = owner
          /\ holder' = [holder EXCEPT ![m] = GlobalAuthority]
       \/ /\ sell[m].active = 1
          /\ holder[m] = GlobalAuthority
          /\ UNCHANGED holder
    /\ UNCHANGED <<global_authority, now, user_pool, sell, offer, lamports>>

PlaceBidAccounts(m) == SellExists(m) /\ AuctionExists(m)

\* Mutant: a bid in the second the auction ends still counts.
BiddingOpenAtEnd(a) ==
    \/ a.status = 3
    \/ a.status = 1 /\ ComputesI64(RawEndDate(a)) /\ EndDate(a) >= now

\* Open for bids: not started yet, or started and not ended.
BiddingOpen(a) ==
    \/ a.status = 3
    \/ a.status = 1 /\ ComputesI64(RawEndDate(a)) /\ EndDate(a) > now

\* Mutant: whoever the transaction names is refunded.
NamesAnyOutBidder(a, out_bidder) == TRUE

\* The account the transaction names for the refund is the last bidder's.
NamesOutBidder(a, out_bidder) ==
    a.last_bidder = Default \/ out_bidder = a.last_bidder

\* Mutant: the refund is the start price.
RefundedAtStart(a, out_bidder) ==
    IF a.last_bidder = Default THEN lamports
    ELSE Pay(lamports, EscrowVault, out_bidder, a.start_price)

\* Balances after the outbid bidder has his bid back.
Refunded(a, out_bidder) ==
    IF a.last_bidder = Default THEN lamports
    ELSE Pay(lamports, EscrowVault, out_bidder, a.highest_bid)

\* Mutant: the first bid does not start a reserved auction.
AfterBidUnstarted(a, bidder, price) ==
    [a EXCEPT !.last_bid_date = now,
              !.last_bidder = bidder,
              !.highest_bid = price]

\* The auction with the new bid in it.
AfterBid(a, bidder, price) ==
    [a EXCEPT !.last_bid_date = now,
              !.last_bidder = bidder,
              !.highest_bid = price,
              !.status = 1,
              !.start_date = IF a.status = 3 THEN now ELSE a.start_date]

\* The first bid of a reserved auction starts it and ends the listing.
PlaceBidRefunding(bidder, m, price, out_bidder) ==
    LET a == auction[m]
    IN  /\ PlaceBidAccounts(m)
        /\ BiddingOpen(a)
        /\ Computes(a.highest_bid + a.min_increase_amount)
        /\ Wrapped(a.highest_bid + a.min_increase_amount) <= price
        /\ NamesOutBidder(a, out_bidder)
        /\ bidder # a.last_bidder
        /\ bidder # a.creator
        /\ sell[m].active = 1 => a.creator = sell[m].seller
        /\ a.last_bidder # Default =>
              CanPay(lamports, EscrowVault, a.highest_bid)
        /\ CanPay(Refunded(a, out_bidder), bidder, price)
        /\ lamports' = Pay(Refunded(a, out_bidder), bidder, EscrowVault, price)
        /\ auction' = [auction EXCEPT ![m] = AfterBid(a, bidder, price)]
        /\ sell' = [sell EXCEPT ![m].active = IF a.status = 3 THEN 0 ELSE @]
        /\ UNCHANGED <<global_authority, now, user_pool, offer, holder>>

PlaceBid(bidder, m, price) ==
    PlaceBidRefunding(bidder, m, price, auction[m].last_bidder)

\* The end date has passed.
AuctionOver(a) == ComputesI64(RawEndDate(a)) /\ EndDate(a) <= now

ClaimAuctionAccounts(bidder, creator, m) ==
    /\ GlobalExists /\ AuctionExists(m)
    /\ PoolExists(bidder) /\ PoolExists(creator)
    /\ holder[m] = GlobalAuthority

\* The winner signs and names the accounts that the vault pays, out of his
\* bid.
ClaimAuctionNaming(bidder, m, remaining) ==
    LET a == auction[m]
        price == a.highest_bid
        legs == SettlementLegs(price, m, a.creator, remaining)
    IN  /\ a.status = 1
        /\ a.last_bidder = bidder
        /\ ClaimAuctionAccounts(bidder, a.creator, m)
        /\ AuctionOver(a)
        /\ VolumeComputes(bidder, price) /\ VolumeComputes(a.creator, price)
        /\ SaleCanSettle(price, m)
        /\ RemainingFit(remaining, m)
        /\ CanPayAll(lamports, EscrowVault, legs)
        /\ auction' = [auction EXCEPT ![m].status = 2]
        /\ lamports' = PaidAll(lamports, EscrowVault, legs)
        /\ user_pool' =
             [user_pool EXCEPT
                ![bidder]    = WithVolume(user_pool[bidder], price),
                ![a.creator] = WithVolume(user_pool[a.creator], price)]
        /\ holder' = [holder EXCEPT ![m] = bidder]
        /\ UNCHANGED <<global_authority, now, sell, offer>>

ClaimAuction(bidder, m) ==
    /\ HasCreators(m)
    /\ \E remaining \in RemainingLists(m) :
          ClaimAuctionNaming(bidder, m, remaining)

\* Only start_price changes; bids are compared with highest_bid.
UpdateReserve(creator, m, price) ==
    /\ AuctionExists(m)
    /\ auction[m].status = 3
    /\ auction[m].last_bidder = Default
    /\ auction[m].creator = creator
    /\ auction' = [auction EXCEPT ![m].start_price = price]
    /\ UNCHANGED <<global_authority, now, user_pool, sell, offer, lamports, holder>>

CancelAuctionAccounts(m) ==
    /\ GlobalExists /\ SellExists(m) /\ AuctionExists(m)
    /\ holder[m] = GlobalAuthority

\* An NFT that is listed as well stays in escrow for the listing.
CancelAuction(creator, m) ==
    LET a == auction[m]
    IN  /\ CancelAuctionAccounts(m)
        /\ AuctionOver(a)
        /\ a.status = 1 \/ a.status = 3
        /\ a.last_bidder = Default
        /\ a.creator = creator
        /\ sell[m].active = 1 => sell[m].seller = creator
        /\ auction' = [auction EXCEPT ![m].status = 0]
        /\ holder' = IF sell[m].active = 0
                     THEN [holder EXCEPT ![m] = creator] ELSE holder
        /\ UNCHANGED <<global_authority, now, user_pool, sell, offer, lamports>>

-----------------------------------------------------------------------------
\* The cluster clock, in seconds: many transactions can share a second.
Tick ==
    /\ now < MaxTime
    /\ now' = now + 1
    /\ UNCHANGED <<global_authority, accounts, lamports, holder>>

Administration == TreasuryNext /\ UNCHANGED <<now, accounts, lamports, holder>>

Creation ==
    \/ \E m \in Mint : InitSellData(m) \/ InitAuctionData(m)
    \/ \E u \in User : InitUserPool(u) \/ \E m \in Mint : InitOfferData(u, m)

Listing ==
    \E u \in User, m \in Mint :
        \/ \E price \in PriceInput : ListNftForSale(u, m, price)
        \/ DelistNft(u, m)
        \/ \E price \in PriceInput : SetPrice(u, m, price)
        \/ \E recipient \in User : TransferNft(u, recipient, m)
        \/ \E recipient \in User : TransferFromVault(u, recipient, m)
        \/ Purchase(u, m)

Escrow ==
    \E u \in User, sol \in PriceInput :
        DepositToEscrow(u, sol) \/ WithdrawFromEscrow(u, sol)

Offering ==
    \E u \in User, m \in Mint :
        \/ \E price \in PriceInput : MakeOffer(u, m, price)
        \/ CancelOffer(u, m)
        \/ \E buyer \in User : AcceptOffer(u, buyer, m)

Auctioning ==
    \E u \in User, m \in Mint :
        \/ \E price \in PriceInput, min_increase \in MinIncreaseInput,
              duration \in DurationInput, reserved \in 0 .. 1 :
              CreateAuction(u, m, price, min_increase, duration, reserved)
        \/ \E price \in PriceInput : PlaceBid(u, m, price)
        \/ ClaimAuction(u, m)
        \/ \E price \in PriceInput : UpdateReserve(u, m, price)
        \/ CancelAuction(u, m)

Next ==
    \/ Tick
    \/ Administration
    \/ Creation
    \/ Listing
    \/ Escrow
    \/ Offering
    \/ Auctioning

Spec == Init /\ [][Next]_vars
=============================================================================
