-------------------------- MODULE MarketProperties --------------------------
(***************************************************************************)
(* What the marketplace promises its users, stated over Marketplace.       *)
(***************************************************************************)
EXTENDS Marketplace

\* Every account keeps the layout of account.rs, nobody's balance is
\* negative, and each NFT is in a user's token account or in escrow.
TypeOK ==
    /\ TreasuryTypeOK
    /\ now \in I64
    /\ user_pool \in [User -> UserData]
    /\ sell \in [Mint -> SellData]
    /\ offer \in [Mint -> [User -> OfferData]]
    /\ auction \in [Mint -> AuctionData]
    /\ lamports \in [Wallet \cup {EscrowVault} -> Nat]
    /\ holder \in [Mint -> User \cup {GlobalAuthority}]

-----------------------------------------------------------------------------
(***************************************************************************)
(* Custody of the NFTs.                                                    *)
(***************************************************************************)
Listed(m) == sell[m].active = 1
AuctionOpen(m) == auction[m].status \in {1, 3}

\* The program owns an NFT exactly while it is listed or in an open auction:
\* no sequence of listing, auctioning, selling and cancelling strands an NFT
\* in escrow or promises one that has left it.  The handlers never check all
\* of this: each looks at some of active, status and the token amount.
EscrowCustody ==
    \A m \in Mint :
        holder[m] = GlobalAuthority <=> Listed(m) \/ AuctionOpen(m)

\* "Only Listing and Reserved Auction are possible to exist together", and
\* then both belong to one user, so that either can end the other.
OnlyReservedWhileListed ==
    \A m \in Mint :
        Listed(m) /\ AuctionOpen(m) =>
            auction[m].status = 3 /\ auction[m].creator = sell[m].seller

\* A reserved auction holds nobody's bid: create_auction, which runs over an
\* auction without looking at its status, can never wipe out a bid.
ReservedHoldsNoBid ==
    \A m \in Mint : auction[m].status = 3 => auction[m].last_bidder = Default

\* A listing has a seller and an open auction a creator, who is not the last
\* bidder of it, so that no sale or claim pays into a zeroed key.
PartiesKnown ==
    \A m \in Mint :
        /\ Listed(m) => sell[m].seller \in User
        /\ AuctionOpen(m) => auction[m].creator \in User
        /\ auction[m].status = 1 =>
              /\ auction[m].last_bidder \in User \cup {Default}
              /\ auction[m].last_bidder # auction[m].creator

\* Custody is inductive together with the facts the handlers rely on.
CustodyInv ==
    EscrowCustody /\ OnlyReservedWhileListed /\ ReservedHoldsNoBid /\ PartiesKnown

\* What an NFT's accounts say of its owner and its last bidder.
Owner(m) ==
    CASE holder[m] # GlobalAuthority -> holder[m]
      [] holder[m] = GlobalAuthority /\ Listed(m) -> sell[m].seller
      [] OTHER -> auction[m].creator

LastBidder(m) ==
    IF auction[m].status = 1 THEN auction[m].last_bidder ELSE Default

Stage(m) ==
    CASE holder[m] # GlobalAuthority -> "free"
      [] holder[m] = GlobalAuthority /\ LastBidder(m) = Default -> "for sale"
      [] OTHER -> "bid for"

Ownership ==
    INSTANCE NftOwnership WITH
        owner <- [m \in Mint |-> Owner(m)],
        stage <- [m \in Mint |-> Stage(m)],
        bidder <- [m \in Mint |-> LastBidder(m)],
        NoBidder <- Default

\* The marketplace implements NftOwnership: listings, offers, auctions and
\* their cancellation, side by side, never let an NFT change its owner except
\* by his sale or gift, nor past a bid to anyone but the bidder.
OwnershipImplemented == Ownership!Spec

\* While bids are live nothing but a higher bid or the end of the auction
\* touches them: an outbid bidder has his whole bid back in the same step,
\* and the new bid is higher by the minimum the creator asked for, as far as
\* a u64 can tell.
OutbidIsRefunded ==
    [][\A m \in Mint :
        LET a == auction[m] IN
        a.status = 1 /\ a.last_bidder # Default
            /\ auction'[m].last_bidder # a.last_bidder =>
                /\ auction'[m].status = 1
                /\ auction'[m].highest_bid >=
                      Wrapped(a.highest_bid + a.min_increase_amount)
                /\ lamports'[a.last_bidder] =
                      lamports[a.last_bidder] + a.highest_bid
      ]_vars

\* The hammer falls once: after its end date an auction is only claimed, with
\* the NFT going to the last bidder, or, if nobody bid, cancelled, with the
\* NFT going back to its creator.
EndIsFinal ==
    [][\A m \in Mint :
        LET a == auction[m] IN
        a.status = 1 /\ EndDate(a) <= now /\ auction'[m] # a =>
            \/ /\ a.last_bidder # Default
               /\ auction'[m] = [a EXCEPT !.status = 2]
               /\ holder'[m] = a.last_bidder
            \/ /\ a.last_bidder = Default
               /\ auction'[m] = [a EXCEPT !.status = 0]
               /\ holder'[m] = a.creator
      ]_vars

-----------------------------------------------------------------------------
(***************************************************************************)
(* The money in the vault.                                                 *)
(***************************************************************************)
LiveBid(m) ==
    IF auction[m].status = 1 /\ auction[m].last_bidder # Default
    THEN auction[m].highest_bid ELSE 0

EscrowTotal == Sum(User, [u \in User |-> user_pool[u].escrow_sol_balance])
BidTotal == Sum(Mint, [m \in Mint |-> LiveBid(m)])

\* The one vault holds escrow balances and bids together.
Surplus == lamports[EscrowVault] - (EscrowTotal + BidTotal)
VaultCovers == Surplus >= 0

\* No creator stands twice among the accounts to be paid.
NamedOnce(remaining, m) ==
    LET creators == {Metadata[m].creators[k].address :
                        k \in DOMAIN Metadata[m].creators}
    IN  \A i, j \in global_authority.team_count + 1 .. Len(remaining) :
            remaining[i] = remaining[j] /\ remaining[i] \in creators => i = j

\* Royalty and market fee leave something of the price, or the build refuses
\* the sale in which they do not.
FeesLeaveRest(m) ==
    \/ OverflowChecks
    \/ Metadata[m].seller_fee_basis_points + global_authority.market_fee_sol
          <= PERMYRIAD

\* What a sale pays out is never more than its price, whatever treasuries and
\* royalties are configured, in whatever order creators are named, left out
\* or replaced by others: the shares round down separately.  There are two
\* exceptions, a creator named twice and, unchecked, fees above the price.
PayoutWithinPrice ==
    \A m \in Mint, price \in PriceInput :
        HasCreators(m) /\ SaleComputes(price, m) /\ FeesLeaveRest(m) =>
            \A remaining \in RemainingLists(m) :
                LET legs == SettlementLegs(price, m, Default, remaining)
                IN  NamedOnce(remaining, m) =>
                      Sum(DOMAIN legs, [k \in DOMAIN legs |-> legs[k].amount])
                          <= price

\* The vault pays for a sale with one of these two exceptions.
OverpaidSale ==
    \E m \in {x \in Mint : HasCreators(x)} : \E remaining \in RemainingLists(m) :
        /\ ~(NamedOnce(remaining, m) /\ FeesLeaveRest(m))
        /\ \/ \E seller, buyer \in User :
                 AcceptOfferNaming(seller, buyer, m, remaining)
           \/ \E winner \in User : ClaimAuctionNaming(winner, m, remaining)

\* A withdrawal above the balance, which only a checked build refuses.
OverdrawnWithdrawal ==
    \E u \in User, sol \in PriceInput :
        user_pool[u].escrow_sol_balance < sol /\ WithdrawFromEscrow(u, sol)

\* What the vault has beyond every balance and every bid is never taken out,
\* however deposits, offers, bids, refunds, claims and withdrawals follow one
\* another, but by an overpaid sale or an overdraft: without those two, no
\* refund, withdrawal or settlement starves another.
SurplusKept ==
    [][Surplus' >= Surplus \/ OverpaidSale \/ OverdrawnWithdrawal]_vars

\* A user's escrow balance only shrinks when he withdraws, or pays in more
\* than a u64 holds, or for an NFT he made an active offer for: it pays
\* exactly his offer, the NFT arrives, the offer is spent, and the listing is
\* of the date he made the offer on.
EscrowSpentByOwner ==
    [][\A u \in User :
        LET balance == user_pool[u].escrow_sol_balance
            spent == balance - user_pool'[u].escrow_sol_balance
        IN  spent > 0 =>
              \/ holder' = holder /\ lamports'[u] = lamports[u] + spent
              \/ holder' = holder /\ balance + (lamports[u] - lamports'[u]) > MaxU64
              \/ \E m \in Mint :
                    /\ holder[m] = GlobalAuthority /\ holder'[m] = u
                    /\ offer[m][u].active = 1 /\ offer'[m][u].active = 0
                    /\ offer[m][u].offer_price = spent
                    /\ offer[m][u].offer_listing_date = sell[m].listed_date
      ]_vars

-----------------------------------------------------------------------------
(***************************************************************************)
(* Progress.  The clock runs on; the winner of an auction, through the     *)
(* client, and the creator of one without bids send their transaction      *)
(* again until it succeeds.                                                *)
(***************************************************************************)
ClaimByClient(winner, m) ==
    /\ HasCreators(m)
    /\ ClaimAuctionNaming(winner, m, NamedPayees(m, TreasuriesInUse))

PartiesAct ==
    /\ WF_vars(Tick)
    /\ \A u \in User, m \in Mint :
          WF_vars(ClaimByClient(u, m)) /\ WF_vars(CancelAuction(u, m))

\* With a bid it ends claimed, and without it the NFT goes back.
Settled(m) == auction[m].status \in {0, 2} /\ holder[m] \in User

\* create_auction takes an NFT whose sale no program can settle: its metadata
\* has no creators, or its royalty and the market fee exceed the price.
CannotSettle(m) ==
    /\ auction[m].last_bidder # Default
    /\ ~(SaleCanSettle(auction[m].highest_bid, m) /\ FeesLeaveRest(m))

\* A started auction that ends within the explored time is settled: short of
\* draining the vault, no other trade, withdrawal or auction can take away
\* what its claim needs.
AuctionSettles ==
    \A m \in Mint :
        auction[m].status = 1 /\ EndDate(auction[m]) <= MaxTime
            ~> Settled(m) \/ CannotSettle(m) \/ ~VaultCovers

-----------------------------------------------------------------------------
(***************************************************************************)
(* What the documents say and the code does not do.                        *)
(***************************************************************************)
FirstBid(m) ==
    auction[m].last_bidder = Default /\ auction'[m].last_bidder # Default

\* README: "`start_price` is the bidding start price".  Bids are compared
\* with highest_bid, which update_reserve leaves at the old start price.
StartPriceHonoured ==
    [][\A m \in Mint :
        FirstBid(m) => auction'[m].highest_bid >= auction[m].start_price
      ]_vars

\* error.rs, OfferForExpiredListingNFT: "Offer For Sold Or Canceled NFT
\* Listing".  An offer names its listing by the date only, so a listing made
\* in the same second as the one before it takes over that one's offers.
NewListingHasNoOffers ==
    [][\A m \in Mint, u \in User :
        sell[m].active = 0 /\ sell'[m].active = 1 /\ offer[m][u].active = 1
            => offer[m][u].offer_listing_date # sell'[m].listed_date
      ]_vars

\* README: `user_status` "will show user escrow balance", and the manifest of
\* the program asks for overflow checks: a balance is what its owner has paid
\* in, so only a payment makes it grow.  The workspace does not pass the
\* setting on, and a withdrawal above the balance wraps it around.
EscrowGrowsByPaying ==
    [][\A u \in User :
        user_pool'[u].escrow_sol_balance > user_pool[u].escrow_sol_balance
            => lamports'[u] < lamports[u]
      ]_vars
=============================================================================
