------------------------------ MODULE Payments ------------------------------
(***************************************************************************)
(* What a sale pays, to whom, and in which order.  purchase, accept_offer  *)
(* and claim_auction share this code: the seller's part first, then one    *)
(* transfer per team treasury, then one per royalty creator.  A transfer   *)
(* that the payer cannot afford fails the whole instruction.               *)
(***************************************************************************)
EXTENDS TeamTreasury, Sequences

CONSTANTS
    NoCreators,   \* the value None of Metadata.data.creators
    Metadata      \* per mint: its seller_fee_basis_points and its creators

\* The token metadata program bounds both percentages.
ASSUME MetadataAssumption ==
    /\ \A m \in Mint :
          /\ Metadata[m].seller_fee_basis_points \in 0 .. PERMYRIAD
          /\ Metadata[m].creators # NoCreators =>
                Metadata[m].creators \in
                    Seq([address : Wallet, share : 0 .. 100])

\* It refuses creators whose shares do not add up to 100.
ASSUME SharesAssumption ==
    \A m \in Mint :
        Metadata[m].creators # NoCreators =>
            LET c == Metadata[m].creators
            IN  Sum(DOMAIN c, [k \in DOMAIN c |-> c[k].share]) <= 100

\* And it refuses to name a creator twice.
ASSUME CreatorsAssumption ==
    \A m \in Mint :
        Metadata[m].creators # NoCreators =>
            LET c == Metadata[m].creators
            IN  \A i, j \in DOMAIN c : c[i].address = c[j].address => i = j

HasCreators(m) == Metadata[m].creators # NoCreators

-----------------------------------------------------------------------------
\* Lamports, and the system program's transfer.
Pay(balance, from, to, amount) ==
    LET debited == [balance EXCEPT ![from] = @ - amount]
    IN  [debited EXCEPT ![to] = @ + amount]

CanPay(balance, from, amount) == balance[from] >= amount

-----------------------------------------------------------------------------
RoyaltyFee(price, m) ==
    Wrapped(price * Metadata[m].seller_fee_basis_points) \div PERMYRIAD

MarketFee(price) ==
    Wrapped(price * global_authority.market_fee_sol) \div PERMYRIAD

TotalFee(price, m) == Wrapped(RoyaltyFee(price, m) + MarketFee(price))

Leg(to, amount) == [to |-> to, amount |-> amount]

\* Mutant: the fees are not taken off the seller's part.
SellerLegGross(price, m, seller) == <<Leg(seller, price)>>

SellerLeg(price, m, seller) ==
    <<Leg(seller, Wrapped(price - TotalFee(price, m)))>>

\* One payment per slot in use, in slot order.
TeamLegs(price) ==
    [k \in 1 .. global_authority.team_count |->
        Leg(global_authority.team_treasury[k - 1],
            Wrapped(MarketFee(price) * global_authority.treasury_rate[k - 1])
                \div PERMYRIAD)]

\* What each creator of the metadata is due.  One with share 0 is skipped,
\* which is a transfer of nothing.
CreatorLegs(price, m) ==
    [k \in DOMAIN Metadata[m].creators |->
        Leg(Metadata[m].creators[k].address,
            Wrapped(RoyaltyFee(price, m) * Metadata[m].creators[k].share)
                \div 100)]

-----------------------------------------------------------------------------
(***************************************************************************)
(* The accounts a transaction names to be paid.  The program counts them   *)
(* and compares the treasuries, which come first; after those anybody can  *)
(* stand, and a creator is paid once for every time he does.               *)
(***************************************************************************)
\* Mutant: the accounts are not counted.
RemainingFitUncounted(remaining, m) ==
    \A k \in 1 .. global_authority.team_count :
        k \in DOMAIN remaining =>
            remaining[k] = global_authority.team_treasury[k - 1]

\* As many accounts as there are payees, the treasuries first, in slot order.
RemainingFit(remaining, m) ==
    /\ Len(remaining) =
          global_authority.team_count + Len(Metadata[m].creators)
    /\ \A k \in 1 .. global_authority.team_count :
          remaining[k] = global_authority.team_treasury[k - 1]

\* What the client names: the treasuries it read, then each creator once.
NamedPayees(m, treasuries) ==
    treasuries \o [k \in DOMAIN Metadata[m].creators |->
                      Metadata[m].creators[k].address]

\* The treasuries as the program has them.
TreasuriesInUse ==
    [k \in 1 .. global_authority.team_count |->
        global_authority.team_treasury[k - 1]]

\* Every list that fits: behind the treasuries any wallet may stand, once or
\* twice, and those that are no creators' are paid nothing.
RemainingLists(m) ==
    {TreasuriesInUse \o named :
       named \in [1 .. Len(Metadata[m].creators) -> Wallet]}

\* The royalty of the creator with this key: nothing for anybody else.
CreatorAmount(price, m, key) ==
    Sum({k \in DOMAIN Metadata[m].creators :
            Metadata[m].creators[k].address = key},
        [k \in DOMAIN Metadata[m].creators |-> CreatorLegs(price, m)[k].amount])

\* One payment per remaining account, after the seller's.
SettlementLegs(price, m, seller, remaining) ==
    SellerLeg(price, m, seller) \o
        [k \in DOMAIN remaining |->
            IF k <= global_authority.team_count THEN TeamLegs(price)[k]
            ELSE Leg(remaining[k], CreatorAmount(price, m, remaining[k]))]

-----------------------------------------------------------------------------
\* Every intermediate result of the fee computation.
SaleComputes(price, m) ==
    /\ Computes(price * Metadata[m].seller_fee_basis_points)
    /\ Computes(price * global_authority.market_fee_sol)
    /\ Computes(RoyaltyFee(price, m) + MarketFee(price))
    /\ Computes(price - TotalFee(price, m))
    /\ \A i \in ActiveSlots(global_authority) :
          Computes(MarketFee(price) * global_authority.treasury_rate[i])
    /\ \A k \in DOMAIN Metadata[m].creators :
          Computes(RoyaltyFee(price, m) * Metadata[m].creators[k].share)

-----------------------------------------------------------------------------
\* Balances after the first k legs were paid by `from`, for every k.
PaidUpTo(balance, from, legs) ==
    LET after[k \in 0 .. Len(legs)] ==
          IF k = 0 THEN balance
          ELSE Pay(after[k - 1], from, legs[k].to, legs[k].amount)
    IN  after

CanPayAll(balance, from, legs) ==
    \A k \in 1 .. Len(legs) :
        CanPay(PaidUpTo(balance, from, legs)[k - 1], from, legs[k].amount)

PaidAll(balance, from, legs) == PaidUpTo(balance, from, legs)[Len(legs)]

\* What a sale needs besides the payer's funds: a treasury to pay, creators
\* in the metadata, and fees that compute.
SaleCanSettle(price, m) ==
    /\ global_authority.team_count > 0
    /\ HasCreators(m)
    /\ SaleComputes(price, m)
=============================================================================
