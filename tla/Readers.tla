------------------------------- MODULE Readers -------------------------------
(***************************************************************************)
(* The readers of the client library (lib/scripts.ts): the state in one    *)
(* account, and the scans of all of them.                                  *)
(*                                                                         *)
(* A reader of the source can throw or answer null.  Here it returns a     *)
(* set: {} then, and {result} otherwise.  The one global pool is left out  *)
(* of the scans, where its size is nobody else's.                          *)
(***************************************************************************)
EXTENDS Marketplace

CONSTANT MaxSafe   \* largest integer BN.toNumber returns: 2^53 - 1

\* Flags and statuses fit.
ASSUME MaxSafeAssumption == MaxSafe \in Nat /\ MaxSafe >= 3

IDL == INSTANCE Interface

-----------------------------------------------------------------------------
(***************************************************************************)
(* States: null when the account does not exist.                           *)
(***************************************************************************)
getGlobalState == IF GlobalExists THEN {global_authority} ELSE {}
getUserPoolState(u) == IF PoolExists(u) THEN {user_pool[u]} ELSE {}
getNFTPoolState(m) == IF SellExists(m) THEN {sell[m]} ELSE {}
getAuctionDataState(m) == IF AuctionExists(m) THEN {auction[m]} ELSE {}
getOfferDataState(m, u) == IF OfferExists(m, u) THEN {offer[m][u]} ELSE {}

-----------------------------------------------------------------------------
(***************************************************************************)
(* Scans of all program accounts, told apart by their size and read byte   *)
(* range by byte range.                                                    *)
(***************************************************************************)
SELL_DATA_SIZE == 128
OFFER_DATA_SIZE == 96
AUCTION_DATA_SIZE == 160

\* Stored as unsigned bytes, an i64 below zero reads as a large number.
AsUnsigned(x) == x % (2 * MaxI64 + 2)

Stored(fields, values) == [fields |-> fields, values |-> values]

SellAccount(m) ==
    Stored(IDL!SellData,
           <<m, sell[m].seller, Default, sell[m].price_sol,
             AsUnsigned(sell[m].listed_date), sell[m].active>>)

OfferAccount(m, u) ==
    Stored(IDL!OfferData,
           <<m, u, offer[m][u].offer_price,
             AsUnsigned(offer[m][u].offer_listing_date), offer[m][u].active>>)

AuctionAccount(m) ==
    LET a == auction[m]
    IN  Stored(IDL!AuctionData,
               <<m, a.creator, a.start_price, a.min_increase_amount,
                 AsUnsigned(a.start_date), AsUnsigned(a.last_bid_date),
                 a.last_bidder, a.highest_bid, AsUnsigned(a.duration),
                 a.status>>)

PoolAccount(u) ==
    Stored(IDL!UserData, <<u, user_pool[u].traded_volume,
                           user_pool[u].escrow_sol_balance>>)

ProgramAccounts ==
    {SellAccount(m) : m \in {x \in Mint : SellExists(x)}}
    \cup {AuctionAccount(m) : m \in {x \in Mint : AuctionExists(x)}}
    \cup {OfferAccount(p[1], p[2]) :
             p \in {x \in Mint \X User : OfferExists(x[1], x[2])}}
    \cup {PoolAccount(u) : u \in {x \in User : PoolExists(x)}}

\* data.slice(first, last)
Slice(data, first, last) ==
    data.values[CHOOSE k \in DOMAIN data.fields :
                    /\ IDL!Offset(data.fields, k) = first
                    /\ IDL!Offset(data.fields, k + 1) = last]

OfSize(size) == {data \in ProgramAccounts : IDL!Size(data.fields) = size}

\* toNumber() of every field in the result; one that does not fit in 53 bits
\* rejects the whole scan.
Answer(found, numbers) ==
    IF \A data \in found : \A n \in numbers :
          Slice(data, n[1], n[2]) <= MaxSafe
    THEN {found} ELSE {}

\* The mints of the listings returned.
getAllListedNFTs ==
    LET found == {data \in OfSize(SELL_DATA_SIZE) : Slice(data, 120, 128) = 1}
    IN  {{Slice(data, 8, 40) : data \in f} :
            f \in Answer(found, {<<104, 112>>, <<112, 120>>, <<120, 128>>})}

\* Mutant: the mint is looked for where the buyer is.
getAllOffersForListedNFTByBuyer(m) ==
    LET found == {data \in OfSize(OFFER_DATA_SIZE) :
                     Slice(data, 40, 72) = m /\ Slice(data, 88, 96) = 1}
    IN  {{Slice(data, 40, 72) : data \in f} :
            f \in Answer(found, {<<72, 80>>, <<80, 88>>, <<88, 96>>})}

\* The buyers of the offers returned.
getAllOffersForListedNFT(m) ==
    LET found == {data \in OfSize(OFFER_DATA_SIZE) :
                     Slice(data, 8, 40) = m /\ Slice(data, 88, 96) = 1}
    IN  {{Slice(data, 40, 72) : data \in f} :
            f \in Answer(found, {<<72, 80>>, <<80, 88>>, <<88, 96>>})}

\* Mutant: auctions that wait for their first bid are left out.
getAllStartedAuctionsRunning ==
    LET found == {data \in OfSize(AUCTION_DATA_SIZE) : Slice(data, 152, 160) = 1}
    IN  {{Slice(data, 8, 40) : data \in f} :
            f \in Answer(found, {<<72, 80>>, <<80, 88>>, <<88, 96>>, <<96, 104>>,
                                 <<136, 144>>, <<144, 152>>, <<152, 160>>})}

\* The mints of the auctions returned.
getAllStartedAuctions ==
    LET found == {data \in OfSize(AUCTION_DATA_SIZE) :
                     Slice(data, 152, 160) \in {1, 3}}
    IN  {{Slice(data, 8, 40) : data \in f} :
            f \in Answer(found, {<<72, 80>>, <<80, 88>>, <<88, 96>>, <<96, 104>>,
                                 <<136, 144>>, <<144, 152>>, <<152, 160>>})}
=============================================================================
