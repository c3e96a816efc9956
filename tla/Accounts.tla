------------------------------ MODULE Accounts ------------------------------
(***************************************************************************)
(* The keys, machine integers and account layouts of the Mds_Marketplace   *)
(* program (programs/Mds_Marketplace/src/account.rs).  Every other module  *)
(* is written over these.                                                  *)
(***************************************************************************)
EXTENDS Integers

CONSTANTS
    Wallet,           \* system accounts that can hold lamports
    User,             \* the wallets that sign marketplace instructions
    Mint,             \* NFT mints: supply 1, zero decimals
    Default,          \* Pubkey::default(), the key of a zeroed field
    EscrowVault,      \* PDA "escrow-vault": holds every escrowed lamport
    GlobalAuthority,  \* PDA "global-authority-v1": owns every escrowed NFT
    MaxU64,           \* largest u64, scaled down for TLC
    MaxI64,           \* largest i64, scaled down for TLC
    MaxTeam,          \* slots of team_treasury: 8 in the program
    OverflowChecks    \* TRUE iff the build traps arithmetic overflow

ASSUME KeysAssumption ==
    /\ User \subseteq Wallet
    /\ Default \notin Wallet \cup {EscrowVault, GlobalAuthority} \cup Mint
    /\ EscrowVault \notin Wallet
    /\ GlobalAuthority \notin Wallet

ASSUME IntegersAssumption ==
    /\ MaxU64 \in Nat \ {0}
    /\ MaxI64 \in Nat \ {0}
    /\ MaxTeam \in Nat \ {0}
    /\ OverflowChecks \in BOOLEAN

\* Permyriad measure unit.
PERMYRIAD == 10000

Key == Wallet \cup {Default}
U64 == 0 .. MaxU64
I64 == (-MaxI64 - 1) .. MaxI64

(***************************************************************************)
(* Rust integer arithmetic.  Computes(x) says the u64 result x can be      *)
(* computed: it is in range, or the build does not check overflow.         *)
(* Wrapped(x) is what is stored.  The I64 variants are for end dates.      *)
(***************************************************************************)
Computes(x) == OverflowChecks => x \in U64
Wrapped(x) == x % (MaxU64 + 1)
ComputesI64(x) == OverflowChecks => x \in I64
WrappedI64(x) == ((x + MaxI64 + 1) % (2 * MaxI64 + 2)) - MaxI64 - 1

(***************************************************************************)
(* Account layouts.  An account that was never initialised is its zeroed   *)
(* record: its mint, address, buyer or super_admin is Default.             *)
(***************************************************************************)
Slot == 0 .. MaxTeam - 1

GlobalPool ==
    [super_admin    : Key,
     market_fee_sol : U64,
     team_count     : 0 .. MaxTeam,
     team_treasury  : [Slot -> Key],
     treasury_rate  : [Slot -> U64]]

SellData ==
    [mint : Mint \cup {Default}, seller : Key, price_sol : U64,
     listed_date : I64, active : {0, 1}]

OfferData ==
    [mint : Mint \cup {Default}, buyer : Key, offer_price : U64,
     offer_listing_date : I64, active : {0, 1}]

\* Auction status: 0 canceled (or never created), 1 started, 2 claimed,
\* 3 reserved.
AuctionData ==
    [mint : Mint \cup {Default}, creator : Key, start_price : U64,
     min_increase_amount : U64, start_date : I64, last_bid_date : I64,
     last_bidder : Key, highest_bid : U64, duration : I64, status : 0 .. 3]

UserData ==
    [address : Key, traded_volume : U64, escrow_sol_balance : U64]

NoGlobalPool ==
    [super_admin |-> Default, market_fee_sol |-> 0, team_count |-> 0,
     team_treasury |-> [i \in Slot |-> Default],
     treasury_rate |-> [i \in Slot |-> 0]]

NoSellData ==
    [mint |-> Default, seller |-> Default, price_sol |-> 0,
     listed_date |-> 0, active |-> 0]

NoOfferData ==
    [mint |-> Default, buyer |-> Default, offer_price |-> 0,
     offer_listing_date |-> 0, active |-> 0]

NoAuctionData ==
    [mint |-> Default, creator |-> Default, start_price |-> 0,
     min_increase_amount |-> 0, start_date |-> 0, last_bid_date |-> 0,
     last_bidder |-> Default, highest_bid |-> 0, duration |-> 0,
     status |-> 0]

NoUserData ==
    [address |-> Default, traded_volume |-> 0, escrow_sol_balance |-> 0]
=============================================================================
