----------------------------- MODULE CommandLine -----------------------------
(***************************************************************************)
(* The command line (cli/command.ts): what a typed command makes of its    *)
(* options.  An option can be missing, or be no number where one is        *)
(* expected; the command then ends and calls nothing.  An operator returns *)
(* the calls a command can lead to: {} when it ends there.                 *)
(*                                                                         *)
(* Options are a function from the names that were given to what they      *)
(* mean: a key, a number, an amount in lamports, or NotANumber.  Keys are  *)
(* taken to parse.                                                         *)
(***************************************************************************)
EXTENDS Integers

CONSTANT NotANumber   \* an option parseInt and parseFloat make NaN of

Given(o, option) == IF option \in DOMAIN o THEN {o[option]} ELSE {}

\* parseInt(x)
Number(o, option) == Given(o, option) \ {NotANumber}

\* parseFloat(x) * LAMPORTS_PER_SOL: the product of doubles can fall short of
\* the amount, and then BN cuts a whole lamport off.
Lamports(o, option) ==
    UNION {{x, IF x > 0 THEN x - 1 ELSE IF x < 0 THEN x + 1 ELSE 0} :
              x \in Number(o, option)}

-----------------------------------------------------------------------------
(***************************************************************************)
(* Administration.                                                         *)
(***************************************************************************)
init(o) == {[name |-> "init"]}
init_user(o) == {[name |-> "init_user"]}

update_fee(o) ==
    {[name |-> "update_fee", solFee |-> fee] : fee \in Number(o, "sol_fee")}

add_treasury(o) ==
    {[name |-> "add_treasury", treasury |-> a, rate |-> n] :
        a \in Given(o, "address"), n \in Number(o, "rate")}

remove_treasury(o) ==
    {[name |-> "remove_treasury", treasury |-> a] : a \in Given(o, "address")}

-----------------------------------------------------------------------------
(***************************************************************************)
(* Escrow, listings and offers.                                            *)
(***************************************************************************)
deposit(o) == {[name |-> "deposit", sol |-> x] : x \in Lamports(o, "sol")}
withdraw(o) == {[name |-> "withdraw", sol |-> x] : x \in Lamports(o, "sol")}

transfer(o) ==
    {[name |-> "transfer", mint |-> a, recipient |-> r] :
        a \in Given(o, "address"), r \in Given(o, "recipient")}

list(o) ==
    {[name |-> "list", mint |-> a, priceSol |-> x] :
        a \in Given(o, "address"), x \in Lamports(o, "price_sol")}

delist(o) == {[name |-> "delist", mint |-> a] : a \in Given(o, "address")}

set_price(o) ==
    {[name |-> "set_price", mint |-> a, newPrice |-> x] :
        a \in Given(o, "address"), x \in Lamports(o, "price_sol")}

purchase(o) == {[name |-> "purchase", mint |-> a] : a \in Given(o, "address")}

make_offer(o) ==
    {[name |-> "make_offer", mint |-> a, price |-> x] :
        a \in Given(o, "address"), x \in Lamports(o, "price")}

cancel_offer(o) ==
    {[name |-> "cancel_offer", mint |-> a] : a \in Given(o, "address")}

accept_offer(o) ==
    {[name |-> "accept_offer", mint |-> a, buyer |-> b] :
        a \in Given(o, "address"), b \in Given(o, "buyer")}

-----------------------------------------------------------------------------
(***************************************************************************)
(* Auctions.                                                               *)
(***************************************************************************)
\* The reserve flag has to be given, and anything below 1 means no.
create_auction(o) ==
    {[name |-> "create_auction", mint |-> a, startPrice |-> x,
      minIncrease |-> y, duration |-> d, reserved |-> flag = 1] :
        a \in Given(o, "address"), x \in Lamports(o, "start_price"),
        y \in Lamports(o, "min_increase"), d \in Number(o, "duration"),
        flag \in {n \in Number(o, "reserve") : n <= 1}}

place_bid(o) ==
    {[name |-> "place_bid", mint |-> a, price |-> x] :
        a \in Given(o, "address"), x \in Lamports(o, "price")}

claim_auction(o) ==
    {[name |-> "claim_auction", mint |-> a] : a \in Given(o, "address")}

update_reserve(o) ==
    {[name |-> "update_reserve", mint |-> a, newPrice |-> x] :
        a \in Given(o, "address"), x \in Lamports(o, "start_price")}

cancel_auction(o) ==
    {[name |-> "cancel_auction", mint |-> a] : a \in Given(o, "address")}

-----------------------------------------------------------------------------
(***************************************************************************)
(* Commands that only read.                                                *)
(***************************************************************************)
status(o) == {[name |-> "status"]}

user_status(o) ==
    {[name |-> "user_status", user |-> a] : a \in Given(o, "address")}

listed_nft_data(o) ==
    {[name |-> "listed_nft_data", mint |-> a] : a \in Given(o, "address")}

get_offer_data(o) ==
    {[name |-> "get_offer_data", mint |-> a, buyer |-> b] :
        a \in Given(o, "address"), b \in Given(o, "buyer")}

get_auction_data(o) ==
    {[name |-> "get_auction_data", mint |-> a] : a \in Given(o, "address")}

get_all_listed_nfts(o) == {[name |-> "get_all_listed_nfts"]}

get_all_offers_for_nft(o) ==
    {[name |-> "get_all_offers_for_nft", mint |-> a] : a \in Given(o, "address")}

get_all_auctions(o) == {[name |-> "get_all_auctions"]}

-----------------------------------------------------------------------------
\* The calls a typed line leads to.
programCommand(name, o) ==
    CASE name = "init" -> init(o)
      [] name = "init_user" -> init_user(o)
      [] name = "update_fee" -> update_fee(o)
      [] name = "add_treasury" -> add_treasury(o)
      [] name = "remove_treasury" -> remove_treasury(o)
      [] name = "deposit" -> deposit(o)
      [] name = "withdraw" -> withdraw(o)
      [] name = "transfer" -> transfer(o)
      [] name = "list" -> list(o)
      [] name = "delist" -> delist(o)
      [] name = "set_price" -> set_price(o)
      [] name = "purchase" -> purchase(o)
      [] name = "make_offer" -> make_offer(o)
      [] name = "cancel_offer" -> cancel_offer(o)
      [] name = "accept_offer" -> accept_offer(o)
      [] name = "create_auction" -> create_auction(o)
      [] name = "place_bid" -> place_bid(o)
      [] name = "claim_auction" -> claim_auction(o)
      [] name = "update_reserve" -> update_reserve(o)
      [] name = "cancel_auction" -> cancel_auction(o)
      [] name = "status" -> status(o)
      [] name = "user_status" -> user_status(o)
      [] name = "listed_nft_data" -> listed_nft_data(o)
      [] name = "get_offer_data" -> get_offer_data(o)
      [] name = "get_auction_data" -> get_auction_data(o)
      [] name = "get_all_listed_nfts" -> get_all_listed_nfts(o)
      [] name = "get_all_offers_for_nft" -> get_all_offers_for_nft(o)
      [] name = "get_all_auctions" -> get_all_auctions(o)
=============================================================================
