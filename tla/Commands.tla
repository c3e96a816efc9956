------------------------------ MODULE Commands ------------------------------
(***************************************************************************)
(* The commands of cli/scripts.ts, run by terminals that each sign with    *)
(* one wallet.  A command is a sequence of awaits: reads of the cluster    *)
(* and transactions sent and confirmed.  Between two awaits anything can   *)
(* happen, and a confirmation that times out ends the command with an      *)
(* exception while its transaction may still land, or never.               *)
(*                                                                         *)
(* run[t].at is the await terminal t is at.  Commitment levels are left    *)
(* out: a read of an older, finalized state is a read made earlier.        *)
(***************************************************************************)
EXTENDS Cluster

CONSTANTS
    Terminal,     \* command lines in use
    PayerOf,      \* the wallet of each terminal: ANCHOR_WALLET
    NotANumber    \* an option that is no number

ASSUME TerminalsAssumption == PayerOf \in [Terminal -> User]

VARIABLES
    run,     \* the command each terminal runs, and where it is
    flying   \* transactions sent and neither landed nor expired

CLI == INSTANCE CommandLine

commandVars == <<run, flying>>
chain == <<vars, tokens>>
systemVars == <<vars, tokens, run, flying>>

NoInvocation == [name |-> "none"]

\* The treasuries read last are kept in `pool`.  Whoever is at the terminal
\* types at most `most` of his lines: <<command, options>>.
Idle(person) ==
    [at |-> "idle", cmd |-> NoInvocation, pool |-> <<>>, then |-> "idle",
     landed |-> FALSE, sends |-> 0, started |-> 0,
     lines |-> person.lines, most |-> person.most]

-----------------------------------------------------------------------------
(***************************************************************************)
(* The awaits.                                                             *)
(***************************************************************************)
At(t, step) == run[t].at = step

Go(t, step) == run' = [run EXCEPT ![t].at = step]

\* A command that returns or throws.
Return(t) == Go(t, "idle") /\ UNCHANGED flying

\* An await that gets no answer from the cluster throws.
Throw(t) == ~At(t, "idle") /\ ~At(t, "confirm") /\ Return(t)

\* sendTransaction: throws without the signature it needs, and when the node,
\* which first runs the transaction by itself, sees it fail.
SendAnd(t, txs, next) ==
    \E tx \in txs :
        /\ Signer(tx) = PayerOf[t]
        /\ Executable(tx)
        /\ flying' = flying \cup
              {[from |-> t, id |-> run[t].sends + 1, tx |-> tx]}
        /\ run' = [run EXCEPT ![t].at = "confirm", ![t].then = next,
                              ![t].landed = FALSE, ![t].sends = @ + 1]

Send(t, step, txs) == At(t, step) /\ SendAnd(t, txs, "idle")

CheckUser(t, next) ==
    /\ At(t, "start")
    /\ Go(t, IF isInitializedUser(PayerOf[t]) THEN next ELSE "idle")
    /\ UNCHANGED flying

\* Mutant: the creation is not waited for.
EnsureUnconfirmed(t, step, exists, txs, next) ==
    /\ At(t, step)
    /\ \/ exists /\ Go(t, next) /\ UNCHANGED flying
       \/ /\ ~exists
          /\ \E tx \in txs :
                /\ Executable(tx)
                /\ flying' = flying \cup
                    {[from |-> t, id |-> run[t].sends + 1, tx |-> tx]}
          /\ run' = [run EXCEPT ![t].at = next, ![t].sends = @ + 1]

\* if the account does not exist, await its creation.
Ensure(t, step, exists, txs, next) ==
    /\ At(t, step)
    /\ \/ exists /\ Go(t, next) /\ UNCHANGED flying
       \/ ~exists /\ SendAnd(t, txs, next)

\* The first team_count treasuries; without a pool it throws.
ReadPool(t, step, next) ==
    /\ At(t, step)
    /\ \E global \in getGlobalState :
          run' = [run EXCEPT ![t].pool = [k \in 1 .. global.team_count |->
                                              global.team_treasury[k - 1]],
                             ![t].at = next]
    /\ UNCHANGED flying

-----------------------------------------------------------------------------
(***************************************************************************)
(* The commands.                                                           *)
(***************************************************************************)
initProject(t, user) == Send(t, "start", createInitializeTx(user))
initUserPool(t, user) == Send(t, "start", createInitUserTx(user))
updateFee(t, user, c) == Send(t, "start", createUpdateFeeTx(user, c.solFee))

addTreasury(t, user, c) ==
    Send(t, "start", createAddTreasuryTx(user, c.treasury, c.rate))

removeTreasury(t, user, c) ==
    Send(t, "start", createRemoveTreasuryTx(user, c.treasury))

depositEscrow(t, user, c) ==
    CheckUser(t, "send") \/ Send(t, "send", createDepositTx(user, c.sol))

withdrawEscrow(t, user, c) ==
    CheckUser(t, "send") \/ Send(t, "send", createWithdrawTx(user, c.sol))

initSellData(t, user, mint, step, next) ==
    Ensure(t, step, SellExists(mint), createInitSellDataTx(mint, user), next)

initAuctionData(t, user, mint, step, next) ==
    Ensure(t, step, AuctionExists(mint), createInitAuctionDataTx(mint, user), next)

initOfferData(t, user, mint, step, next) ==
    Ensure(t, step, OfferExists(mint, user), createInitOfferDataTx(mint, user), next)

\* Throws without the account, or when a number does not fit in 53 bits.
getNFTPoolInfo(m) ==
    {info \in getNFTPoolState(m) :
        info.price_sol <= MaxSafe /\ info.listed_date <= MaxSafe}

\* Out of escrow if the NFT is listed, else from wallet to wallet.
transfer(t, user, c) ==
    LET listed == \E info \in getNFTPoolInfo(c.mint) : info.active = 1
    IN  \/ /\ At(t, "start")
           /\ Go(t, IF SellExists(c.mint) /\ getNFTPoolInfo(c.mint) = {} THEN "idle"
                    ELSE IF listed THEN "vault" ELSE "wallet")
           /\ UNCHANGED flying
        \/ Send(t, "vault", createTransferFromVaultTx(c.mint, user, c.recipient))
        \/ Send(t, "wallet", createTransferTx(c.mint, user, c.recipient))

listNftForSale(t, user, c) ==
    \/ CheckUser(t, "sell")
    \/ initSellData(t, user, c.mint, "sell", "auction")
    \/ initAuctionData(t, user, c.mint, "auction", "send")
    \/ Send(t, "send", createListForSellNftTx(c.mint, user, c.priceSol))

delistNft(t, user, c) ==
    CheckUser(t, "send") \/ Send(t, "send", createDelistNftTx(c.mint, user))

setPrice(t, user, c) ==
    \/ CheckUser(t, "send")
    \/ Send(t, "send", createSetPriceTx(c.mint, user, c.newPrice))

purchase(t, user, c) ==
    \/ CheckUser(t, "pool")
    \/ ReadPool(t, "pool", "send")
    \/ Send(t, "send", createPurchaseTx(c.mint, user, run[t].pool))

makeOffer(t, user, c) ==
    \/ CheckUser(t, "offer")
    \/ initOfferData(t, user, c.mint, "offer", "send")
    \/ Send(t, "send", createMakeOfferTx(c.mint, user, c.price))

cancelOffer(t, user, c) ==
    CheckUser(t, "send") \/ Send(t, "send", createCancelOfferTx(c.mint, user))

acceptOffer(t, user, c) ==
    \/ CheckUser(t, "pool")
    \/ ReadPool(t, "pool", "send")
    \/ Send(t, "send", createAcceptOfferTx(c.mint, c.buyer, run[t].pool))

createAuction(t, user, c) ==
    \/ CheckUser(t, "sell")
    \/ initSellData(t, user, c.mint, "sell", "auction")
    \/ initAuctionData(t, user, c.mint, "auction", "send")
    \/ Send(t, "send",
            createCreateAuctionTx(c.mint, user, c.startPrice, c.minIncrease,
                                  c.duration, c.reserved))

placeBid(t, user, c) ==
    \/ CheckUser(t, "send")
    \/ Send(t, "send", createPlaceBidTx(c.mint, user, c.price))

claimAuction(t, user, c) ==
    \/ CheckUser(t, "pool")
    \/ ReadPool(t, "pool", "send")
    \/ Send(t, "send", createClaimAuctionTx(c.mint, user, run[t].pool))

updateReserve(t, user, c) ==
    \/ CheckUser(t, "send")
    \/ Send(t, "send", createUpdateReserveTx(c.mint, user, c.newPrice))

cancelAuction(t, user, c) ==
    CheckUser(t, "send") \/ Send(t, "send", createCancelAuctionTx(c.mint, user))

\* A command that reads and prints, or throws.
Queries ==
    {"status", "user_status", "listed_nft_data", "get_offer_data",
     "get_auction_data", "get_all_listed_nfts", "get_all_offers_for_nft",
     "get_all_auctions"}

query(t) == At(t, "start") /\ Return(t)

-----------------------------------------------------------------------------
\* The next await of the command terminal t runs.
Step(t) ==
    LET user == PayerOf[t]
        c == run[t].cmd
    IN  /\ \/ Throw(t)
           \/ c.name = "init" /\ initProject(t, user)
           \/ c.name = "init_user" /\ initUserPool(t, user)
           \/ c.name = "update_fee" /\ updateFee(t, user, c)
           \/ c.name = "add_treasury" /\ addTreasury(t, user, c)
           \/ c.name = "remove_treasury" /\ removeTreasury(t, user, c)
           \/ c.name = "deposit" /\ depositEscrow(t, user, c)
           \/ c.name = "withdraw" /\ withdrawEscrow(t, user, c)
           \/ c.name = "transfer" /\ transfer(t, user, c)
           \/ c.name = "list" /\ listNftForSale(t, user, c)
           \/ c.name = "delist" /\ delistNft(t, user, c)
           \/ c.name = "set_price" /\ setPrice(t, user, c)
           \/ c.name = "purchase" /\ purchase(t, user, c)
           \/ c.name = "make_offer" /\ makeOffer(t, user, c)
           \/ c.name = "cancel_offer" /\ cancelOffer(t, user, c)
           \/ c.name = "accept_offer" /\ acceptOffer(t, user, c)
           \/ c.name = "create_auction" /\ createAuction(t, user, c)
           \/ c.name = "place_bid" /\ placeBid(t, user, c)
           \/ c.name = "claim_auction" /\ claimAuction(t, user, c)
           \/ c.name = "update_reserve" /\ updateReserve(t, user, c)
           \/ c.name = "cancel_auction" /\ cancelAuction(t, user, c)
           \/ c.name \in Queries /\ query(t)
        /\ UNCHANGED chain

Start(t) ==
    /\ At(t, "idle")
    /\ run[t].started < run[t].most
    /\ \E line \in run[t].lines : \E c \in CLI!programCommand(line[1], line[2]) :
          run' = [run EXCEPT ![t].at = "start", ![t].cmd = c,
                             ![t].started = @ + 1]
    /\ UNCHANGED <<chain, flying>>

\* confirmTransaction tells that the transaction landed, not that it worked.
Confirm(t) ==
    /\ At(t, "confirm")
    /\ run[t].landed
    /\ Go(t, run[t].then)
    /\ UNCHANGED <<chain, flying>>

\* Mutant: a confirmation that times out sends the transaction again.
TimeOutResending(t) ==
    /\ At(t, "confirm")
    /\ \E f \in flying :
          /\ f.from = t /\ f.id = run[t].sends
          /\ f.id < 2
          /\ flying' = flying \cup {[f EXCEPT !.id = @ + 1]}
    /\ run' = [run EXCEPT ![t].sends = @ + 1]
    /\ UNCHANGED chain

\* Mutant: confirmations do not time out.
TimeOutNever(t) == FALSE /\ UNCHANGED systemVars

\* The confirmation times out: the command throws.
TimeOut(t) == At(t, "confirm") /\ Return(t) /\ UNCHANGED chain

-----------------------------------------------------------------------------
\* A transaction lands and is executed if it can be; its sender, if he still
\* waits for it, can be told.
Land ==
    \E f \in flying :
        /\ flying' = flying \ {f}
        /\ run' = [run EXCEPT ![f.from].landed =
                      @ \/ (run[f.from].at = "confirm" /\ run[f.from].sends = f.id)]
        /\ \/ Execute(f.tx)
           \/ ~Executable(f.tx) /\ UNCHANGED chain

\* It never lands: its blockhash has expired.
Expire == \E f \in flying : flying' = flying \ {f} /\ UNCHANGED <<chain, run>>

TerminalsInit(people) ==
    /\ run = [t \in Terminal |-> Idle(people[t])]
    /\ flying = {}

TerminalsNext ==
    \/ \E t \in Terminal : Start(t) \/ Step(t) \/ Confirm(t) \/ TimeOut(t)
    \/ Land
    \/ Expire
    \/ Tick /\ UNCHANGED <<tokens, commandVars>>

\* The cluster answers and a command goes on; a confirmation that is not
\* told of a landing gives up in the end.
TerminalsFairness ==
    \A t \in Terminal : /\ WF_systemVars(Step(t))
                        /\ WF_systemVars(Confirm(t) \/ TimeOut(t))
=============================================================================
