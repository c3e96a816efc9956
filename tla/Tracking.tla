------------------------------- MODULE Tracking -------------------------------
(***************************************************************************)
(* The back end reads the transactions of the command lines off the ledger *)
(* (BackEnd).  What getParsedTransaction answers is a function of the      *)
(* transaction and of the state it met when it landed.                     *)
(***************************************************************************)
EXTENDS CommandProperties

BE == INSTANCE BackEnd

\* The accounts in the order of the interface.
AccountKeys(tx) ==
    LET names == AccountNames(tx.ix)
    IN  [k \in DOMAIN names |->
            IF names[k] \in DOMAIN tx.accounts THEN tx.accounts[names[k]]
            ELSE names[k]]

Instructions(tx) ==
    [k \in 1 .. Cardinality(tx.creates) |->
        [data |-> BE!NoData, accounts |-> <<>>]]
    \o <<[data |-> [ix |-> tx.ix, args |-> tx.args],
          accounts |-> AccountKeys(tx)]>>

\* The instruction calls another program: to move lamports or an NFT, or to
\* create an account.  A listing and a reserved auction that already share
\* the NFT's place in escrow leave it there.
CallsOut(tx) ==
    CASE tx.ix \in {"updateFee", "addTeamTreasury", "removeTeamTreasury",
                    "setPrice", "cancelOffer", "updateReserve"} -> FALSE
      [] tx.ix \in {"listNftForSale", "delistNft"} ->
            auction[MintOf(tx)].status # 3
      [] tx.ix \in {"createAuction", "cancelAuction"} ->
            sell[MintOf(tx)].active = 0
      [] OTHER -> TRUE

TransfersFrom(source, legs) ==
    [k \in DOMAIN legs |-> [source |-> source, lamports |-> legs[k].amount]]

\* The lamports an instruction that succeeds moves, in order.
LamportTransfers(tx) ==
    LET user == Signer(tx)
        m == MintOf(tx)
    IN  CASE tx.ix = "purchase" ->
               TransfersFrom(user, SettlementLegs(sell[m].price_sol, m,
                                                  sell[m].seller, tx.remaining))
          [] tx.ix = "acceptOffer" ->
               TransfersFrom(EscrowVault,
                   SettlementLegs(offer[m][tx.accounts.buyer].offer_price, m,
                                  user, tx.remaining))
          [] tx.ix = "claimAuction" ->
               TransfersFrom(EscrowVault,
                   SettlementLegs(auction[m].highest_bid, m,
                                  auction[m].creator, tx.remaining))
          [] tx.ix = "placeBid" ->
               (IF auction[m].last_bidder = Default THEN <<>>
                ELSE <<[source |-> EscrowVault,
                        lamports |-> auction[m].highest_bid]>>)
               \o <<[source |-> user, lamports |-> tx.args.price]>>
          [] tx.ix = "makeOffer" ->
               <<[source |-> user, lamports |-> tx.args.price]>>
          [] tx.ix = "depositToEscrow" ->
               <<[source |-> user, lamports |-> tx.args.sol]>>
          [] tx.ix = "withdrawFromEscrow" ->
               <<[source |-> EscrowVault, lamports |-> tx.args.sol]>>
          [] OTHER -> <<>>

Creations(tx) == [k \in 1 .. Cardinality(tx.creates) |-> <<>>]

\* getParsedTransaction of a transaction that succeeds now.
Parsed(tx) ==
    [instructions |-> Instructions(tx),
     inner |-> Creations(tx) \o
                  (IF CallsOut(tx) THEN <<LamportTransfers(tx)>> ELSE <<>>)]

-----------------------------------------------------------------------------
\* The lamports a wallet, or the vault, is left with less.
Spent(w) == lamports[w] - lamports'[w]

\* The wallets a sale of m pays besides its seller.
Shareholders(m) ==
    {global_authority.team_treasury[i] : i \in ActiveSlots(global_authority)}
    \cup {Metadata[m].creators[k].address : k \in DOMAIN Metadata[m].creators}

\* The activity is what the step did: the NFT and the money went, and the
\* records changed, as it tells.
Happened(act) ==
    CASE act.type = "Purchase" ->
            /\ sell[act.mint].active = 1 /\ sell[act.mint].seller = act.seller
            /\ holder'[act.mint] = act.buyer
            /\ act.buyer \notin {act.seller} \cup Shareholders(act.mint) =>
                  Spent(act.buyer) = act.price
      [] act.type = "AcceptOffer" ->
            /\ sell[act.mint].active = 1 /\ sell[act.mint].seller = act.seller
            /\ holder'[act.mint] = act.buyer
            /\ Spent(EscrowVault) = act.price
      [] act.type = "ClaimAuction" ->
            /\ auction[act.mint].creator = act.seller
            /\ auction'[act.mint].status = 2 /\ holder'[act.mint] = act.buyer
            /\ Spent(EscrowVault) = act.price
      [] act.type = "PlaceBid" ->
            /\ auction'[act.mint].last_bidder = act.address
            /\ auction'[act.mint].highest_bid = act.price
      [] act.type = "MakeOffer" ->
            /\ offer'[act.mint][act.address].active = 1
            /\ offer'[act.mint][act.address].offer_price = act.price
      [] act.type = "CancelOffer" ->
            /\ offer[act.mint][act.address].active = 1
            /\ offer'[act.mint][act.address].active = 0
      [] act.type = "DelistNft" ->
            /\ sell[act.mint].seller = act.address
            /\ sell[act.mint].active = 1 /\ sell'[act.mint].active = 0
      [] act.type = "CancelAuction" ->
            /\ auction[act.mint].creator = act.address
            /\ auction[act.mint].status \in {1, 3}
            /\ auction'[act.mint].status = 0
      [] act.type \in {"Transfer", "TransferFromVault"} ->
            holder'[act.mint] = act.recipient
      [] act.type = "DepositToEscrow" -> Spent(act.address) = act.sol_amount
      [] act.type = "Withdraw" -> Spent(EscrowVault) = act.sol_amount
      [] act.type = "SetPrice" -> sell'[act.mint].price_sol = act.price
      [] act.type = "UpdateReverse" ->
            auction'[act.mint].start_price = act.price
      [] OTHER -> TRUE

Trades == {"purchase", "acceptOffer", "claimAuction", "placeBid", "makeOffer"}

-----------------------------------------------------------------------------
(***************************************************************************)
(* Properties.                                                             *)
(***************************************************************************)
\* What the parser makes of the bytes, positions and inner transfers of a
\* successful transaction is what it did to the marketplace: who traded which
\* NFT with whom, and the money that really moved.  It never throws: a token
\* account created first shifts the calls that are looked up, but then the
\* instruction calls out too.  No trade goes unreported.  (A buyer who has a
\* share in the price himself gets some of it back.)
Reported(tx) ==
    LET activities == BE!getDataFromSignature(Parsed(tx))
    IN  /\ activities # {}
        /\ \A act \in activities : Happened(act)
        /\ tx.ix \in Trades => \E act \in activities : act # BE!Undefined

\* Whatever lands and succeeds is reported as what it did.
ActivityTellsTheStep == [][\A f \in Succeeded : Reported(f.tx)]_systemVars

\* README: the script "will parse an activity from each Txs".  The nonces of
\* list_nft_for_sale and create_auction are those of shorter arguments, so
\* neither a listing nor an auction is ever recognised.
ListingsReported ==
    [][\A f \in Succeeded :
        f.tx.ix \in {"listNftForSale", "createAuction"} =>
            BE!Undefined \notin BE!getDataFromSignature(Parsed(f.tx))
      ]_systemVars
=============================================================================
