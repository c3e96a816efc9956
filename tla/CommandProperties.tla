-------------------------- MODULE CommandProperties --------------------------
(***************************************************************************)
(* What the commands promise those who type them, when others type at the  *)
(* same time and confirmations get lost.                                   *)
(***************************************************************************)
EXTENDS Commands, MarketProperties

\* Whatever a client read, and however long ago, what its transaction does is
\* an instruction of the marketplace with the payees and the bidder of now:
\* treasuries added or removed in between, or a bid, refuse it and never send
\* a share or a refund to the wrong wallet.  (The first disjunct, implied by
\* the subscript, spares TLC the search for an instruction.)
MarketImplemented == [][vars' = vars \/ Next]_vars

\* The transactions that land in a step and succeed.
Succeeded == IF chain' # chain /\ now' = now THEN flying \ flying' ELSE {}

\* The sale pays its price to the treasuries of now and each creator once.
SettledAsOfNow(payer, price, m, seller) ==
    lamports' = PaidAll(lamports, payer,
                        SettlementLegs(price, m, seller,
                                       NamedPayees(m, TreasuriesInUse)))

SaleAsOfNow(tx) ==
    LET m == MintOf(tx)
    IN  /\ tx.ix = "purchase" =>
              SettledAsOfNow(Signer(tx), sell[m].price_sol, m, sell[m].seller)
        /\ tx.ix = "acceptOffer" =>
              SettledAsOfNow(EscrowVault, offer[m][tx.accounts.buyer].offer_price,
                             m, Signer(tx))
        /\ tx.ix = "claimAuction" =>
              SettledAsOfNow(EscrowVault, auction[m].highest_bid, m,
                             auction[m].creator)

\* The program takes other lists of payees than the client's, so it is not
\* enough that a sale is a step of the marketplace: one that a command has sent
\* leaves no creator and no treasury out and pays none twice, although the
\* admin may have changed the treasuries since the command read them.
SalesPayThoseOfNow == [][\A f \in Succeeded : SaleAsOfNow(f.tx)]_systemVars

\* A command that is about to send a listing, an auction or an offer finds the
\* accounts it needs, also when two terminals create them at the same time
\* and one of the creations fails.
CreatedBeforeUse ==
    \A t \in Terminal :
        LET c == run[t].cmd
        IN  /\ At(t, "send") /\ c.name \in {"list", "create_auction"} =>
                  SellExists(c.mint) /\ AuctionExists(c.mint)
            /\ At(t, "send") /\ c.name = "make_offer" =>
                  OfferExists(c.mint, PayerOf[t])

\* A deposit command moves its amount at most once, although its confirmation
\* can time out before its transaction lands.
DepositedOnce ==
    \A t \in Terminal :
        \E most \in PriceInput :
            /\ \A amount \in PriceInput : amount <= most
            /\ user_pool[PayerOf[t]].escrow_sol_balance <= run[t].started * most

\* Every command ends: no await waits for an account, a landing or another
\* terminal for ever.
CommandsReturn == \A t \in Terminal : ~At(t, "idle") ~> At(t, "idle")

\* README: transfer moves an NFT "from Sender wallet or it's listed Escrow
\* Account".  The builder leaves out an account the interface asks for.
ListedCanBeTransferred ==
    \A m \in Mint, recipient \in User :
        Listed(m) =>
            createTransferFromVaultTx(m, sell[m].seller, recipient) # {}
=============================================================================
