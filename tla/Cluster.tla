------------------------------ MODULE Cluster ------------------------------
(***************************************************************************)
(* A transaction of the client reaches the program: the accounts and       *)
(* arguments it was built with some time ago meet the state of now.  It    *)
(* creates the token accounts it brings along, then runs its instruction,  *)
(* or it does nothing at all.                                              *)
(***************************************************************************)
EXTENDS Builders

Signer(tx) == tx.accounts[AccountNames(tx.ix)[1]]

MintOf(tx) ==
    IF "nftMint" \in DOMAIN tx.accounts THEN tx.accounts.nftMint
    ELSE tx.args.nft

\* The seeds an accounts struct declares for the account of this name.
SeedsOf(tx, name) ==
    CASE name = "globalAuthority" -> GlobalAuthority
      [] name = "escrowVault"     -> EscrowVault
      [] name = "sellDataInfo"    -> SellPDA(MintOf(tx))
      [] name = "auctionDataInfo" -> AuctionPDA(MintOf(tx))
      [] name = "offerDataInfo"   ->
            OfferPDA(MintOf(tx), IF tx.ix = "acceptOffer" THEN tx.accounts.buyer
                                 ELSE Signer(tx))
      [] name = "mintMetadata"    -> getMetadata(MintOf(tx))
      [] name = "userPool"        -> UserPDA(tx.accounts.owner)
      [] name = "buyerUserPool"   -> UserPDA(tx.accounts.buyer)
      [] name = "sellerUserPool"  -> UserPDA(tx.accounts.seller)
      [] name = "bidderUserPool"  -> UserPDA(tx.accounts.bidder)
      [] name = "creatorUserPool" -> UserPDA(tx.accounts.creator)
      [] OTHER                    -> tx.accounts[name]

\* Every token account named exists, once those brought along are created.
TokenAccountNames ==
    {"userTokenAccount", "userNftTokenAccount", "destNftTokenAccount"}

TokenAccountsExist(tx) ==
    \A name \in TokenAccountNames \cap DOMAIN tx.accounts :
        tx.accounts[name] \in
            {getAssociatedTokenAccount(p[1], p[2]) : p \in atas \cup tx.creates}
            \cup {AuxiliaryAccount(MintOf(tx))}

AccountsFit(tx) ==
    /\ tx.creates \cap atas = {}
    /\ \A name \in DOMAIN tx.accounts : tx.accounts[name] = SeedsOf(tx, name)
    /\ TokenAccountsExist(tx)

\* An NFT that a user still holds is in the account named to take it from.
TakenFromSource(tx) ==
    holder[MintOf(tx)] # GlobalAuthority =>
        tx.accounts.userTokenAccount = getNFTTokenAccount(MintOf(tx))

-----------------------------------------------------------------------------
(***************************************************************************)
(* The instruction, with the accounts and arguments it is given.           *)
(***************************************************************************)
MarketUnchanged == UNCHANGED <<now, accounts, lamports, holder>>

RunAdministration(tx) ==
    LET admin == Signer(tx)
    IN  \/ tx.ix = "initialize" /\ Initialize(admin) /\ MarketUnchanged
        \/ /\ tx.ix = "updateFee"
           /\ UpdateFee(admin, tx.args.solFee) /\ MarketUnchanged
        \/ /\ tx.ix = "addTeamTreasury"
           /\ AddTeamTreasury(admin, tx.args.address, tx.args.rate)
           /\ MarketUnchanged
        \/ /\ tx.ix = "removeTeamTreasury"
           /\ RemoveTeamTreasury(admin, tx.args.address) /\ MarketUnchanged

RunCreation(tx) ==
    \/ tx.ix = "initUserPool" /\ InitUserPool(Signer(tx))
    \/ tx.ix = "initSellData" /\ InitSellData(tx.args.nft)
    \/ tx.ix = "initAuctionData" /\ InitAuctionData(tx.args.nft)
    \/ tx.ix = "initOfferData" /\ InitOfferData(Signer(tx), tx.args.nft)

RunEscrow(tx) ==
    \/ tx.ix = "depositToEscrow" /\ DepositToEscrow(Signer(tx), tx.args.sol)
    \/ tx.ix = "withdrawFromEscrow" /\ WithdrawFromEscrow(Signer(tx), tx.args.sol)

RunListing(tx) ==
    LET user == Signer(tx)
        m == MintOf(tx)
    IN  \/ /\ tx.ix = "listNftForSale" /\ TakenFromSource(tx)
           /\ ListNftForSale(user, m, tx.args.priceSol)
        \/ tx.ix = "delistNft" /\ DelistNft(user, m)
        \/ tx.ix = "setPrice" /\ SetPrice(user, m, tx.args.price)
        \/ /\ tx.ix = "transfer" /\ TakenFromSource(tx)
           /\ TransferNft(user, tx.accounts.recipient, m)
        \/ /\ tx.ix = "transferFromVault"
           /\ TransferFromVault(user, tx.accounts.recipient, m)
        \/ /\ tx.ix = "purchase"
           /\ tx.accounts.seller = sell[m].seller
           /\ PurchaseNaming(user, m, tx.remaining)

RunOffering(tx) ==
    LET user == Signer(tx)
        m == MintOf(tx)
    IN  \/ tx.ix = "makeOffer" /\ MakeOffer(user, m, tx.args.price)
        \/ tx.ix = "cancelOffer" /\ CancelOffer(user, m)
        \/ /\ tx.ix = "acceptOffer"
           /\ AcceptOfferNaming(user, tx.accounts.buyer, m, tx.remaining)

RunAuctioning(tx) ==
    LET user == Signer(tx)
        m == MintOf(tx)
        a == auction[m]
    IN  \/ /\ tx.ix = "createAuction" /\ TakenFromSource(tx)
           /\ CreateAuction(user, m, tx.args.startPrice, tx.args.minIncrease,
                            tx.args.duration, tx.args.reserved)
        \/ /\ tx.ix = "placeBid"
           /\ PlaceBidRefunding(user, m, tx.args.price, tx.accounts.outBidder)
        \/ /\ tx.ix = "claimAuction"
           /\ tx.accounts.creator = a.creator
           /\ ClaimAuctionNaming(user, m, tx.remaining)
        \/ tx.ix = "updateReserve" /\ UpdateReserve(user, m, tx.args.price)
        \/ tx.ix = "cancelAuction" /\ CancelAuction(user, m)

\* The escrow's token account is closed when its NFT leaves; a user's token
\* account stays.
TokenAccountsAfter(tx) ==
    /\ atas' = (atas \cup tx.creates) \
                  {<<GlobalAuthority, m>> :
                      m \in {x \in Mint : /\ holder[x] = GlobalAuthority
                                          /\ holder'[x] # GlobalAuthority}}
    /\ aux' = {m \in aux : /\ holder'[m] = holder[m]
                           /\ tx.ix = "transfer" => MintOf(tx) # m}

Execute(tx) ==
    /\ AccountsFit(tx)
    /\ \/ RunAdministration(tx) \/ RunCreation(tx) \/ RunEscrow(tx)
       \/ RunListing(tx) \/ RunOffering(tx) \/ RunAuctioning(tx)
    /\ TokenAccountsAfter(tx)

\* The transaction would be executed now.  Of the conditions of a creation
\* the model keeps that its account does not exist yet: the rent and the fee
\* its payer pays are left out with all other fees.  This is ENABLED Execute
\* written out, for the transactions commands wait for.
Executable(tx) ==
    CASE tx.ix = "initUserPool" -> AccountsFit(tx) /\ ~PoolExists(Signer(tx))
      [] tx.ix = "initSellData" -> AccountsFit(tx) /\ ~SellExists(MintOf(tx))
      [] tx.ix = "initAuctionData" ->
            AccountsFit(tx) /\ ~AuctionExists(MintOf(tx))
      [] tx.ix = "initOfferData" ->
            AccountsFit(tx) /\ ~OfferExists(MintOf(tx), Signer(tx))
      [] OTHER -> ENABLED Execute(tx)
=============================================================================
