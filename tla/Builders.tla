------------------------------ MODULE Builders ------------------------------
(***************************************************************************)
(* The transactions the client library builds (lib/scripts.ts), one        *)
(* operator per builder.  A builder returns {} when it throws and {tx}     *)
(* otherwise.                                                              *)
(*                                                                         *)
(* All reads of one builder are one snapshot; the treasuries are an        *)
(* argument, read earlier by the caller.  Bumps are left out, and so are   *)
(* the accounts that are the same everywhere: programs and sysvars.        *)
(***************************************************************************)
EXTENDS Client

FixedAccounts ==
    {"tokenProgram", "systemProgram", "rent", "tokenMetadataProgram"}

AccountNames(ix) == IDL!instructions[ix].accounts
AccountsNeeded(ix) ==
    {AccountNames(ix)[k] : k \in DOMAIN AccountNames(ix)} \ FixedAccounts

(***************************************************************************)
(* program.instruction.ix(...args, {accounts, remainingAccounts}), behind  *)
(* the instructions that create token accounts.  It throws when an account *)
(* the interface lists is not given.                                       *)
(***************************************************************************)
InstructionTo(ix, accts, args, remaining, creates) ==
    IF AccountsNeeded(ix) \subseteq DOMAIN accts
    THEN {[ix |-> ix, accounts |-> accts, args |-> args,
           remaining |-> remaining, creates |-> creates]}
    ELSE {}

Plain(ix, accts, args) == InstructionTo(ix, accts, args, <<>>, {})

\* new anchor.BN(x), stored as a u64: the sign is lost, and a number that is
\* not exact throws.
U64Argument(x) ==
    LET magnitude == IF x < 0 THEN -x ELSE x
    IN  IF magnitude <= MaxSafe THEN {magnitude} ELSE {}

NoArguments == <<>>

-----------------------------------------------------------------------------
(***************************************************************************)
(* Administration and creation of accounts.                                *)
(***************************************************************************)
createInitializeTx(user) ==
    Plain("initialize",
          [admin |-> user, globalAuthority |-> GlobalAuthority,
           escrowVault |-> EscrowVault],
          NoArguments)

createUpdateFeeTx(user, solFee) ==
    UNION {Plain("updateFee",
                 [admin |-> user, globalAuthority |-> GlobalAuthority],
                 [solFee |-> fee]) : fee \in U64Argument(solFee)}

createAddTreasuryTx(user, address, rate) ==
    UNION {Plain("addTeamTreasury",
                 [admin |-> user, globalAuthority |-> GlobalAuthority],
                 [address |-> address, rate |-> r]) : r \in U64Argument(rate)}

createRemoveTreasuryTx(user, address) ==
    Plain("removeTeamTreasury",
          [admin |-> user, globalAuthority |-> GlobalAuthority],
          [address |-> address])

createInitUserTx(user) ==
    Plain("initUserPool", [owner |-> user, userPool |-> UserPDA(user)],
          NoArguments)

createInitSellDataTx(mint, user) ==
    Plain("initSellData", [payer |-> user, sellDataInfo |-> SellPDA(mint)],
          [nft |-> mint])

createInitAuctionDataTx(mint, user) ==
    Plain("initAuctionData",
          [payer |-> user, auctionDataInfo |-> AuctionPDA(mint)],
          [nft |-> mint])

createInitOfferDataTx(mint, user) ==
    Plain("initOfferData",
          [payer |-> user, offerDataInfo |-> OfferPDA(mint, user)],
          [nft |-> mint])

-----------------------------------------------------------------------------
(***************************************************************************)
(* The lamport escrow.                                                     *)
(***************************************************************************)
createDepositTx(user, sol) ==
    UNION {Plain("depositToEscrow",
                 [owner |-> user, userPool |-> UserPDA(user),
                  escrowVault |-> EscrowVault],
                 [sol |-> amount]) : amount \in U64Argument(sol)}

createWithdrawTx(user, sol) ==
    UNION {Plain("withdrawFromEscrow",
                 [owner |-> user, userPool |-> UserPDA(user),
                  escrowVault |-> EscrowVault],
                 [sol |-> amount]) : amount \in U64Argument(sol)}

-----------------------------------------------------------------------------
(***************************************************************************)
(* Moving and listing an NFT.                                              *)
(***************************************************************************)
\* Where the user's NFT is taken from: his associated account if it exists,
\* else the account that holds the NFT if it is his.  For an NFT in escrow
\* already the associated account is named although it does not exist.
SourceAccount(mint, user, escrowed) ==
    IF <<user, mint>> \in atas THEN {getAssociatedTokenAccount(user, mint)}
    ELSE IF getOwnerOfNFT(mint) = user THEN {getNFTTokenAccount(mint)}
    ELSE IF escrowed /\ getOwnerOfNFT(mint) = GlobalAuthority
         THEN {getAssociatedTokenAccount(user, mint)}
    ELSE {}

createTransferTx(mint, user, recipient) ==
    UNION {InstructionTo("transfer",
             [owner |-> user, userTokenAccount |-> source,
              recipient |-> recipient,
              destNftTokenAccount |-> getAssociatedTokenAccount(recipient, mint),
              nftMint |-> mint],
             NoArguments, <<>>, getATokenAccountsNeedCreate(recipient, mint)) :
           source \in SourceAccount(mint, user, FALSE)}

\* The auction data account is not among them.
createTransferFromVaultTx(mint, user, recipient) ==
    InstructionTo("transferFromVault",
        [owner |-> user, globalAuthority |-> GlobalAuthority,
         sellDataInfo |-> SellPDA(mint), recipient |-> recipient,
         userTokenAccount |-> getAssociatedTokenAccount(recipient, mint),
         destNftTokenAccount |-> getAssociatedTokenAccount(GlobalAuthority, mint),
         nftMint |-> mint],
        NoArguments, <<>>, getATokenAccountsNeedCreate(recipient, mint))

createListForSellNftTx(mint, user, priceSol) ==
    UNION {InstructionTo("listNftForSale",
             [owner |-> user, globalAuthority |-> GlobalAuthority,
              sellDataInfo |-> SellPDA(mint), userTokenAccount |-> source,
              destNftTokenAccount |->
                  getAssociatedTokenAccount(GlobalAuthority, mint),
              nftMint |-> mint, mintMetadata |-> getMetadata(mint),
              auctionDataInfo |-> AuctionPDA(mint)],
             [priceSol |-> price], <<>>,
             getATokenAccountsNeedCreate(GlobalAuthority, mint)) :
           source \in SourceAccount(mint, user, TRUE),
           price \in IF priceSol < 0 THEN {} ELSE U64Argument(priceSol)}

createDelistNftTx(mint, user) ==
    InstructionTo("delistNft",
        [owner |-> user, globalAuthority |-> GlobalAuthority,
         sellDataInfo |-> SellPDA(mint),
         userTokenAccount |-> getAssociatedTokenAccount(user, mint),
         destNftTokenAccount |-> getAssociatedTokenAccount(GlobalAuthority, mint),
         nftMint |-> mint, auctionDataInfo |-> AuctionPDA(mint)],
        NoArguments, <<>>, getATokenAccountsNeedCreate(user, mint))

createSetPriceTx(mint, user, newPrice) ==
    UNION {Plain("setPrice",
                 [owner |-> user, sellDataInfo |-> SellPDA(mint),
                  nftMint |-> mint],
                 [price |-> price]) : price \in U64Argument(newPrice)}

-----------------------------------------------------------------------------
(***************************************************************************)
(* Sales.  The accounts to pay are the treasuries the caller read and the  *)
(* creators of the metadata, which throws if it has none.                  *)
(***************************************************************************)
RemainingAccounts(mint, treasuries) ==
    IF HasCreators(mint) THEN {NamedPayees(mint, treasuries)} ELSE {}

createPurchaseTx(mint, user, treasuries) ==
    UNION {InstructionTo("purchase",
             [buyer |-> user, globalAuthority |-> GlobalAuthority,
              buyerUserPool |-> UserPDA(user), sellDataInfo |-> SellPDA(mint),
              userNftTokenAccount |-> getAssociatedTokenAccount(user, mint),
              destNftTokenAccount |->
                  getAssociatedTokenAccount(GlobalAuthority, mint),
              nftMint |-> mint, seller |-> info.seller,
              sellerUserPool |-> UserPDA(info.seller),
              mintMetadata |-> getMetadata(mint),
              auctionDataInfo |-> AuctionPDA(mint)],
             NoArguments, remaining, getATokenAccountsNeedCreate(user, mint)) :
           info \in getNFTPoolState(mint),
           remaining \in RemainingAccounts(mint, treasuries)}

\* The seller is read, not given: he has to sign.
createAcceptOfferTx(mint, buyer, treasuries) ==
    UNION {InstructionTo("acceptOffer",
             [seller |-> info.seller, sellDataInfo |-> SellPDA(mint),
              buyer |-> buyer, offerDataInfo |-> OfferPDA(mint, buyer),
              sellerUserPool |-> UserPDA(info.seller), nftMint |-> mint,
              globalAuthority |-> GlobalAuthority,
              buyerUserPool |-> UserPDA(buyer),
              userNftTokenAccount |-> getAssociatedTokenAccount(buyer, mint),
              destNftTokenAccount |->
                  getAssociatedTokenAccount(GlobalAuthority, mint),
              escrowVault |-> EscrowVault, mintMetadata |-> getMetadata(mint),
              auctionDataInfo |-> AuctionPDA(mint)],
             NoArguments, remaining, getATokenAccountsNeedCreate(buyer, mint)) :
           info \in getNFTPoolState(mint),
           offered \in getOfferDataState(mint, buyer),
           remaining \in RemainingAccounts(mint, treasuries)}

createClaimAuctionTx(mint, user, treasuries) ==
    UNION {InstructionTo("claimAuction",
             [bidder |-> user, globalAuthority |-> GlobalAuthority,
              auctionDataInfo |-> AuctionPDA(mint),
              userTokenAccount |-> getAssociatedTokenAccount(user, mint),
              destNftTokenAccount |->
                  getAssociatedTokenAccount(GlobalAuthority, mint),
              nftMint |-> mint, escrowVault |-> EscrowVault,
              creator |-> info.creator, bidderUserPool |-> UserPDA(user),
              creatorUserPool |-> UserPDA(info.creator),
              mintMetadata |-> getMetadata(mint)],
             NoArguments, remaining, getATokenAccountsNeedCreate(user, mint)) :
           info \in getAuctionDataState(mint),
           remaining \in RemainingAccounts(mint, treasuries)}

-----------------------------------------------------------------------------
(***************************************************************************)
(* Offers.                                                                 *)
(***************************************************************************)
createMakeOfferTx(mint, user, price) ==
    UNION {Plain("makeOffer",
                 [owner |-> user, sellDataInfo |-> SellPDA(mint),
                  offerDataInfo |-> OfferPDA(mint, user), nftMint |-> mint,
                  userPool |-> UserPDA(user), escrowVault |-> EscrowVault],
                 [price |-> amount]) : amount \in U64Argument(price)}

createCancelOfferTx(mint, user) ==
    Plain("cancelOffer",
          [owner |-> user, offerDataInfo |-> OfferPDA(mint, user),
           nftMint |-> mint],
          NoArguments)

-----------------------------------------------------------------------------
(***************************************************************************)
(* Auctions.                                                               *)
(***************************************************************************)
createCreateAuctionTx(mint, user, startPrice, minIncrease, duration, reserved) ==
    UNION {InstructionTo("createAuction",
             [owner |-> user, globalAuthority |-> GlobalAuthority,
              auctionDataInfo |-> AuctionPDA(mint), userTokenAccount |-> source,
              destNftTokenAccount |->
                  getAssociatedTokenAccount(GlobalAuthority, mint),
              nftMint |-> mint, sellDataInfo |-> SellPDA(mint)],
             [startPrice |-> startPrice, minIncrease |-> minIncrease,
              duration |-> duration, reserved |-> IF reserved THEN 1 ELSE 0],
             <<>>, getATokenAccountsNeedCreate(GlobalAuthority, mint)) :
           source \in IF \A n \in {startPrice, minIncrease, duration} :
                           n >= 0 /\ n <= MaxSafe
                      THEN SourceAccount(mint, user, TRUE) ELSE {}}

\* The account to refund is the last bidder read, or the bidder himself.
createPlaceBidTx(mint, user, price) ==
    UNION {Plain("placeBid",
                 [bidder |-> user, auctionDataInfo |-> AuctionPDA(mint),
                  nftMint |-> mint, escrowVault |-> EscrowVault,
                  outBidder |-> IF info.last_bidder # Default
                                THEN info.last_bidder ELSE user,
                  sellDataInfo |-> SellPDA(mint)],
                 [price |-> amount]) :
           info \in getAuctionDataState(mint), amount \in U64Argument(price)}

createUpdateReserveTx(mint, user, newPrice) ==
    UNION {Plain("updateReserve",
                 [creator |-> user, auctionDataInfo |-> AuctionPDA(mint),
                  nftMint |-> mint],
                 [price |-> price]) : price \in U64Argument(newPrice)}

createCancelAuctionTx(mint, user) ==
    InstructionTo("cancelAuction",
        [creator |-> user, globalAuthority |-> GlobalAuthority,
         auctionDataInfo |-> AuctionPDA(mint),
         userTokenAccount |-> getAssociatedTokenAccount(user, mint),
         destNftTokenAccount |-> getAssociatedTokenAccount(GlobalAuthority, mint),
         nftMint |-> mint, sellDataInfo |-> SellPDA(mint)],
        NoArguments, <<>>, getATokenAccountsNeedCreate(user, mint))
=============================================================================
