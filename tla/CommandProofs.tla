---------------------------- MODULE CommandProofs ----------------------------
(***************************************************************************)
(* Proofs about the marketplace as the command lines drive it: whatever a  *)
(* client read and however late its transaction lands, the ledger takes a  *)
(* step of Marketplace or none, so that every theorem about Marketplace    *)
(* holds of the whole system.  A deposit is paid in once, no command sends *)
(* what needs an account before the account exists, and the escrow has a   *)
(* token account for exactly the NFTs in it.                               *)
(***************************************************************************)
EXTENDS CommandProperties, VaultProofs

-----------------------------------------------------------------------------
(***************************************************************************)
(* Transactions.                                                           *)
(***************************************************************************)
\* The instructions that name an NFT in their accounts.
NftInstructions ==
    {"listNftForSale", "delistNft", "setPrice", "transfer", "transferFromVault",
     "purchase", "makeOffer", "cancelOffer", "acceptOffer", "createAuction",
     "placeBid", "claimAuction", "updateReserve", "cancelAuction"}

Creating == {"initSellData", "initAuctionData", "initOfferData"}
Selling == {"purchase", "acceptOffer", "claimAuction"}

\* What a transaction carries was typed or read: its arguments are among the
\* inputs, its keys are of users and NFTs, and it pays the treasuries of some
\* time and the creators of always.
TxFits(tx) ==
    /\ Signer(tx) \in User
    /\ tx.ix \in NftInstructions => MintOf(tx) \in Mint
    /\ tx.ix \in Creating => tx.args.nft \in Mint
    /\ tx.ix = "updateFee" => tx.args.solFee \in FeeInput
    /\ tx.ix = "addTeamTreasury" =>
          tx.args.address \in Wallet /\ tx.args.rate \in RateInput
    /\ tx.ix = "removeTeamTreasury" => tx.args.address \in Wallet
    /\ tx.ix \in {"depositToEscrow", "withdrawFromEscrow"} =>
          tx.args.sol \in PriceInput
    /\ tx.ix = "listNftForSale" => tx.args.priceSol \in PriceInput
    /\ tx.ix \in {"setPrice", "makeOffer", "placeBid", "updateReserve"} =>
          tx.args.price \in PriceInput
    /\ tx.ix \in {"transfer", "transferFromVault"} =>
          tx.accounts.recipient \in User
    /\ tx.ix = "acceptOffer" => tx.accounts.buyer \in User
    /\ tx.ix = "createAuction" =>
          /\ tx.args.startPrice \in PriceInput
          /\ tx.args.minIncrease \in MinIncreaseInput
          /\ tx.args.duration \in DurationInput
          /\ tx.args.reserved \in 0 .. 1
    /\ tx.ix \in Selling =>
          \E treasuries \in Seq(Key) :
              tx.remaining = NamedPayees(MintOf(tx), treasuries)

LEMMA AdministrationRuns ==
  ASSUME NEW tx, TxFits(tx), RunAdministration(tx)
  PROVE  Administration
BY DEF TxFits, RunAdministration, MarketUnchanged, Administration, TreasuryNext

LEMMA CreationRuns ==
  ASSUME NEW tx, TxFits(tx), RunCreation(tx)
  PROVE  Creation
BY DEF TxFits, RunCreation, Creating, Creation

LEMMA EscrowRuns ==
  ASSUME NEW tx, TxFits(tx), RunEscrow(tx)
  PROVE  Escrow
BY DEF TxFits, RunEscrow, Escrow

\* The listing a purchase finds may be another one than its buyer saw, and
\* the pool another one than was read.
LEMMA ListingRuns ==
  ASSUME TypeOK, NEW tx, TxFits(tx), RunListing(tx)
  PROVE  Listing
<1> DEFINE user == Signer(tx)
           m == MintOf(tx)
<1>1. user \in User BY DEF TxFits
<1>2. ASSUME tx.ix = "listNftForSale", ListNftForSale(user, m, tx.args.priceSol)
      PROVE  Listing
  <2>1. m \in Mint /\ tx.args.priceSol \in PriceInput
    BY <1>2 DEF TxFits, NftInstructions
  <2> QED BY <1>1, <1>2, <2>1 DEF Listing
<1>3. ASSUME tx.ix = "delistNft", DelistNft(user, m) PROVE Listing
  <2>1. m \in Mint BY <1>3 DEF TxFits, NftInstructions
  <2> QED BY <1>1, <1>3, <2>1 DEF Listing
<1>4. ASSUME tx.ix = "setPrice", SetPrice(user, m, tx.args.price) PROVE Listing
  <2>1. m \in Mint /\ tx.args.price \in PriceInput
    BY <1>4 DEF TxFits, NftInstructions
  <2> QED BY <1>1, <1>4, <2>1 DEF Listing
<1>5. ASSUME tx.ix = "transfer", TransferNft(user, tx.accounts.recipient, m)
      PROVE  Listing
  <2>1. m \in Mint /\ tx.accounts.recipient \in User
    BY <1>5 DEF TxFits, NftInstructions
  <2> QED BY <1>1, <1>5, <2>1 DEF Listing
<1>6. ASSUME tx.ix = "transferFromVault",
             TransferFromVault(user, tx.accounts.recipient, m)
      PROVE  Listing
  <2>1. m \in Mint /\ tx.accounts.recipient \in User
    BY <1>6 DEF TxFits, NftInstructions
  <2> QED BY <1>1, <1>6, <2>1 DEF Listing
<1>7. ASSUME tx.ix = "purchase", PurchaseNaming(user, m, tx.remaining)
      PROVE  Listing
  <2>1. m \in Mint BY <1>7 DEF TxFits, NftInstructions
  <2>2. PICK treasuries \in Seq(Key) : tx.remaining = NamedPayees(m, treasuries)
    BY <1>7 DEF TxFits, Selling
  <2>3. HasCreators(m) /\ RemainingFit(tx.remaining, m)
    BY <1>7 DEF PurchaseNaming, SaleCanSettle
  <2>4. TreasuryTypeOK BY DEF TypeOK
  <2>5. tx.remaining \in RemainingLists(m)
    BY <2>1, <2>2, <2>3, <2>4, ClientListFits
  <2>6. Purchase(user, m) BY <1>7, <2>3, <2>5 DEF Purchase
  <2> QED BY <1>1, <2>1, <2>6 DEF Listing
<1> HIDE DEF user, m
<1> QED
  BY <1>2, <1>3, <1>4, <1>5, <1>6, <1>7 DEF RunListing, user, m

LEMMA AcceptRuns ==
  ASSUME TypeOK, NEW tx, TxFits(tx), RunOffering(tx), tx.ix = "acceptOffer"
  PROVE  AcceptOffer(Signer(tx), tx.accounts.buyer, MintOf(tx))
<1> DEFINE user == Signer(tx)
           m == MintOf(tx)
           buyer == tx.accounts.buyer
<1>1. user \in User /\ m \in Mint /\ buyer \in User
  BY DEF TxFits, NftInstructions
<1>2. AcceptOfferNaming(user, buyer, m, tx.remaining) BY DEF RunOffering
<1>3. PICK treasuries \in Seq(Key) : tx.remaining = NamedPayees(m, treasuries)
  BY DEF TxFits, Selling
<1>4. HasCreators(m) /\ RemainingFit(tx.remaining, m)
  BY <1>2 DEF AcceptOfferNaming, SaleCanSettle
<1>5. TreasuryTypeOK BY DEF TypeOK
<1> HIDE DEF user, m, buyer
<1>6. tx.remaining \in RemainingLists(m)
  BY <1>1, <1>3, <1>4, <1>5, ClientListFits
<1> QED BY <1>2, <1>4, <1>6 DEF AcceptOffer, user, m, buyer

LEMMA OfferingRuns ==
  ASSUME TypeOK, NEW tx, TxFits(tx), RunOffering(tx)
  PROVE  Offering
<1> DEFINE user == Signer(tx)
           m == MintOf(tx)
<1>1. user \in User BY DEF TxFits
<1>2. ASSUME tx.ix = "makeOffer", MakeOffer(user, m, tx.args.price)
      PROVE  Offering
  <2>1. m \in Mint /\ tx.args.price \in PriceInput
    BY <1>2 DEF TxFits, NftInstructions
  <2> QED BY <1>1, <1>2, <2>1 DEF Offering
<1>3. ASSUME tx.ix = "cancelOffer", CancelOffer(user, m) PROVE Offering
  <2>1. m \in Mint BY <1>3 DEF TxFits, NftInstructions
  <2> QED BY <1>1, <1>3, <2>1 DEF Offering
<1>4. ASSUME tx.ix = "acceptOffer" PROVE Offering
  <2>1. m \in Mint /\ tx.accounts.buyer \in User
    BY <1>4 DEF TxFits, NftInstructions
  <2>2. AcceptOffer(user, tx.accounts.buyer, m) BY <1>4, AcceptRuns
  <2> QED BY <1>1, <2>1, <2>2 DEF Offering
<1> HIDE DEF user, m
<1> QED BY <1>2, <1>3, <1>4 DEF RunOffering, user, m

\* A bid refunds the last bidder of now, or the program refuses it.
LEMMA AuctioningRuns ==
  ASSUME TypeOK, NEW tx, TxFits(tx), RunAuctioning(tx)
  PROVE  Auctioning
<1> DEFINE user == Signer(tx)
           m == MintOf(tx)
           a == auction[m]
<1>1. user \in User BY DEF TxFits
<1>2. ASSUME tx.ix = "createAuction",
             CreateAuction(user, m, tx.args.startPrice, tx.args.minIncrease,
                           tx.args.duration, tx.args.reserved)
      PROVE  Auctioning
  <2>1. /\ m \in Mint /\ tx.args.startPrice \in PriceInput
        /\ tx.args.minIncrease \in MinIncreaseInput
        /\ tx.args.duration \in DurationInput /\ tx.args.reserved \in 0 .. 1
    BY <1>2 DEF TxFits, NftInstructions
  <2> QED BY <1>1, <1>2, <2>1 DEF Auctioning
<1>3. ASSUME tx.ix = "placeBid",
             PlaceBidRefunding(user, m, tx.args.price, tx.accounts.outBidder)
      PROVE  Auctioning
  <2>1. m \in Mint /\ tx.args.price \in PriceInput
    BY <1>3 DEF TxFits, NftInstructions
  <2>2. NamesOutBidder(a, tx.accounts.outBidder)
    BY <1>3 DEF PlaceBidRefunding
  <2>3. Refunded(a, tx.accounts.outBidder) = Refunded(a, a.last_bidder)
    BY <2>2 DEF NamesOutBidder, Refunded
  <2>4. PlaceBid(user, m, tx.args.price)
    BY <1>3, <2>3 DEF PlaceBid, PlaceBidRefunding, NamesOutBidder
  <2> QED BY <1>1, <2>1, <2>4 DEF Auctioning
<1>4. ASSUME tx.ix = "claimAuction", ClaimAuctionNaming(user, m, tx.remaining)
      PROVE  Auctioning
  <2>1. m \in Mint BY <1>4 DEF TxFits, NftInstructions
  <2>2. PICK treasuries \in Seq(Key) : tx.remaining = NamedPayees(m, treasuries)
    BY <1>4 DEF TxFits, Selling
  <2>3. HasCreators(m) /\ RemainingFit(tx.remaining, m)
    BY <1>4 DEF ClaimAuctionNaming, SaleCanSettle
  <2>4. TreasuryTypeOK BY DEF TypeOK
  <2>5. tx.remaining \in RemainingLists(m)
    BY <2>1, <2>2, <2>3, <2>4, ClientListFits
  <2>6. ClaimAuction(user, m) BY <1>4, <2>3, <2>5 DEF ClaimAuction
  <2> QED BY <1>1, <2>1, <2>6 DEF Auctioning
<1>5. ASSUME tx.ix = "updateReserve", UpdateReserve(user, m, tx.args.price)
      PROVE  Auctioning
  <2>1. m \in Mint /\ tx.args.price \in PriceInput
    BY <1>5 DEF TxFits, NftInstructions
  <2> QED BY <1>1, <1>5, <2>1 DEF Auctioning
<1>6. ASSUME tx.ix = "cancelAuction", CancelAuction(user, m) PROVE Auctioning
  <2>1. m \in Mint BY <1>6 DEF TxFits, NftInstructions
  <2> QED BY <1>1, <1>6, <2>1 DEF Auctioning
<1> HIDE DEF user, m, a
<1> QED
  BY <1>2, <1>3, <1>4, <1>5, <1>6 DEF RunAuctioning, user, m, a

\* A transaction that is executed is an instruction of the marketplace.
LEMMA ExecuteRuns ==
  ASSUME TypeOK, NEW tx, TxFits(tx), Execute(tx)
  PROVE  Next
BY AdministrationRuns, CreationRuns, EscrowRuns, ListingRuns, OfferingRuns,
   AuctioningRuns DEF Execute, Next

-----------------------------------------------------------------------------
(***************************************************************************)
(* The builders put into a transaction what they are given.                *)
(***************************************************************************)
LEMMA InstructionParts ==
  ASSUME NEW ix, NEW accts, NEW args, NEW remaining, NEW creates,
         NEW tx \in InstructionTo(ix, accts, args, remaining, creates)
  PROVE  /\ tx.ix = ix /\ tx.accounts = accts /\ tx.args = args
         /\ tx.remaining = remaining
BY DEF InstructionTo

LEMMA AdministrationFits ==
  ASSUME NEW user, NEW tx, Signer(tx) \in User
  PROVE  /\ tx \in createInitializeTx(user) => TxFits(tx)
         /\ \A fee : /\ U64Argument(fee) \subseteq FeeInput
                    /\ tx \in createUpdateFeeTx(user, fee)
                 => TxFits(tx)
         /\ \A address \in Wallet : \A rate :
               /\ U64Argument(rate) \subseteq RateInput
               /\ tx \in createAddTreasuryTx(user, address, rate)
               => TxFits(tx)
         /\ \A address \in Wallet :
               tx \in createRemoveTreasuryTx(user, address) => TxFits(tx)
<1>1. ASSUME tx \in createInitializeTx(user) PROVE TxFits(tx)
  <2>1. tx.ix = "initialize"
    BY <1>1, InstructionParts DEF createInitializeTx, Plain
  <2> QED BY <2>1 DEF TxFits, NftInstructions, Creating, Selling
<1>2. ASSUME NEW fee, U64Argument(fee) \subseteq FeeInput,
             tx \in createUpdateFeeTx(user, fee)
      PROVE  TxFits(tx)
  <2>1. PICK x \in FeeInput : tx.ix = "updateFee" /\ tx.args = [solFee |-> x]
    BY <1>2, InstructionParts DEF createUpdateFeeTx, Plain
  <2> QED BY <2>1 DEF TxFits, NftInstructions, Creating, Selling
<1>3. ASSUME NEW address \in Wallet, NEW rate, U64Argument(rate) \subseteq RateInput,
             tx \in createAddTreasuryTx(user, address, rate)
      PROVE  TxFits(tx)
  <2>1. PICK x \in U64Argument(rate) :
           tx \in Plain("addTeamTreasury",
                        [admin |-> user, globalAuthority |-> GlobalAuthority],
                        [address |-> address, rate |-> x])
    BY <1>3 DEF createAddTreasuryTx
  <2>2. tx.ix = "addTeamTreasury" /\ tx.args = [address |-> address, rate |-> x]
    BY <2>1, InstructionParts DEF Plain
  <2> QED BY <1>3, <2>2 DEF TxFits, NftInstructions, Creating, Selling
<1>4. ASSUME NEW address \in Wallet, tx \in createRemoveTreasuryTx(user, address)
      PROVE  TxFits(tx)
  <2>1. tx.ix = "removeTeamTreasury" /\ tx.args = [address |-> address]
    BY <1>4, InstructionParts DEF createRemoveTreasuryTx, Plain
  <2> QED BY <2>1 DEF TxFits, NftInstructions, Creating, Selling
<1> QED BY <1>1, <1>2, <1>3, <1>4

LEMMA CreatingUserFits ==
  ASSUME NEW user, NEW tx \in createInitUserTx(user), Signer(tx) \in User
  PROVE  TxFits(tx)
<1>1. tx.ix = "initUserPool" BY InstructionParts DEF createInitUserTx, Plain
<1> QED BY <1>1 DEF TxFits, NftInstructions, Creating, Selling

LEMMA CreatingFits ==
  ASSUME NEW user, NEW mint \in Mint, NEW tx, Signer(tx) \in User,
         \/ tx \in createInitSellDataTx(mint, user)
         \/ tx \in createInitAuctionDataTx(mint, user)
         \/ tx \in createInitOfferDataTx(mint, user)
  PROVE  TxFits(tx)
<1>1. tx.ix \in Creating /\ tx.args = [nft |-> mint]
  BY InstructionParts
     DEF createInitSellDataTx, createInitAuctionDataTx, createInitOfferDataTx,
         Plain, Creating
<1> QED BY <1>1 DEF TxFits, NftInstructions, Creating, Selling

LEMMA EscrowFits ==
  ASSUME NEW user, NEW sol, U64Argument(sol) \subseteq PriceInput,
         NEW tx, Signer(tx) \in User
  PROVE  /\ tx \in createDepositTx(user, sol) => TxFits(tx)
         /\ tx \in createWithdrawTx(user, sol) => TxFits(tx)
<1> DEFINE accts == [owner |-> user, userPool |-> UserPDA(user),
                     escrowVault |-> EscrowVault]
<1>1. ASSUME tx \in createDepositTx(user, sol) PROVE TxFits(tx)
  <2>1. PICK x \in U64Argument(sol) :
           tx \in Plain("depositToEscrow", accts, [sol |-> x])
    BY <1>1 DEF createDepositTx
  <2>2. tx.ix = "depositToEscrow" /\ tx.args = [sol |-> x]
    BY <2>1, InstructionParts DEF Plain
  <2> QED BY <2>2 DEF TxFits, NftInstructions, Creating, Selling
<1>2. ASSUME tx \in createWithdrawTx(user, sol) PROVE TxFits(tx)
  <2>1. PICK x \in U64Argument(sol) :
           tx \in Plain("withdrawFromEscrow", accts, [sol |-> x])
    BY <1>2 DEF createWithdrawTx
  <2>2. tx.ix = "withdrawFromEscrow" /\ tx.args = [sol |-> x]
    BY <2>1, InstructionParts DEF Plain
  <2> QED BY <2>2 DEF TxFits, NftInstructions, Creating, Selling
<1> QED BY <1>1, <1>2

\* The transactions that carry an NFT and nothing else that was typed.
LEMMA PlainNftFits ==
  ASSUME NEW user, NEW mint \in Mint, NEW tx, Signer(tx) \in User
  PROVE  /\ tx \in createDelistNftTx(mint, user) => TxFits(tx)
         /\ tx \in createCancelOfferTx(mint, user) => TxFits(tx)
         /\ tx \in createCancelAuctionTx(mint, user) => TxFits(tx)
<1>1. ASSUME \/ tx \in createDelistNftTx(mint, user)
             \/ tx \in createCancelOfferTx(mint, user)
             \/ tx \in createCancelAuctionTx(mint, user)
      PROVE  TxFits(tx)
  <2>1. /\ tx.ix \in {"delistNft", "cancelOffer", "cancelAuction"}
        /\ "nftMint" \in DOMAIN tx.accounts /\ tx.accounts.nftMint = mint
    BY <1>1, InstructionParts
       DEF createDelistNftTx, createCancelOfferTx, createCancelAuctionTx, Plain
  <2>2. MintOf(tx) = mint BY <2>1 DEF MintOf
  <2> QED BY <2>1, <2>2 DEF TxFits, NftInstructions, Creating, Selling
<1> QED BY <1>1

LEMMA ListBuilt ==
  ASSUME NEW user, NEW mint, NEW price,
         NEW tx \in createListForSellNftTx(mint, user, price)
  PROVE  /\ tx.ix = "listNftForSale" /\ MintOf(tx) = mint
         /\ tx.args.priceSol \in U64Argument(price)
<1> DEFINE
      accts(source) ==
        [owner |-> user, globalAuthority |-> GlobalAuthority,
         sellDataInfo |-> SellPDA(mint), userTokenAccount |-> source,
         destNftTokenAccount |-> getAssociatedTokenAccount(GlobalAuthority, mint),
         nftMint |-> mint, mintMetadata |-> getMetadata(mint),
         auctionDataInfo |-> AuctionPDA(mint)]
      txs(source, x) ==
        InstructionTo("listNftForSale", accts(source), [priceSol |-> x], <<>>,
                      getATokenAccountsNeedCreate(GlobalAuthority, mint))
      sources == SourceAccount(mint, user, TRUE)
      prices == IF price < 0 THEN {} ELSE U64Argument(price)
<1>1. createListForSellNftTx(mint, user, price)
         = UNION {txs(source, x) : source \in sources, x \in prices}
  BY DEF createListForSellNftTx
<1>2. PICK source \in sources, x \in prices : tx \in txs(source, x)
  <2> HIDE DEF txs, sources, prices
  <2> QED BY <1>1
<1>3. /\ tx.ix = "listNftForSale" /\ tx.args = [priceSol |-> x]
      /\ tx.accounts = accts(source)
  BY <1>2, InstructionParts
<1>4. MintOf(tx) = mint BY <1>3 DEF MintOf
<1>5. x \in U64Argument(price) BY <1>2
<1> QED BY <1>3, <1>4, <1>5

\* Those that carry a price.
LEMMA PricedNftFits ==
  ASSUME NEW user, NEW mint \in Mint, NEW price,
         U64Argument(price) \subseteq PriceInput, NEW tx, Signer(tx) \in User
  PROVE  /\ tx \in createListForSellNftTx(mint, user, price) => TxFits(tx)
         /\ tx \in createSetPriceTx(mint, user, price) => TxFits(tx)
         /\ tx \in createMakeOfferTx(mint, user, price) => TxFits(tx)
         /\ tx \in createUpdateReserveTx(mint, user, price) => TxFits(tx)
<1>1. ASSUME tx \in createListForSellNftTx(mint, user, price) PROVE TxFits(tx)
  <2>1. /\ tx.ix = "listNftForSale" /\ MintOf(tx) = mint
        /\ tx.args.priceSol \in U64Argument(price)
    BY <1>1, ListBuilt
  <2> QED BY <2>1 DEF TxFits, NftInstructions, Creating, Selling
<1>2. ASSUME tx \in createSetPriceTx(mint, user, price) PROVE TxFits(tx)
  <2> DEFINE accts == [owner |-> user, sellDataInfo |-> SellPDA(mint),
                      nftMint |-> mint]
  <2>1. PICK x \in U64Argument(price) : tx \in Plain("setPrice", accts, [price |-> x])
    BY <1>2 DEF createSetPriceTx
  <2>2. tx.ix = "setPrice" /\ tx.args = [price |-> x] /\ tx.accounts = accts
    BY <2>1, InstructionParts DEF Plain
  <2>3. MintOf(tx) = mint BY <2>2 DEF MintOf
  <2> QED BY <2>2, <2>3 DEF TxFits, NftInstructions, Creating, Selling
<1>3. ASSUME tx \in createMakeOfferTx(mint, user, price) PROVE TxFits(tx)
  <2> DEFINE accts == [owner |-> user, sellDataInfo |-> SellPDA(mint),
                      offerDataInfo |-> OfferPDA(mint, user), nftMint |-> mint,
                      userPool |-> UserPDA(user), escrowVault |-> EscrowVault]
  <2>1. PICK x \in U64Argument(price) : tx \in Plain("makeOffer", accts, [price |-> x])
    BY <1>3 DEF createMakeOfferTx
  <2>2. tx.ix = "makeOffer" /\ tx.args = [price |-> x] /\ tx.accounts = accts
    BY <2>1, InstructionParts DEF Plain
  <2>3. MintOf(tx) = mint BY <2>2 DEF MintOf
  <2> QED BY <2>2, <2>3 DEF TxFits, NftInstructions, Creating, Selling
<1>4. ASSUME tx \in createUpdateReserveTx(mint, user, price) PROVE TxFits(tx)
  <2> DEFINE accts == [creator |-> user, auctionDataInfo |-> AuctionPDA(mint),
                      nftMint |-> mint]
  <2>1. PICK x \in U64Argument(price) : tx \in Plain("updateReserve", accts, [price |-> x])
    BY <1>4 DEF createUpdateReserveTx
  <2>2. tx.ix = "updateReserve" /\ tx.args = [price |-> x] /\ tx.accounts = accts
    BY <2>1, InstructionParts DEF Plain
  <2>3. MintOf(tx) = mint BY <2>2 DEF MintOf
  <2> QED BY <2>2, <2>3 DEF TxFits, NftInstructions, Creating, Selling
<1> QED BY <1>1, <1>2, <1>3, <1>4

\* Whoever the bidder read as the last one.
LEMMA PlaceBidFits ==
  ASSUME NEW user, NEW mint \in Mint, NEW price,
         U64Argument(price) \subseteq PriceInput,
         NEW tx \in createPlaceBidTx(mint, user, price), Signer(tx) \in User
  PROVE  TxFits(tx)
<1> DEFINE accts(info) ==
      [bidder |-> user, auctionDataInfo |-> AuctionPDA(mint), nftMint |-> mint,
       escrowVault |-> EscrowVault,
       outBidder |-> IF info.last_bidder # Default THEN info.last_bidder ELSE user,
       sellDataInfo |-> SellPDA(mint)]
<1>1. PICK info \in getAuctionDataState(mint), x \in U64Argument(price) :
         tx \in Plain("placeBid", accts(info), [price |-> x])
  BY DEF createPlaceBidTx
<1>2. tx.ix = "placeBid" /\ tx.args = [price |-> x] /\ tx.accounts = accts(info)
  BY <1>1, InstructionParts DEF Plain
<1>3. MintOf(tx) = mint BY <1>2 DEF MintOf
<1> QED BY <1>2, <1>3 DEF TxFits, NftInstructions, Creating, Selling

LEMMA TransferBuilt ==
  ASSUME NEW user, NEW mint, NEW recipient,
         NEW tx \in createTransferTx(mint, user, recipient)
  PROVE  /\ tx.ix = "transfer" /\ MintOf(tx) = mint
         /\ tx.accounts.recipient = recipient
<1> DEFINE accts(source) ==
      [owner |-> user, userTokenAccount |-> source, recipient |-> recipient,
       destNftTokenAccount |-> getAssociatedTokenAccount(recipient, mint),
       nftMint |-> mint]
<1>1. PICK source :
         tx \in InstructionTo("transfer", accts(source), NoArguments, <<>>,
                             getATokenAccountsNeedCreate(recipient, mint))
  BY DEF createTransferTx
<1>2. tx.ix = "transfer" /\ tx.accounts = accts(source)
  BY <1>1, InstructionParts
<1>3. MintOf(tx) = mint BY <1>2 DEF MintOf
<1> QED BY <1>2, <1>3

LEMMA TransferFits ==
  ASSUME NEW user, NEW mint \in Mint, NEW recipient \in User,
         NEW tx, Signer(tx) \in User
  PROVE  /\ tx \in createTransferTx(mint, user, recipient) => TxFits(tx)
         /\ tx \in createTransferFromVaultTx(mint, user, recipient) => TxFits(tx)
<1>1. ASSUME tx \in createTransferTx(mint, user, recipient) PROVE TxFits(tx)
  BY <1>1, TransferBuilt DEF TxFits, NftInstructions, Creating, Selling
<1>2. ASSUME tx \in createTransferFromVaultTx(mint, user, recipient)
      PROVE  TxFits(tx)
  <2> DEFINE accts ==
        [owner |-> user, globalAuthority |-> GlobalAuthority,
         sellDataInfo |-> SellPDA(mint), recipient |-> recipient,
         userTokenAccount |-> getAssociatedTokenAccount(recipient, mint),
         destNftTokenAccount |-> getAssociatedTokenAccount(GlobalAuthority, mint),
         nftMint |-> mint]
  <2>1. tx.ix = "transferFromVault" /\ tx.accounts = accts
    BY <1>2, InstructionParts DEF createTransferFromVaultTx
  <2>2. MintOf(tx) = mint BY <2>1 DEF MintOf
  <2> QED BY <2>1, <2>2 DEF TxFits, NftInstructions, Creating, Selling
<1> QED BY <1>1, <1>2

\* Whatever treasuries a sale's caller read.
LEMMA PayeesNamed ==
  ASSUME NEW mint, NEW treasuries,
         NEW remaining \in RemainingAccounts(mint, treasuries)
  PROVE  remaining = NamedPayees(mint, treasuries)
BY DEF RemainingAccounts, NamedPayees

LEMMA PurchaseFits ==
  ASSUME NEW user, NEW mint \in Mint, NEW treasuries \in Seq(Key),
         NEW tx \in createPurchaseTx(mint, user, treasuries), Signer(tx) \in User
  PROVE  TxFits(tx)
<1> DEFINE accts(info) == 
      [buyer |-> user, globalAuthority |-> GlobalAuthority,
       buyerUserPool |-> UserPDA(user), sellDataInfo |-> SellPDA(mint),
       userNftTokenAccount |-> getAssociatedTokenAccount(user, mint),
       destNftTokenAccount |-> getAssociatedTokenAccount(GlobalAuthority, mint),
       nftMint |-> mint, seller |-> info.seller,
       sellerUserPool |-> UserPDA(info.seller),
       mintMetadata |-> getMetadata(mint), auctionDataInfo |-> AuctionPDA(mint)]
<1>1. PICK info \in getNFTPoolState(mint),
           remaining \in RemainingAccounts(mint, treasuries) :
         tx \in InstructionTo("purchase", accts(info), NoArguments, remaining,
                             getATokenAccountsNeedCreate(user, mint))
  BY DEF createPurchaseTx
<1>2. /\ tx.ix = "purchase" /\ tx.accounts = accts(info)
      /\ tx.remaining = NamedPayees(mint, treasuries)
  BY PayeesNamed, <1>1, InstructionParts
<1>3. MintOf(tx) = mint BY <1>2 DEF MintOf
<1> QED BY <1>2, <1>3 DEF TxFits, NftInstructions, Creating, Selling

LEMMA AcceptFits ==
  ASSUME NEW mint \in Mint, NEW buyer \in User, NEW treasuries \in Seq(Key),
         NEW tx \in createAcceptOfferTx(mint, buyer, treasuries), Signer(tx) \in User
  PROVE  TxFits(tx)
<1> DEFINE accts(info) == 
      [seller |-> info.seller, sellDataInfo |-> SellPDA(mint), buyer |-> buyer,
       offerDataInfo |-> OfferPDA(mint, buyer),
       sellerUserPool |-> UserPDA(info.seller), nftMint |-> mint,
       globalAuthority |-> GlobalAuthority, buyerUserPool |-> UserPDA(buyer),
       userNftTokenAccount |-> getAssociatedTokenAccount(buyer, mint),
       destNftTokenAccount |-> getAssociatedTokenAccount(GlobalAuthority, mint),
       escrowVault |-> EscrowVault, mintMetadata |-> getMetadata(mint),
       auctionDataInfo |-> AuctionPDA(mint)]
<1>1. PICK info \in getNFTPoolState(mint),
           remaining \in RemainingAccounts(mint, treasuries) :
         tx \in InstructionTo("acceptOffer", accts(info), NoArguments, remaining,
                             getATokenAccountsNeedCreate(buyer, mint))
  BY DEF createAcceptOfferTx
<1>2. /\ tx.ix = "acceptOffer" /\ tx.accounts = accts(info)
      /\ tx.remaining = NamedPayees(mint, treasuries)
  BY PayeesNamed, <1>1, InstructionParts
<1>3. MintOf(tx) = mint BY <1>2 DEF MintOf
<1> QED BY <1>2, <1>3 DEF TxFits, NftInstructions, Creating, Selling

LEMMA ClaimFits ==
  ASSUME NEW user, NEW mint \in Mint, NEW treasuries \in Seq(Key),
         NEW tx \in createClaimAuctionTx(mint, user, treasuries), Signer(tx) \in User
  PROVE  TxFits(tx)
<1> DEFINE accts(info) == 
      [bidder |-> user, globalAuthority |-> GlobalAuthority,
       auctionDataInfo |-> AuctionPDA(mint),
       userTokenAccount |-> getAssociatedTokenAccount(user, mint),
       destNftTokenAccount |-> getAssociatedTokenAccount(GlobalAuthority, mint),
       nftMint |-> mint, escrowVault |-> EscrowVault, creator |-> info.creator,
       bidderUserPool |-> UserPDA(user), creatorUserPool |-> UserPDA(info.creator),
       mintMetadata |-> getMetadata(mint)]
<1>1. PICK info \in getAuctionDataState(mint),
           remaining \in RemainingAccounts(mint, treasuries) :
         tx \in InstructionTo("claimAuction", accts(info), NoArguments, remaining,
                             getATokenAccountsNeedCreate(user, mint))
  BY DEF createClaimAuctionTx
<1>2. /\ tx.ix = "claimAuction" /\ tx.accounts = accts(info)
      /\ tx.remaining = NamedPayees(mint, treasuries)
  BY PayeesNamed, <1>1, InstructionParts
<1>3. MintOf(tx) = mint BY <1>2 DEF MintOf
<1> QED BY <1>2, <1>3 DEF TxFits, NftInstructions, Creating, Selling

LEMMA AuctionBuilt ==
  ASSUME NEW user, NEW mint, NEW startPrice, NEW minIncrease, NEW duration,
         NEW reserved,
         NEW tx \in createCreateAuctionTx(mint, user, startPrice, minIncrease,
                                          duration, reserved)
  PROVE  /\ tx.ix = "createAuction" /\ MintOf(tx) = mint
         /\ tx.args = [startPrice |-> startPrice, minIncrease |-> minIncrease,
                       duration |-> duration, reserved |-> IF reserved THEN 1 ELSE 0]
<1> DEFINE accts(source) ==
      [owner |-> user, globalAuthority |-> GlobalAuthority,
       auctionDataInfo |-> AuctionPDA(mint), userTokenAccount |-> source,
       destNftTokenAccount |-> getAssociatedTokenAccount(GlobalAuthority, mint),
       nftMint |-> mint, sellDataInfo |-> SellPDA(mint)]
    args == [startPrice |-> startPrice, minIncrease |-> minIncrease,
             duration |-> duration, reserved |-> IF reserved THEN 1 ELSE 0]
<1>1. PICK source :
         tx \in InstructionTo("createAuction", accts(source), args, <<>>,
                             getATokenAccountsNeedCreate(GlobalAuthority, mint))
  BY DEF createCreateAuctionTx
<1>2. tx.ix = "createAuction" /\ tx.accounts = accts(source) /\ tx.args = args
  BY <1>1, InstructionParts
<1>3. MintOf(tx) = mint BY <1>2 DEF MintOf
<1> QED BY <1>2, <1>3

LEMMA CreateAuctionFits ==
  ASSUME NEW user, NEW mint \in Mint, NEW startPrice \in PriceInput,
         NEW minIncrease \in MinIncreaseInput, NEW duration \in DurationInput,
         NEW reserved,
         NEW tx \in createCreateAuctionTx(mint, user, startPrice, minIncrease,
                                          duration, reserved),
         Signer(tx) \in User
  PROVE  TxFits(tx)
<1> DEFINE args == [startPrice |-> startPrice, minIncrease |-> minIncrease,
                    duration |-> duration, reserved |-> IF reserved THEN 1 ELSE 0]
<1>1. tx.ix = "createAuction" /\ MintOf(tx) = mint /\ tx.args = args
  BY AuctionBuilt
<1> QED BY <1>1 DEF TxFits, NftInstructions, Creating, Selling

-----------------------------------------------------------------------------
(***************************************************************************)
(* The commands give the builders what was typed and read.                 *)
(***************************************************************************)
NftCommands ==
    {"transfer", "list", "delist", "set_price", "purchase", "make_offer",
     "cancel_offer", "accept_offer", "create_auction", "place_bid",
     "claim_auction", "update_reserve", "cancel_auction"}

\* A call whose keys and numbers are among those the marketplace is given;
\* numbers that no builder takes need not be.
CommandFits(c) ==
    /\ c.name = "update_fee" => U64Argument(c.solFee) \subseteq FeeInput
    /\ c.name = "add_treasury" =>
          c.treasury \in Wallet /\ U64Argument(c.rate) \subseteq RateInput
    /\ c.name = "remove_treasury" => c.treasury \in Wallet
    /\ c.name \in {"deposit", "withdraw"} => U64Argument(c.sol) \subseteq PriceInput
    /\ c.name \in NftCommands => c.mint \in Mint
    /\ c.name = "transfer" => c.recipient \in User
    /\ c.name = "list" => U64Argument(c.priceSol) \subseteq PriceInput
    /\ c.name \in {"set_price", "update_reserve"} =>
          U64Argument(c.newPrice) \subseteq PriceInput
    /\ c.name \in {"make_offer", "place_bid"} =>
          U64Argument(c.price) \subseteq PriceInput
    /\ c.name = "accept_offer" => c.buyer \in User
    /\ c.name = "create_auction" =>
          /\ c.startPrice \in PriceInput
          /\ c.minIncrease \in MinIncreaseInput
          /\ c.duration \in DurationInput

LinesFit(lines) ==
    \A line \in lines : \A c \in CLI!programCommand(line[1], line[2]) : CommandFits(c)

RunFits(r) ==
    /\ {"cmd", "pool", "lines"} \subseteq DOMAIN r
    /\ CommandFits(r.cmd)
    /\ r.pool \in Seq(Key)
    /\ LinesFit(r.lines)

RunsFit == DOMAIN run = Terminal /\ \A t \in Terminal : RunFits(run[t])
FlyingFits == \A f \in flying : f.from \in Terminal /\ TxFits(f.tx)

TerminalsInv == RunsFit /\ FlyingFits

LEMMA OneRunChanges ==
  ASSUME RunsFit, NEW t \in Terminal, NEW r, RunFits(r),
         run' = [run EXCEPT ![t] = r]
  PROVE  RunsFit'
<1>1. DOMAIN run' = Terminal BY DEF RunsFit
<1>2. ASSUME NEW u \in Terminal PROVE RunFits(run'[u])
  BY DEF RunsFit
<1> QED BY <1>1, <1>2 DEF RunsFit

LEMMA GoKeeps ==
  ASSUME TerminalsInv, NEW t \in Terminal, NEW step, Go(t, step), UNCHANGED flying
  PROVE  TerminalsInv'
<1> DEFINE r == [run[t] EXCEPT !.at = step]
<1>1. RunFits(run[t]) BY DEF TerminalsInv, RunsFit
<1>2. RunFits(r) BY <1>1 DEF RunFits
<1>3. run' = [run EXCEPT ![t] = r] BY DEF Go
<1> HIDE DEF r
<1>4. RunsFit' BY <1>2, <1>3, OneRunChanges DEF TerminalsInv
<1> QED BY <1>4 DEF TerminalsInv, FlyingFits

LEMMA SendAndKeeps ==
  ASSUME TerminalsInv, NEW t \in Terminal, NEW txs, NEW next,
         \A tx \in txs : Signer(tx) \in User => TxFits(tx),
         SendAnd(t, txs, next)
  PROVE  TerminalsInv'
<1> DEFINE r == [run[t] EXCEPT !.at = "confirm", !.then = next,
                               !.landed = FALSE, !.sends = @ + 1]
<1>1. RunFits(run[t]) BY DEF TerminalsInv, RunsFit
<1>2. RunFits(r) BY <1>1 DEF RunFits
<1>3. PICK tx \in txs :
         /\ Signer(tx) = PayerOf[t]
         /\ flying' = flying \cup
               {[from |-> t, id |-> run[t].sends + 1, tx |-> tx]}
         /\ run' = [run EXCEPT ![t].at = "confirm", ![t].then = next,
                               ![t].landed = FALSE, ![t].sends = @ + 1]
  BY DEF SendAnd
<1>4. run' = [run EXCEPT ![t] = r] BY <1>3 DEF TerminalsInv, RunsFit
<1> HIDE DEF r
<1>5. RunsFit' BY <1>2, <1>4, OneRunChanges DEF TerminalsInv
<1>6. TxFits(tx) BY <1>3, TerminalsAssumption
<1>7. FlyingFits' BY <1>3, <1>6 DEF TerminalsInv, FlyingFits
<1> QED BY <1>5, <1>7 DEF TerminalsInv

LEMMA SendKeeps ==
  ASSUME TerminalsInv, NEW t \in Terminal, NEW step, NEW txs,
         \A tx \in txs : Signer(tx) \in User => TxFits(tx),
         Send(t, step, txs)
  PROVE  TerminalsInv'
BY SendAndKeeps DEF Send

LEMMA EnsureKeeps ==
  ASSUME TerminalsInv, NEW t \in Terminal, NEW step, NEW exists, NEW txs, NEW next,
         \A tx \in txs : Signer(tx) \in User => TxFits(tx),
         Ensure(t, step, exists, txs, next)
  PROVE  TerminalsInv'
BY SendAndKeeps, GoKeeps DEF Ensure

LEMMA CheckUserKeeps ==
  ASSUME TerminalsInv, NEW t \in Terminal, NEW next, CheckUser(t, next)
  PROVE  TerminalsInv'
BY GoKeeps DEF CheckUser

LEMMA ReadPoolKeeps ==
  ASSUME TypeOK, TerminalsInv, NEW t \in Terminal, NEW step, NEW next,
         ReadPool(t, step, next)
  PROVE  TerminalsInv'
<1> DEFINE pool == [k \in 1 .. global_authority.team_count |->
                       global_authority.team_treasury[k - 1]]
           r == [run[t] EXCEPT !.pool = pool, !.at = next]
<1>1. RunFits(run[t]) BY DEF TerminalsInv, RunsFit
<1>2. pool \in Seq(Key)
  <2>1. global_authority \in GlobalPool BY DEF TypeOK, TreasuryTypeOK
  <2>2. /\ global_authority.team_count \in 0 .. MaxTeam
        /\ global_authority.team_treasury \in [Slot -> Key]
    BY <2>1 DEF GlobalPool
  <2>3. global_authority.team_count \in Nat
    BY <2>2, IntegersAssumption
  <2>4. ASSUME NEW k \in 1 .. global_authority.team_count
        PROVE  global_authority.team_treasury[k - 1] \in Key
    BY <2>2, <2>4, IntegersAssumption DEF Slot
  <2>5. pool \in [1 .. global_authority.team_count -> Key] BY <2>4
  <2> HIDE DEF pool
  <2> QED BY <2>3, <2>5
<1>3. run' = [run EXCEPT ![t].pool = pool, ![t].at = next] /\ UNCHANGED flying
  BY DEF ReadPool, getGlobalState
<1> HIDE DEF pool
<1>4. RunFits(r) BY <1>1, <1>2 DEF RunFits
<1>5. run' = [run EXCEPT ![t] = r] BY <1>3 DEF TerminalsInv, RunsFit
<1> HIDE DEF r
<1>6. RunsFit' BY <1>4, <1>5, OneRunChanges DEF TerminalsInv
<1> QED BY <1>3, <1>6 DEF TerminalsInv, FlyingFits

\* A sale is sent with the treasuries its caller read.
LEMMA SaleSends ==
  ASSUME TerminalsInv, NEW t \in Terminal, NEW user, NEW mint \in Mint, NEW step
  PROVE  /\ Send(t, step, createPurchaseTx(mint, user, run[t].pool)) => TerminalsInv'
         /\ Send(t, step, createClaimAuctionTx(mint, user, run[t].pool))
               => TerminalsInv'
         /\ \A buyer \in User :
               Send(t, step, createAcceptOfferTx(mint, buyer, run[t].pool))
                  => TerminalsInv'
<1> DEFINE pool == run[t].pool
<1>1. pool \in Seq(Key) BY DEF TerminalsInv, RunsFit, RunFits
<1> HIDE DEF pool
<1>2. ASSUME Send(t, step, createPurchaseTx(mint, user, pool)) PROVE TerminalsInv'
  BY <1>1, <1>2, PurchaseFits, SendKeeps
<1>3. ASSUME Send(t, step, createClaimAuctionTx(mint, user, pool)) PROVE TerminalsInv'
  BY <1>1, <1>3, ClaimFits, SendKeeps
<1>4. ASSUME NEW buyer \in User, Send(t, step, createAcceptOfferTx(mint, buyer, pool))
      PROVE  TerminalsInv'
  BY <1>1, <1>4, AcceptFits, SendKeeps
<1> QED BY <1>2, <1>3, <1>4 DEF pool

\* Every await of every command.
LEMMA AdministrationKeeps ==
  ASSUME TerminalsInv, NEW t \in Terminal, NEW user, NEW c, CommandFits(c)
  PROVE  /\ initProject(t, user) => TerminalsInv'
         /\ initUserPool(t, user) => TerminalsInv'
         /\ c.name = "update_fee" /\ updateFee(t, user, c) => TerminalsInv'
         /\ c.name = "add_treasury" /\ addTreasury(t, user, c) => TerminalsInv'
         /\ c.name = "remove_treasury" /\ removeTreasury(t, user, c) => TerminalsInv'
<1>1. ASSUME initProject(t, user) PROVE TerminalsInv'
  BY <1>1, AdministrationFits, SendKeeps DEF initProject
<1>2. ASSUME initUserPool(t, user) PROVE TerminalsInv'
  <2>1. \A tx \in createInitUserTx(user) : Signer(tx) \in User => TxFits(tx)
    BY CreatingUserFits
  <2> QED BY <1>2, <2>1, SendKeeps DEF initUserPool
<1>3. ASSUME c.name = "update_fee", updateFee(t, user, c) PROVE TerminalsInv'
  <2>1. U64Argument(c.solFee) \subseteq FeeInput BY <1>3 DEF CommandFits
  <2> QED BY <1>3, <2>1, AdministrationFits, SendKeeps DEF updateFee
<1>4. ASSUME c.name = "add_treasury", addTreasury(t, user, c) PROVE TerminalsInv'
  <2>1. c.treasury \in Wallet /\ U64Argument(c.rate) \subseteq RateInput
    BY <1>4 DEF CommandFits
  <2> QED BY <1>4, <2>1, AdministrationFits, SendKeeps DEF addTreasury
<1>5. ASSUME c.name = "remove_treasury", removeTreasury(t, user, c)
      PROVE  TerminalsInv'
  <2>1. c.treasury \in Wallet BY <1>5 DEF CommandFits
  <2> QED BY <1>5, <2>1, AdministrationFits, SendKeeps DEF removeTreasury
<1> QED BY <1>1, <1>2, <1>3, <1>4, <1>5

LEMMA CreationKeeps ==
  ASSUME TerminalsInv, NEW t \in Terminal, NEW user, NEW mint \in Mint,
         NEW step, NEW next
  PROVE  /\ initSellData(t, user, mint, step, next) => TerminalsInv'
         /\ initAuctionData(t, user, mint, step, next) => TerminalsInv'
         /\ initOfferData(t, user, mint, step, next) => TerminalsInv'
<1>1. ASSUME initSellData(t, user, mint, step, next) PROVE TerminalsInv'
  BY <1>1, CreatingFits, EnsureKeeps DEF initSellData
<1>2. ASSUME initAuctionData(t, user, mint, step, next) PROVE TerminalsInv'
  BY <1>2, CreatingFits, EnsureKeeps DEF initAuctionData
<1>3. ASSUME initOfferData(t, user, mint, step, next) PROVE TerminalsInv'
  BY <1>3, CreatingFits, EnsureKeeps DEF initOfferData
<1> QED BY <1>1, <1>2, <1>3

LEMMA EscrowKeeps ==
  ASSUME TerminalsInv, NEW t \in Terminal, NEW user, NEW c, CommandFits(c),
         \/ c.name = "deposit" /\ depositEscrow(t, user, c)
         \/ c.name = "withdraw" /\ withdrawEscrow(t, user, c)
  PROVE  TerminalsInv'
<1>1. U64Argument(c.sol) \subseteq PriceInput BY DEF CommandFits
<1>2. CASE depositEscrow(t, user, c)
  BY <1>1, <1>2, EscrowFits, CheckUserKeeps, SendKeeps DEF depositEscrow
<1>3. CASE withdrawEscrow(t, user, c)
  BY <1>1, <1>3, EscrowFits, CheckUserKeeps, SendKeeps DEF withdrawEscrow
<1> QED BY <1>2, <1>3

LEMMA ListingKeeps ==
  ASSUME TypeOK, TerminalsInv, NEW t \in Terminal, NEW user, NEW c, CommandFits(c)
  PROVE  /\ c.name = "transfer" /\ transfer(t, user, c) => TerminalsInv'
         /\ c.name = "list" /\ listNftForSale(t, user, c) => TerminalsInv'
         /\ c.name = "delist" /\ delistNft(t, user, c) => TerminalsInv'
         /\ c.name = "set_price" /\ setPrice(t, user, c) => TerminalsInv'
         /\ c.name = "purchase" /\ purchase(t, user, c) => TerminalsInv'
<1>1. ASSUME c.name = "transfer", transfer(t, user, c) PROVE TerminalsInv'
  <2>1. c.mint \in Mint /\ c.recipient \in User
    BY <1>1 DEF CommandFits, NftCommands
  <2>2. CASE \E step : Go(t, step) /\ UNCHANGED flying BY <2>2, GoKeeps
  <2>3. CASE Send(t, "vault", createTransferFromVaultTx(c.mint, user, c.recipient))
    BY <2>1, <2>3, TransferFits, SendKeeps
  <2>4. CASE Send(t, "wallet", createTransferTx(c.mint, user, c.recipient))
    BY <2>1, <2>4, TransferFits, SendKeeps
  <2> QED BY <1>1, <2>2, <2>3, <2>4 DEF transfer
<1>2. ASSUME c.name = "list", listNftForSale(t, user, c) PROVE TerminalsInv'
  <2>1. c.mint \in Mint /\ U64Argument(c.priceSol) \subseteq PriceInput
    BY <1>2 DEF CommandFits, NftCommands
  <2>2. CASE Send(t, "send", createListForSellNftTx(c.mint, user, c.priceSol))
    BY <2>1, <2>2, PricedNftFits, SendKeeps
  <2> QED BY <1>2, <2>1, <2>2, CheckUserKeeps, CreationKeeps DEF listNftForSale
<1>3. ASSUME c.name = "delist", delistNft(t, user, c) PROVE TerminalsInv'
  <2>1. c.mint \in Mint BY <1>3 DEF CommandFits, NftCommands
  <2>2. CASE Send(t, "send", createDelistNftTx(c.mint, user))
    BY <2>1, <2>2, PlainNftFits, SendKeeps
  <2> QED BY <1>3, <2>2, CheckUserKeeps DEF delistNft
<1>4. ASSUME c.name = "set_price", setPrice(t, user, c) PROVE TerminalsInv'
  <2>1. c.mint \in Mint /\ U64Argument(c.newPrice) \subseteq PriceInput
    BY <1>4 DEF CommandFits, NftCommands
  <2>2. CASE Send(t, "send", createSetPriceTx(c.mint, user, c.newPrice))
    BY <2>1, <2>2, PricedNftFits, SendKeeps
  <2> QED BY <1>4, <2>2, CheckUserKeeps DEF setPrice
<1>5. ASSUME c.name = "purchase", purchase(t, user, c) PROVE TerminalsInv'
  <2>1. c.mint \in Mint BY <1>5 DEF CommandFits, NftCommands
  <2>2. CASE Send(t, "send", createPurchaseTx(c.mint, user, run[t].pool))
    BY <2>1, <2>2, SaleSends
  <2> QED BY <1>5, <2>2, CheckUserKeeps, ReadPoolKeeps DEF purchase
<1> QED BY <1>1, <1>2, <1>3, <1>4, <1>5

LEMMA OfferingKeeps ==
  ASSUME TypeOK, TerminalsInv, NEW t \in Terminal, NEW user, NEW c, CommandFits(c)
  PROVE  /\ c.name = "make_offer" /\ makeOffer(t, user, c) => TerminalsInv'
         /\ c.name = "cancel_offer" /\ cancelOffer(t, user, c) => TerminalsInv'
         /\ c.name = "accept_offer" /\ acceptOffer(t, user, c) => TerminalsInv'
<1>1. ASSUME c.name = "make_offer", makeOffer(t, user, c) PROVE TerminalsInv'
  <2>1. c.mint \in Mint /\ U64Argument(c.price) \subseteq PriceInput
    BY <1>1 DEF CommandFits, NftCommands
  <2>2. CASE Send(t, "send", createMakeOfferTx(c.mint, user, c.price))
    BY <2>1, <2>2, PricedNftFits, SendKeeps
  <2> QED BY <1>1, <2>1, <2>2, CheckUserKeeps, CreationKeeps DEF makeOffer
<1>2. ASSUME c.name = "cancel_offer", cancelOffer(t, user, c) PROVE TerminalsInv'
  <2>1. c.mint \in Mint BY <1>2 DEF CommandFits, NftCommands
  <2>2. CASE Send(t, "send", createCancelOfferTx(c.mint, user))
    BY <2>1, <2>2, PlainNftFits, SendKeeps
  <2> QED BY <1>2, <2>2, CheckUserKeeps DEF cancelOffer
<1>3. ASSUME c.name = "accept_offer", acceptOffer(t, user, c) PROVE TerminalsInv'
  <2>1. c.mint \in Mint /\ c.buyer \in User
    BY <1>3 DEF CommandFits, NftCommands
  <2>2. CASE Send(t, "send", createAcceptOfferTx(c.mint, c.buyer, run[t].pool))
    BY <2>1, <2>2, SaleSends
  <2> QED BY <1>3, <2>2, CheckUserKeeps, ReadPoolKeeps DEF acceptOffer
<1> QED BY <1>1, <1>2, <1>3

LEMMA AuctioningKeeps ==
  ASSUME TypeOK, TerminalsInv, NEW t \in Terminal, NEW user, NEW c, CommandFits(c)
  PROVE  /\ c.name = "create_auction" /\ createAuction(t, user, c) => TerminalsInv'
         /\ c.name = "place_bid" /\ placeBid(t, user, c) => TerminalsInv'
         /\ c.name = "claim_auction" /\ claimAuction(t, user, c) => TerminalsInv'
         /\ c.name = "update_reserve" /\ updateReserve(t, user, c) => TerminalsInv'
         /\ c.name = "cancel_auction" /\ cancelAuction(t, user, c) => TerminalsInv'
<1>1. ASSUME c.name = "create_auction", createAuction(t, user, c)
      PROVE  TerminalsInv'
  <2>1. /\ c.mint \in Mint /\ c.startPrice \in PriceInput
        /\ c.minIncrease \in MinIncreaseInput /\ c.duration \in DurationInput
    BY <1>1 DEF CommandFits, NftCommands
  <2>2. CASE Send(t, "send",
                  createCreateAuctionTx(c.mint, user, c.startPrice, c.minIncrease,
                                        c.duration, c.reserved))
    BY <2>1, <2>2, CreateAuctionFits, SendKeeps
  <2> QED BY <1>1, <2>1, <2>2, CheckUserKeeps, CreationKeeps DEF createAuction
<1>2. ASSUME c.name = "place_bid", placeBid(t, user, c) PROVE TerminalsInv'
  <2>1. c.mint \in Mint /\ U64Argument(c.price) \subseteq PriceInput
    BY <1>2 DEF CommandFits, NftCommands
  <2>2. CASE Send(t, "send", createPlaceBidTx(c.mint, user, c.price))
    BY <2>1, <2>2, PlaceBidFits, SendKeeps
  <2> QED BY <1>2, <2>2, CheckUserKeeps DEF placeBid
<1>3. ASSUME c.name = "claim_auction", claimAuction(t, user, c) PROVE TerminalsInv'
  <2>1. c.mint \in Mint BY <1>3 DEF CommandFits, NftCommands
  <2>2. CASE Send(t, "send", createClaimAuctionTx(c.mint, user, run[t].pool))
    BY <2>1, <2>2, SaleSends
  <2> QED BY <1>3, <2>2, CheckUserKeeps, ReadPoolKeeps DEF claimAuction
<1>4. ASSUME c.name = "update_reserve", updateReserve(t, user, c)
      PROVE  TerminalsInv'
  <2>1. c.mint \in Mint /\ U64Argument(c.newPrice) \subseteq PriceInput
    BY <1>4 DEF CommandFits, NftCommands
  <2>2. CASE Send(t, "send", createUpdateReserveTx(c.mint, user, c.newPrice))
    BY <2>1, <2>2, PricedNftFits, SendKeeps
  <2> QED BY <1>4, <2>2, CheckUserKeeps DEF updateReserve
<1>5. ASSUME c.name = "cancel_auction", cancelAuction(t, user, c)
      PROVE  TerminalsInv'
  <2>1. c.mint \in Mint BY <1>5 DEF CommandFits, NftCommands
  <2>2. CASE Send(t, "send", createCancelAuctionTx(c.mint, user))
    BY <2>1, <2>2, PlainNftFits, SendKeeps
  <2> QED BY <1>5, <2>2, CheckUserKeeps DEF cancelAuction
<1> QED BY <1>1, <1>2, <1>3, <1>4, <1>5

LEMMA StepKeeps ==
  ASSUME TypeOK, TerminalsInv, NEW t \in Terminal, Step(t)
  PROVE  TerminalsInv' /\ UNCHANGED vars
<1> DEFINE user == PayerOf[t]
           c == run[t].cmd
<1>1. CommandFits(c) BY DEF TerminalsInv, RunsFit, RunFits
<1>2. UNCHANGED vars BY DEF Step, chain
<1>3. CASE Throw(t) \/ query(t)
  BY <1>2, <1>3, GoKeeps DEF Throw, query, Return
<1> HIDE DEF user, c
<1>4. CASE \/ initProject(t, user)
           \/ initUserPool(t, user)
           \/ c.name = "update_fee" /\ updateFee(t, user, c)
           \/ c.name = "add_treasury" /\ addTreasury(t, user, c)
           \/ c.name = "remove_treasury" /\ removeTreasury(t, user, c)
  BY <1>1, <1>2, <1>4, AdministrationKeeps
<1>5. CASE \/ c.name = "deposit" /\ depositEscrow(t, user, c)
           \/ c.name = "withdraw" /\ withdrawEscrow(t, user, c)
  BY <1>1, <1>2, <1>5, EscrowKeeps
<1>6. CASE \/ c.name = "transfer" /\ transfer(t, user, c)
           \/ c.name = "list" /\ listNftForSale(t, user, c)
           \/ c.name = "delist" /\ delistNft(t, user, c)
           \/ c.name = "set_price" /\ setPrice(t, user, c)
           \/ c.name = "purchase" /\ purchase(t, user, c)
  BY <1>1, <1>2, <1>6, ListingKeeps
<1>7. CASE \/ c.name = "make_offer" /\ makeOffer(t, user, c)
           \/ c.name = "cancel_offer" /\ cancelOffer(t, user, c)
           \/ c.name = "accept_offer" /\ acceptOffer(t, user, c)
  BY <1>1, <1>2, <1>7, OfferingKeeps
<1>8. CASE \/ c.name = "create_auction" /\ createAuction(t, user, c)
           \/ c.name = "place_bid" /\ placeBid(t, user, c)
           \/ c.name = "claim_auction" /\ claimAuction(t, user, c)
           \/ c.name = "update_reserve" /\ updateReserve(t, user, c)
           \/ c.name = "cancel_auction" /\ cancelAuction(t, user, c)
  BY <1>1, <1>2, <1>8, AuctioningKeeps
<1> QED BY <1>2, <1>3, <1>4, <1>5, <1>6, <1>7, <1>8 DEF Step, user, c

LEMMA StartKeeps ==
  ASSUME TerminalsInv, NEW t \in Terminal, Start(t)
  PROVE  TerminalsInv' /\ UNCHANGED vars
<1>1. RunFits(run[t]) BY DEF TerminalsInv, RunsFit
<1>2. PICK line \in run[t].lines : \E c \in CLI!programCommand(line[1], line[2]) :
         run' = [run EXCEPT ![t].at = "start", ![t].cmd = c, ![t].started = @ + 1]
  BY DEF Start
<1>3. PICK c \in CLI!programCommand(line[1], line[2]) :
         run' = [run EXCEPT ![t].at = "start", ![t].cmd = c, ![t].started = @ + 1]
  BY <1>2
<1>4. CommandFits(c) BY <1>1, <1>3 DEF RunFits, LinesFit
<1> DEFINE r == [run[t] EXCEPT !.at = "start", !.cmd = c, !.started = @ + 1]
<1>5. RunFits(r) BY <1>1, <1>4 DEF RunFits
<1>6. run' = [run EXCEPT ![t] = r] BY <1>3 DEF TerminalsInv, RunsFit
<1> HIDE DEF r
<1>7. RunsFit' BY <1>5, <1>6, OneRunChanges DEF TerminalsInv
<1> QED BY <1>7 DEF Start, chain, TerminalsInv, FlyingFits

LEMMA LandKeeps ==
  ASSUME TypeOK, TerminalsInv, Land
  PROVE  TerminalsInv' /\ (Next \/ UNCHANGED vars)
<1>1. PICK f \in flying :
         /\ flying' = flying \ {f}
         /\ run' = [run EXCEPT ![f.from].landed =
                       @ \/ (run[f.from].at = "confirm" /\ run[f.from].sends = f.id)]
         /\ Execute(f.tx) \/ UNCHANGED chain
  BY DEF Land
<1>2. f.from \in Terminal /\ TxFits(f.tx) BY DEF TerminalsInv, FlyingFits
<1>3. Next \/ UNCHANGED vars
  BY <1>1, <1>2, ExecuteRuns DEF chain
<1> DEFINE t == f.from
           r == [run[t] EXCEPT !.landed =
                    @ \/ (run[f.from].at = "confirm" /\ run[f.from].sends = f.id)]
<1>4. RunFits(run[t]) BY <1>2 DEF TerminalsInv, RunsFit
<1>5. RunFits(r) BY <1>4 DEF RunFits
<1>6. run' = [run EXCEPT ![t] = r] BY <1>1, <1>2 DEF TerminalsInv, RunsFit
<1> HIDE DEF r
<1>7. RunsFit' BY <1>2, <1>5, <1>6, OneRunChanges DEF TerminalsInv
<1> QED BY <1>1, <1>3, <1>7 DEF TerminalsInv, FlyingFits

\* What the terminals do to the ledger is an instruction, or nothing.
LEMMA TerminalsStep ==
  ASSUME TypeOK, TerminalsInv, [TerminalsNext]_systemVars
  PROVE  TerminalsInv' /\ [Next]_vars
<1>1. CASE UNCHANGED systemVars
  BY <1>1 DEF systemVars, TerminalsInv, RunsFit, FlyingFits
<1>2. ASSUME NEW t \in Terminal, Confirm(t) PROVE TerminalsInv' /\ UNCHANGED vars
  BY <1>2, GoKeeps DEF Confirm, chain
<1>3. ASSUME NEW t \in Terminal, TimeOut(t) PROVE TerminalsInv' /\ UNCHANGED vars
  BY <1>3, GoKeeps DEF TimeOut, Return, chain
<1>4. CASE Expire
  BY <1>4 DEF Expire, chain, TerminalsInv, RunsFit, FlyingFits
<1>5. CASE Tick /\ UNCHANGED <<tokens, commandVars>>
  BY <1>5 DEF commandVars, TerminalsInv, RunsFit, FlyingFits, Next
<1> QED
  BY <1>1, <1>2, <1>3, <1>4, <1>5, StartKeeps, StepKeeps, LandKeeps
     DEF TerminalsNext

LEMMA TerminalsStart ==
  ASSUME NEW people, \A t \in Terminal : LinesFit(people[t].lines),
         TerminalsInit(people)
  PROVE  TerminalsInv
<1>1. ASSUME NEW t \in Terminal PROVE RunFits(Idle(people[t]))
  <2>1. CommandFits(NoInvocation) BY DEF CommandFits, NoInvocation, NftCommands
  <2>2. <<>> \in Seq(Key) OBVIOUS
  <2> QED BY <2>1, <2>2 DEF RunFits, Idle
<1>2. run = [t \in Terminal |-> Idle(people[t])] /\ flying = {}
  BY DEF TerminalsInit
<1> QED BY <1>1, <1>2 DEF TerminalsInv, RunsFit, FlyingFits

\* However many command lines are in use, whatever each of them read and
\* however late its transactions land, the ledger only ever takes the steps of
\* Marketplace: treasuries or bidders that changed in between make it refuse a
\* transaction and never pay the wrong wallet.
THEOREM CommandsImplementMarket ==
  ASSUME NEW people, \A t \in Terminal : LinesFit(people[t].lines)
  PROVE  MarketInv /\ TerminalsInit(people) /\ [][TerminalsNext]_systemVars
            => MarketImplemented
<1> DEFINE Inv == MarketInv /\ TerminalsInv
<1>1. MarketInv /\ TerminalsInit(people) => Inv BY TerminalsStart
<1>2. Inv /\ [TerminalsNext]_systemVars => Inv' /\ [vars' = vars \/ Next]_vars
  <2>1. MarketInv => TypeOK BY DEF MarketInv
  <2> QED BY <2>1, TerminalsStep, MarketStep
<1> QED BY <1>1, <1>2, PTL DEF MarketImplemented

\* So that what holds of every behaviour of Marketplace holds of the whole
\* system, from an empty ledger on.
THEOREM SystemImplementsMarketplace ==
  ASSUME NEW people, \A t \in Terminal : LinesFit(people[t].lines)
  PROVE  Init /\ TerminalsInit(people) /\ [][TerminalsNext]_systemVars => Spec
<1>1. Init => MarketInv BY MarketInit
<1>2. MarketInv /\ TerminalsInit(people) /\ [][TerminalsNext]_systemVars
         => [][vars' = vars \/ Next]_vars
  BY CommandsImplementMarket DEF MarketImplemented
<1>3. [vars' = vars \/ Next]_vars => [Next]_vars OBVIOUS
<1> QED BY <1>1, <1>2, <1>3, PTL DEF Spec

-----------------------------------------------------------------------------
(***************************************************************************)
(* What a command pays in, once.                                           *)
(***************************************************************************)
\* The instructions that add to a balance, and the commands that send them.
PayingIn == {"depositToEscrow", "makeOffer"}
PayingCommands == {"deposit", "make_offer"}

LEMMA OthersPayNothingIn ==
  ASSUME NEW tx, NEW user, NEW mint, NEW x, NEW y, NEW z, NEW reserved,
         NEW treasuries
  PROVE  /\ tx \in createInitializeTx(user) => tx.ix \notin PayingIn
         /\ tx \in createUpdateFeeTx(user, x) => tx.ix \notin PayingIn
         /\ tx \in createAddTreasuryTx(user, x, y) => tx.ix \notin PayingIn
         /\ tx \in createRemoveTreasuryTx(user, x) => tx.ix \notin PayingIn
         /\ tx \in createInitUserTx(user) => tx.ix \notin PayingIn
         /\ tx \in createInitSellDataTx(mint, user) => tx.ix \notin PayingIn
         /\ tx \in createInitAuctionDataTx(mint, user) => tx.ix \notin PayingIn
         /\ tx \in createInitOfferDataTx(mint, user) => tx.ix \notin PayingIn
         /\ tx \in createWithdrawTx(user, x) => tx.ix \notin PayingIn
         /\ tx \in createTransferTx(mint, user, x) => tx.ix \notin PayingIn
         /\ tx \in createTransferFromVaultTx(mint, user, x) => tx.ix \notin PayingIn
         /\ tx \in createListForSellNftTx(mint, user, x) => tx.ix \notin PayingIn
         /\ tx \in createDelistNftTx(mint, user) => tx.ix \notin PayingIn
         /\ tx \in createSetPriceTx(mint, user, x) => tx.ix \notin PayingIn
         /\ tx \in createPurchaseTx(mint, user, treasuries) => tx.ix \notin PayingIn
         /\ tx \in createAcceptOfferTx(mint, x, treasuries) => tx.ix \notin PayingIn
         /\ tx \in createClaimAuctionTx(mint, user, treasuries) => tx.ix \notin PayingIn
         /\ tx \in createCancelOfferTx(mint, user) => tx.ix \notin PayingIn
         /\ tx \in createPlaceBidTx(mint, user, x) => tx.ix \notin PayingIn
         /\ tx \in createUpdateReserveTx(mint, user, x) => tx.ix \notin PayingIn
         /\ tx \in createCancelAuctionTx(mint, user) => tx.ix \notin PayingIn
         /\ tx \in createCreateAuctionTx(mint, user, x, y, z, reserved) =>
               tx.ix \notin PayingIn
<1>1. ASSUME tx \in createInitializeTx(user) PROVE tx.ix \notin PayingIn
  BY <1>1 DEF createInitializeTx, Plain, InstructionTo, PayingIn
<1>2. ASSUME tx \in createUpdateFeeTx(user, x) PROVE tx.ix \notin PayingIn
  BY <1>2 DEF createUpdateFeeTx, Plain, InstructionTo, PayingIn
<1>3. ASSUME tx \in createAddTreasuryTx(user, x, y) PROVE tx.ix \notin PayingIn
  BY <1>3 DEF createAddTreasuryTx, Plain, InstructionTo, PayingIn
<1>4. ASSUME tx \in createRemoveTreasuryTx(user, x) PROVE tx.ix \notin PayingIn
  BY <1>4 DEF createRemoveTreasuryTx, Plain, InstructionTo, PayingIn
<1>5. ASSUME \/ tx \in createInitUserTx(user)
             \/ tx \in createInitSellDataTx(mint, user)
             \/ tx \in createInitAuctionDataTx(mint, user)
             \/ tx \in createInitOfferDataTx(mint, user)
      PROVE  tx.ix \notin PayingIn
  BY <1>5 DEF createInitUserTx, createInitSellDataTx, createInitAuctionDataTx,
              createInitOfferDataTx, Plain, InstructionTo, PayingIn
<1>6. ASSUME tx \in createWithdrawTx(user, x) PROVE tx.ix \notin PayingIn
  BY <1>6 DEF createWithdrawTx, Plain, InstructionTo, PayingIn
<1>7. ASSUME tx \in createTransferTx(mint, user, x) PROVE tx.ix \notin PayingIn
  BY <1>7, TransferBuilt DEF PayingIn
<1>8. ASSUME \/ tx \in createTransferFromVaultTx(mint, user, x)
             \/ tx \in createDelistNftTx(mint, user)
             \/ tx \in createCancelOfferTx(mint, user)
             \/ tx \in createCancelAuctionTx(mint, user)
      PROVE  tx.ix \notin PayingIn
  BY <1>8 DEF createTransferFromVaultTx, createDelistNftTx, createCancelOfferTx,
              createCancelAuctionTx, Plain, InstructionTo, PayingIn
<1>9. ASSUME \/ tx \in createSetPriceTx(mint, user, x)
             \/ tx \in createUpdateReserveTx(mint, user, x)
      PROVE  tx.ix \notin PayingIn
  BY <1>9 DEF createSetPriceTx, createUpdateReserveTx, Plain, InstructionTo, PayingIn
<1>10. ASSUME tx \in createPurchaseTx(mint, user, treasuries)
       PROVE  tx.ix \notin PayingIn
  BY <1>10 DEF createPurchaseTx, InstructionTo, PayingIn
<1>11. ASSUME tx \in createAcceptOfferTx(mint, x, treasuries)
       PROVE  tx.ix \notin PayingIn
  BY <1>11 DEF createAcceptOfferTx, InstructionTo, PayingIn
<1>12. ASSUME tx \in createClaimAuctionTx(mint, user, treasuries)
       PROVE  tx.ix \notin PayingIn
  BY <1>12 DEF createClaimAuctionTx, InstructionTo, PayingIn
<1>13. ASSUME tx \in createPlaceBidTx(mint, user, x) PROVE tx.ix \notin PayingIn
  BY <1>13 DEF createPlaceBidTx, Plain, InstructionTo, PayingIn
<1>14. ASSUME \/ tx \in createListForSellNftTx(mint, user, x)
              \/ tx \in createCreateAuctionTx(mint, user, x, y, z, reserved)
       PROVE  tx.ix \notin PayingIn
  BY <1>14, ListBuilt, AuctionBuilt DEF PayingIn
<1> QED BY <1>1, <1>2, <1>3, <1>4, <1>5, <1>6, <1>7, <1>8, <1>9, <1>10, <1>11,
           <1>12, <1>13, <1>14

\* A command that has sent its last transaction, or ended.
Over(r) == r.at = "idle" \/ (r.at = "confirm" /\ r.then = "idle")

\* Every run has these fields.
RunNamed(r) ==
    {"at", "then", "cmd", "started", "sends", "landed"} \subseteq DOMAIN r

\* The run of t goes on as r, with the same command.
GoesOn(t, r) ==
    /\ ~Over(run[t])
    /\ run' = [run EXCEPT ![t] = r]
    /\ RunNamed(r)
    /\ r.cmd = run[t].cmd /\ r.started = run[t].started

\* An await either sends nothing, or one transaction, which has the next
\* number; one that pays in is the last of its command.
Reads(t) ==
    UNCHANGED flying /\ \E r : GoesOn(t, r) /\ r.sends = run[t].sends

Sends(t) ==
    \E r, id, tx :
        /\ GoesOn(t, r)
        /\ id = run[t].sends + 1 /\ r.sends = id
        /\ flying' = flying \cup {[from |-> t, id |-> id, tx |-> tx]}
        /\ Signer(tx) = PayerOf[t]
        /\ tx.ix \in PayingIn => run[t].cmd.name \in PayingCommands /\ Over(r)

Awaits(t) == Reads(t) \/ Sends(t)

LEMMA GoAwaits ==
  ASSUME NEW t \in DOMAIN run, RunNamed(run[t]), ~Over(run[t]),
         NEW step, Go(t, step), UNCHANGED flying
  PROVE  Awaits(t)
<1> DEFINE r == [run[t] EXCEPT !.at = step]
<1>1. /\ RunNamed(r) /\ r.cmd = run[t].cmd /\ r.started = run[t].started
      /\ r.sends = run[t].sends
  BY DEF RunNamed
<1>2. run' = [run EXCEPT ![t] = r] BY DEF Go
<1> HIDE DEF r
<1>3. GoesOn(t, r) BY <1>1, <1>2 DEF GoesOn
<1> QED BY <1>1, <1>3 DEF Awaits, Reads

LEMMA SendAndAwaits ==
  ASSUME NEW t \in DOMAIN run, RunNamed(run[t]), ~Over(run[t]),
         NEW txs, NEW next, SendAnd(t, txs, next),
         \/ \A tx \in txs : tx.ix \notin PayingIn
         \/ run[t].cmd.name \in PayingCommands /\ next = "idle"
  PROVE  Awaits(t)
<1>1. PICK tx \in txs :
         /\ Signer(tx) = PayerOf[t]
         /\ flying' = flying \cup
               {[from |-> t, id |-> run[t].sends + 1, tx |-> tx]}
         /\ run' = [run EXCEPT ![t].at = "confirm", ![t].then = next,
                               ![t].landed = FALSE, ![t].sends = @ + 1]
  BY DEF SendAnd
<1> DEFINE r == [run[t] EXCEPT !.at = "confirm", !.then = next,
                               !.landed = FALSE, !.sends = @ + 1]
<1>2. /\ RunNamed(r) /\ r.cmd = run[t].cmd /\ r.started = run[t].started
      /\ r.at = "confirm" /\ r.then = next /\ r.sends = run[t].sends + 1
  BY DEF RunNamed
<1>3. run' = [run EXCEPT ![t] = r] BY <1>1
<1> HIDE DEF r
<1>4. GoesOn(t, r) BY <1>2, <1>3 DEF GoesOn
<1>5. tx.ix \in PayingIn => run[t].cmd.name \in PayingCommands /\ Over(r)
  BY <1>2 DEF Over
<1> QED BY <1>1, <1>2, <1>4, <1>5 DEF Awaits, Sends

LEMMA ReadPoolAwaits ==
  ASSUME NEW t \in DOMAIN run, RunNamed(run[t]), ~Over(run[t]),
         NEW step, NEW next, ReadPool(t, step, next)
  PROVE  Awaits(t)
<1>1. PICK global \in getGlobalState :
         run' = [run EXCEPT ![t].pool = [k \in 1 .. global.team_count |->
                                             global.team_treasury[k - 1]],
                            ![t].at = next]
  BY DEF ReadPool
<1> DEFINE pool == [k \in 1 .. global.team_count |-> global.team_treasury[k - 1]]
           r == [run[t] EXCEPT !.pool = pool, !.at = next]
<1> HIDE DEF pool
<1>2. /\ RunNamed(r) /\ r.cmd = run[t].cmd /\ r.started = run[t].started
      /\ r.sends = run[t].sends
  BY DEF RunNamed
<1>3. run' = [run EXCEPT ![t] = r] BY <1>1 DEF pool
<1> HIDE DEF r
<1>4. GoesOn(t, r) BY <1>2, <1>3 DEF GoesOn
<1> QED BY <1>2, <1>4 DEF Awaits, Reads, ReadPool

\* Steps of which nothing is over yet.
Underway == {"start", "sell", "auction", "offer", "pool", "vault", "wallet", "send"}

LEMMA UnderwayAwaits ==
  ASSUME NEW t \in DOMAIN run, RunNamed(run[t]), NEW step \in Underway
  PROVE  /\ At(t, step) => ~Over(run[t])
         /\ \A next : CheckUser(t, next) => Awaits(t)
         /\ \A next : ReadPool(t, step, next) => Awaits(t)
         /\ \A txs : (\A tx \in txs : tx.ix \notin PayingIn) =>
               /\ Send(t, step, txs) => Awaits(t)
               /\ \A exists, next : Ensure(t, step, exists, txs, next) => Awaits(t)
         /\ \A txs : run[t].cmd.name \in PayingCommands =>
               (Send(t, step, txs) => Awaits(t))
<1>1. \A s \in Underway : At(t, s) => ~Over(run[t])
  BY DEF Underway, At, Over
<1>2. ASSUME NEW next, CheckUser(t, next) PROVE Awaits(t)
  <2>1. ~Over(run[t]) BY <1>1, <1>2 DEF CheckUser, Underway
  <2> QED BY <1>2, <2>1, GoAwaits DEF CheckUser
<1>3. ASSUME NEW next, ReadPool(t, step, next) PROVE Awaits(t)
  <2>1. ~Over(run[t]) BY <1>1, <1>3 DEF ReadPool
  <2> QED BY <1>3, <2>1, ReadPoolAwaits
<1>4. ASSUME NEW txs, Send(t, step, txs),
             \/ \A tx \in txs : tx.ix \notin PayingIn
             \/ run[t].cmd.name \in PayingCommands
      PROVE  Awaits(t)
  <2>1. ~Over(run[t]) BY <1>1, <1>4 DEF Send
  <2> QED BY <1>4, <2>1, SendAndAwaits DEF Send
<1>5. ASSUME NEW txs, \A tx \in txs : tx.ix \notin PayingIn,
             NEW exists, NEW next, Ensure(t, step, exists, txs, next)
      PROVE  Awaits(t)
  <2>1. ~Over(run[t]) BY <1>1, <1>5 DEF Ensure
  <2> QED BY <1>5, <2>1, SendAndAwaits, GoAwaits DEF Ensure
<1> QED BY <1>1, <1>2, <1>3, <1>4, <1>5

LEMMA CreationAwaits ==
  ASSUME NEW t \in DOMAIN run, RunNamed(run[t]), NEW user, NEW mint,
         NEW step \in Underway, NEW next
  PROVE  /\ initSellData(t, user, mint, step, next) => Awaits(t)
         /\ initAuctionData(t, user, mint, step, next) => Awaits(t)
         /\ initOfferData(t, user, mint, step, next) => Awaits(t)
<1>1. ASSUME initSellData(t, user, mint, step, next) PROVE Awaits(t)
  <2>1. \A tx \in createInitSellDataTx(mint, user) : tx.ix \notin PayingIn
    BY OthersPayNothingIn
  <2> QED BY <1>1, <2>1, UnderwayAwaits DEF initSellData
<1>2. ASSUME initAuctionData(t, user, mint, step, next) PROVE Awaits(t)
  <2>1. \A tx \in createInitAuctionDataTx(mint, user) : tx.ix \notin PayingIn
    BY OthersPayNothingIn
  <2> QED BY <1>2, <2>1, UnderwayAwaits DEF initAuctionData
<1>3. ASSUME initOfferData(t, user, mint, step, next) PROVE Awaits(t)
  <2>1. \A tx \in createInitOfferDataTx(mint, user) : tx.ix \notin PayingIn
    BY OthersPayNothingIn
  <2> QED BY <1>3, <2>1, UnderwayAwaits DEF initOfferData
<1> QED BY <1>1, <1>2, <1>3

LEMMA SendAwaits ==
  ASSUME NEW t \in DOMAIN run, RunNamed(run[t]), NEW step \in Underway,
         NEW txs, \A tx \in txs : tx.ix \notin PayingIn, Send(t, step, txs)
  PROVE  Awaits(t)
BY UnderwayAwaits

LEMMA StepAwaits ==
  ASSUME NEW t \in DOMAIN run, RunNamed(run[t]), Step(t)
  PROVE  Awaits(t)
<1> DEFINE user == PayerOf[t]
           c == run[t].cmd
<1>1. CASE Throw(t)
  <2>1. ~Over(run[t]) BY <1>1 DEF Throw, At, Over
  <2> QED BY <1>1, <2>1, GoAwaits DEF Throw, Return
<1>2. CASE query(t)
  <2>1. ~Over(run[t]) BY <1>2 DEF query, At, Over
  <2> QED BY <1>2, <2>1, GoAwaits DEF query, Return
<1> HIDE DEF user, c
<1>3. /\ "start" \in Underway /\ "sell" \in Underway /\ "auction" \in Underway
      /\ "offer" \in Underway /\ "pool" \in Underway /\ "vault" \in Underway
      /\ "wallet" \in Underway /\ "send" \in Underway
  BY DEF Underway
<1>4. \A next : CheckUser(t, next) => Awaits(t) BY <1>3, UnderwayAwaits
<1>5. \A next : ReadPool(t, "pool", next) => Awaits(t) BY <1>3, UnderwayAwaits
<1>6. CASE initProject(t, user)
  <2>1. \A tx \in createInitializeTx(user) : tx.ix \notin PayingIn
    BY OthersPayNothingIn
  <2>2. CASE Send(t, "start", createInitializeTx(user))
    BY <1>3, <2>1, <2>2, SendAwaits
  <2> QED BY <1>3, <1>4, <1>5, <1>6, <2>2 DEF initProject
<1>7. CASE initUserPool(t, user)
  <2>1. \A tx \in createInitUserTx(user) : tx.ix \notin PayingIn
    BY OthersPayNothingIn
  <2>2. CASE Send(t, "start", createInitUserTx(user))
    BY <1>3, <2>1, <2>2, SendAwaits
  <2> QED BY <1>3, <1>4, <1>5, <1>7, <2>2 DEF initUserPool
<1>8. CASE updateFee(t, user, c)
  <2>1. \A tx \in createUpdateFeeTx(user, c.solFee) : tx.ix \notin PayingIn
    BY OthersPayNothingIn
  <2>2. CASE Send(t, "start", createUpdateFeeTx(user, c.solFee))
    BY <1>3, <2>1, <2>2, SendAwaits
  <2> QED BY <1>3, <1>4, <1>5, <1>8, <2>2 DEF updateFee
<1>9. CASE addTreasury(t, user, c)
  <2>1. \A tx \in createAddTreasuryTx(user, c.treasury, c.rate) : tx.ix \notin PayingIn
    BY OthersPayNothingIn
  <2>2. CASE Send(t, "start", createAddTreasuryTx(user, c.treasury, c.rate))
    BY <1>3, <2>1, <2>2, SendAwaits
  <2> QED BY <1>3, <1>4, <1>5, <1>9, <2>2 DEF addTreasury
<1>10. CASE removeTreasury(t, user, c)
  <2>1. \A tx \in createRemoveTreasuryTx(user, c.treasury) : tx.ix \notin PayingIn
    BY OthersPayNothingIn
  <2>2. CASE Send(t, "start", createRemoveTreasuryTx(user, c.treasury))
    BY <1>3, <2>1, <2>2, SendAwaits
  <2> QED BY <1>3, <1>4, <1>5, <1>10, <2>2 DEF removeTreasury
<1>11. CASE c.name = "deposit" /\ depositEscrow(t, user, c)
  <2>1. c.name \in PayingCommands BY <1>11 DEF PayingCommands
  <2>2. CASE Send(t, "send", createDepositTx(user, c.sol))
    BY <1>3, <2>1, <2>2, UnderwayAwaits DEF c
  <2> QED BY <1>4, <1>11, <2>2 DEF depositEscrow
<1>12. CASE withdrawEscrow(t, user, c)
  <2>1. \A tx \in createWithdrawTx(user, c.sol) : tx.ix \notin PayingIn
    BY OthersPayNothingIn
  <2>2. CASE Send(t, "send", createWithdrawTx(user, c.sol))
    BY <1>3, <2>1, <2>2, SendAwaits
  <2> QED BY <1>3, <1>4, <1>5, <1>12, <2>2 DEF withdrawEscrow
<1>13. CASE transfer(t, user, c)
  <2>1. CASE At(t, "start") /\ UNCHANGED flying /\ \E step : Go(t, step)
    <3>1. ~Over(run[t]) BY <2>1 DEF At, Over
    <3> QED BY <2>1, <3>1, GoAwaits
  <2>2. CASE Send(t, "vault", createTransferFromVaultTx(c.mint, user, c.recipient))
    <3>1. \A tx \in createTransferFromVaultTx(c.mint, user, c.recipient) :
             tx.ix \notin PayingIn
      BY OthersPayNothingIn
    <3> QED BY <1>3, <2>2, <3>1, SendAwaits
  <2>3. CASE Send(t, "wallet", createTransferTx(c.mint, user, c.recipient))
    <3>1. \A tx \in createTransferTx(c.mint, user, c.recipient) : tx.ix \notin PayingIn
      BY OthersPayNothingIn
    <3> QED BY <1>3, <2>3, <3>1, SendAwaits
  <2> QED BY <1>13, <2>1, <2>2, <2>3 DEF transfer
<1>14. CASE listNftForSale(t, user, c)
  <2>1. \A tx \in createListForSellNftTx(c.mint, user, c.priceSol) : tx.ix \notin PayingIn
    BY OthersPayNothingIn
  <2>2. CASE Send(t, "send", createListForSellNftTx(c.mint, user, c.priceSol))
    BY <1>3, <2>1, <2>2, SendAwaits
  <2> QED BY <1>3, <1>4, <1>5, <1>14, <2>2, CreationAwaits DEF listNftForSale
<1>15. CASE delistNft(t, user, c)
  <2>1. \A tx \in createDelistNftTx(c.mint, user) : tx.ix \notin PayingIn
    BY OthersPayNothingIn
  <2>2. CASE Send(t, "send", createDelistNftTx(c.mint, user))
    BY <1>3, <2>1, <2>2, SendAwaits
  <2> QED BY <1>3, <1>4, <1>5, <1>15, <2>2 DEF delistNft
<1>16. CASE setPrice(t, user, c)
  <2>1. \A tx \in createSetPriceTx(c.mint, user, c.newPrice) : tx.ix \notin PayingIn
    BY OthersPayNothingIn
  <2>2. CASE Send(t, "send", createSetPriceTx(c.mint, user, c.newPrice))
    BY <1>3, <2>1, <2>2, SendAwaits
  <2> QED BY <1>3, <1>4, <1>5, <1>16, <2>2 DEF setPrice
<1>17. CASE purchase(t, user, c)
  <2>1. \A tx \in createPurchaseTx(c.mint, user, run[t].pool) : tx.ix \notin PayingIn
    BY OthersPayNothingIn
  <2>2. CASE Send(t, "send", createPurchaseTx(c.mint, user, run[t].pool))
    BY <1>3, <2>1, <2>2, SendAwaits
  <2> QED BY <1>3, <1>4, <1>5, <1>17, <2>2 DEF purchase
<1>18. CASE c.name = "make_offer" /\ makeOffer(t, user, c)
  <2>1. c.name \in PayingCommands BY <1>18 DEF PayingCommands
  <2>2. CASE Send(t, "send", createMakeOfferTx(c.mint, user, c.price))
    BY <1>3, <2>1, <2>2, UnderwayAwaits DEF c
  <2> QED BY <1>3, <1>4, <1>18, <2>2, CreationAwaits DEF makeOffer
<1>19. CASE cancelOffer(t, user, c)
  <2>1. \A tx \in createCancelOfferTx(c.mint, user) : tx.ix \notin PayingIn
    BY OthersPayNothingIn
  <2>2. CASE Send(t, "send", createCancelOfferTx(c.mint, user))
    BY <1>3, <2>1, <2>2, SendAwaits
  <2> QED BY <1>3, <1>4, <1>5, <1>19, <2>2 DEF cancelOffer
<1>20. CASE acceptOffer(t, user, c)
  <2>1. \A tx \in createAcceptOfferTx(c.mint, c.buyer, run[t].pool) : tx.ix \notin PayingIn
    BY OthersPayNothingIn
  <2>2. CASE Send(t, "send", createAcceptOfferTx(c.mint, c.buyer, run[t].pool))
    BY <1>3, <2>1, <2>2, SendAwaits
  <2> QED BY <1>3, <1>4, <1>5, <1>20, <2>2 DEF acceptOffer
<1>21. CASE createAuction(t, user, c)
  <2>1. \A tx \in createCreateAuctionTx(c.mint, user, c.startPrice, c.minIncrease,
                                     c.duration, c.reserved) : tx.ix \notin PayingIn
    BY OthersPayNothingIn
  <2>2. CASE Send(t, "send", createCreateAuctionTx(c.mint, user, c.startPrice, c.minIncrease,
                                     c.duration, c.reserved))
    BY <1>3, <2>1, <2>2, SendAwaits
  <2> QED BY <1>3, <1>4, <1>5, <1>21, <2>2, CreationAwaits DEF createAuction
<1>22. CASE placeBid(t, user, c)
  <2>1. \A tx \in createPlaceBidTx(c.mint, user, c.price) : tx.ix \notin PayingIn
    BY OthersPayNothingIn
  <2>2. CASE Send(t, "send", createPlaceBidTx(c.mint, user, c.price))
    BY <1>3, <2>1, <2>2, SendAwaits
  <2> QED BY <1>3, <1>4, <1>5, <1>22, <2>2 DEF placeBid
<1>23. CASE claimAuction(t, user, c)
  <2>1. \A tx \in createClaimAuctionTx(c.mint, user, run[t].pool) : tx.ix \notin PayingIn
    BY OthersPayNothingIn
  <2>2. CASE Send(t, "send", createClaimAuctionTx(c.mint, user, run[t].pool))
    BY <1>3, <2>1, <2>2, SendAwaits
  <2> QED BY <1>3, <1>4, <1>5, <1>23, <2>2 DEF claimAuction
<1>24. CASE updateReserve(t, user, c)
  <2>1. \A tx \in createUpdateReserveTx(c.mint, user, c.newPrice) : tx.ix \notin PayingIn
    BY OthersPayNothingIn
  <2>2. CASE Send(t, "send", createUpdateReserveTx(c.mint, user, c.newPrice))
    BY <1>3, <2>1, <2>2, SendAwaits
  <2> QED BY <1>3, <1>4, <1>5, <1>24, <2>2 DEF updateReserve
<1>25. CASE cancelAuction(t, user, c)
  <2>1. \A tx \in createCancelAuctionTx(c.mint, user) : tx.ix \notin PayingIn
    BY OthersPayNothingIn
  <2>2. CASE Send(t, "send", createCancelAuctionTx(c.mint, user))
    BY <1>3, <2>1, <2>2, SendAwaits
  <2> QED BY <1>3, <1>4, <1>5, <1>25, <2>2 DEF cancelAuction
<1> QED BY <1>1, <1>2, <1>6, <1>7, <1>8, <1>9, <1>10, <1>11, <1>12, <1>13,
           <1>14, <1>15, <1>16, <1>17, <1>18, <1>19, <1>20, <1>21, <1>22,
           <1>23, <1>24, <1>25
        DEF Step, user, c

-----------------------------------------------------------------------------
LEMMA PriceNat == \A n \in PriceInput : n \in Nat
<1>1. PriceInput \subseteq U64 BY MarketInputAssumption
<1> QED BY <1>1, IntegersAssumption DEF U64

\* What a transaction adds to a balance: its amount to its signer's, if it pays
\* in, and nothing to anybody's otherwise.
LEMMA BalanceGrowth ==
  ASSUME OverflowChecks, TypeOK, CustodyInv, NEW tx, TxFits(tx), Execute(tx),
         NEW u \in User, NEW most \in Nat,
         \A amount \in PriceInput : amount <= most
  PROVE  Balances'[u] <= Balances[u]
            + (IF tx.ix \in PayingIn /\ Signer(tx) = u THEN most ELSE 0)
<1> DEFINE user == Signer(tx)
           growth == IF tx.ix \in PayingIn /\ user = u THEN most ELSE 0
<1>1. /\ user_pool \in [User -> UserData] /\ user \in User
      /\ \A w \in User : Balances[w] \in Nat
  BY DebtsNat DEF TypeOK, TxFits
<1>2. growth \in Nat OBVIOUS
<1>t. tx.ix \in PayingIn /\ user = u => growth = most OBVIOUS
<1> SUFFICES Balances'[u] <= Balances[u] + growth OBVIOUS
<1> HIDE DEF growth, user
<1>3. ASSUME Balances'[u] = Balances[u] PROVE Balances'[u] <= Balances[u] + growth
  BY <1>1, <1>2, <1>3
<1>4. CASE RunAdministration(tx) \/ RunCreation(tx) \/ RunListing(tx)
              \/ RunAuctioning(tx)
  BY <1>3, <1>4, AdministrationRuns, CreationRuns, ListingRuns, AuctioningRuns,
     OthersKeepBalances
  DEF user
<1>5. ASSUME NEW sol \in PriceInput, NEW balance \in Int, Computes(balance),
             balance <= Balances[user] + sol,
             tx.ix \in PayingIn \/ balance <= Balances[user],
             user_pool' = [user_pool EXCEPT ![user] = WithEscrow(@, balance)]
      PROVE  Balances'[u] <= Balances[u] + growth
  <2>1. user_pool'[user].escrow_sol_balance = balance
    <3>1. balance \in Nat /\ balance <= MaxU64
      BY <1>5, IntegersAssumption DEF Computes, U64
    <3> QED BY <1>1, <1>5, <3>1, StoredBalance
  <2>2. user # u => user_pool'[u] = user_pool[u] BY <1>1, <1>5
  <2>3. Balances'[user] = balance /\ (user # u => Balances'[u] = Balances[u])
    BY <1>1, <2>1, <2>2 DEF Balances
  <2>4. sol \in Nat /\ sol <= most BY PriceNat
  <2> HIDE DEF Balances
  <2>5. CASE user # u BY <1>3, <2>3, <2>5
  <2>6. CASE user = u BY <1>1, <1>2, <1>t, <1>5, <2>3, <2>4, <2>6
  <2> QED BY <2>5, <2>6
<1>6. CASE RunEscrow(tx)
  <2>1. tx.args.sol \in PriceInput
    BY <1>6 DEF RunEscrow, TxFits
  <2>s. tx.args.sol \in Nat BY <2>1, PriceNat
  <2>2. CASE tx.ix = "depositToEscrow" /\ DepositToEscrow(user, tx.args.sol)
    <3> DEFINE balance == user_pool[user].escrow_sol_balance + tx.args.sol
    <3>1. /\ balance \in Int /\ Computes(balance)
          /\ balance <= Balances[user] + tx.args.sol /\ tx.ix \in PayingIn
          /\ user_pool' = [user_pool EXCEPT ![user] = WithEscrow(@, balance)]
      BY <1>1, <2>s, <2>2 DEF DepositToEscrow, Balances, PayingIn
    <3> HIDE DEF balance
    <3> QED BY <1>5, <2>1, <3>1
  <2>3. CASE WithdrawFromEscrow(user, tx.args.sol)
    <3> DEFINE balance == user_pool[user].escrow_sol_balance - tx.args.sol
    <3>1. /\ balance \in Int /\ Computes(balance)
          /\ balance <= Balances[user] + tx.args.sol /\ balance <= Balances[user]
          /\ user_pool' = [user_pool EXCEPT ![user] = WithEscrow(@, balance)]
      BY <1>1, <2>s, <2>3 DEF WithdrawFromEscrow, Balances
    <3> HIDE DEF balance
    <3> QED BY <1>5, <2>1, <3>1
  <2> QED BY <1>6, <2>2, <2>3 DEF RunEscrow, user
<1>7. CASE RunOffering(tx)
  <2>1. CASE tx.ix = "makeOffer" /\ MakeOffer(user, MintOf(tx), tx.args.price)
    <3>1. tx.args.price \in PriceInput BY <2>1 DEF TxFits
    <3>s. tx.args.price \in Nat BY <3>1, PriceNat
    <3> DEFINE balance == user_pool[user].escrow_sol_balance + tx.args.price
    <3>2. /\ balance \in Int /\ Computes(balance)
          /\ balance <= Balances[user] + tx.args.price /\ tx.ix \in PayingIn
          /\ user_pool' = [user_pool EXCEPT ![user] = WithEscrow(@, balance)]
      BY <1>1, <2>1, <3>s DEF MakeOffer, Balances, PayingIn
    <3> HIDE DEF balance
    <3> QED BY <1>5, <3>1, <3>2
  <2>2. CASE CancelOffer(user, MintOf(tx))
    BY <1>3, <2>2 DEF CancelOffer, Balances
  <2>3. CASE tx.ix = "acceptOffer"
    <3> DEFINE buyer == tx.accounts.buyer
               price == offer[MintOf(tx)][buyer].offer_price
    <3>1. MintOf(tx) \in Mint /\ buyer \in User
      BY <2>3 DEF TxFits, NftInstructions
    <3>2. AcceptOffer(user, buyer, MintOf(tx)) BY <1>7, <2>3, AcceptRuns DEF user
    <3>3. /\ Balances'[buyer] = Balances[buyer] - price
          /\ \A w \in User \ {buyer} : Balances'[w] = Balances[w]
      BY <1>1, <3>1, <3>2, AcceptMoves
    <3>4. price \in Nat
      BY <3>1, IntegersAssumption DEF TypeOK, OfferData, U64
    <3> HIDE DEF price, buyer, Balances
    <3>5. CASE u = buyer BY <1>1, <1>2, <3>1, <3>3, <3>4, <3>5
    <3>6. CASE u # buyer
      <4>1. u \in User \ {buyer} BY <3>6
      <4> QED BY <1>3, <3>3, <4>1
    <3> QED BY <3>5, <3>6
  <2> QED BY <1>7, <2>1, <2>2, <2>3 DEF RunOffering, user
<1> QED BY <1>4, <1>6, <1>7 DEF Execute

\* The paying transactions of t that may still land, and whether t may still
\* send one: what is left of the deposits t has started is what it paid in.
InFlight(t) == {f \in flying : f.from = t /\ f.tx.ix \in PayingIn}
ToSend(r) == IF r.cmd.name \in PayingCommands /\ ~Over(r) THEN 1 ELSE 0
Room(t) == run[t].started - Cardinality(InFlight(t)) - ToSend(run[t])

Roomy(t) ==
    /\ RunNamed(run[t]) /\ run[t].started \in Nat
    /\ IsFiniteSet(InFlight(t))
    /\ Room(t) \in Nat

PaidOnce(most) ==
    /\ DOMAIN run = Terminal
    /\ \A f \in flying : Signer(f.tx) = PayerOf[f.from]
    /\ \A t \in Terminal : Roomy(t) /\ Balances[PayerOf[t]] <= Room(t) * most

LEMMA TimesGrows ==
  ASSUME NEW m \in Nat, NEW n \in Nat, NEW most \in Nat, m <= n
  PROVE  m * most <= n * most
<1>1. PICK k \in Nat : n = m + k
  <2>1. n - m \in Nat /\ n = m + (n - m) OBVIOUS
  <2> QED BY <2>1
<1>2. n * most = m * most + k * most BY <1>1, SMT
<1>3. m * most \in Nat /\ k * most \in Nat BY SMT
<1> QED BY <1>2, <1>3

\* A step that pays nothing in and leaves every terminal its room.
LEMMA RoomKept ==
  ASSUME NEW most \in Nat, PaidOnce(most), TypeOK,
         \A t \in Terminal : Balances'[PayerOf[t]] = Balances[PayerOf[t]],
         DOMAIN run' = Terminal,
         \A f \in flying' : Signer(f.tx) = PayerOf[f.from],
         \A t \in Terminal : Roomy(t)' /\ Room(t) <= Room(t)'
  PROVE  PaidOnce(most)'
<1>1. ASSUME NEW t \in Terminal PROVE Balances'[PayerOf[t]] <= Room(t)' * most
  <2> DEFINE before == Room(t)
             after == Room(t)'
             balance == Balances[PayerOf[t]]
  <2>1. before \in Nat /\ after \in Nat /\ before <= after
    BY DEF PaidOnce, Roomy
  <2>2. balance <= before * most BY DEF PaidOnce
  <2>3. balance \in Nat BY DebtsNat, TerminalsAssumption
  <2>4. Balances'[PayerOf[t]] = balance OBVIOUS
  <2> HIDE DEF before, after, balance
  <2>5. before * most <= after * most BY <2>1, TimesGrows
  <2>6. before * most \in Nat /\ after * most \in Nat BY <2>1, SMT
  <2>7. balance <= after * most BY <2>2, <2>3, <2>5, <2>6
  <2> QED BY <2>4, <2>7 DEF after
<1> QED BY <1>1 DEF PaidOnce

\* A terminal whose transactions in flight stay the same.
LEMMA SameFlight ==
  ASSUME NEW t, UNCHANGED flying
  PROVE  InFlight(t)' = InFlight(t)
BY DEF InFlight

\* One run goes on and no transaction is sent.
LEMMA RunGoesOn ==
  ASSUME NEW most \in Nat, PaidOnce(most), TypeOK, UNCHANGED vars,
         UNCHANGED flying, NEW t \in Terminal, NEW r, RunNamed(r),
         r.started \in Nat, run' = [run EXCEPT ![t] = r],
         run[t].started - ToSend(run[t]) <= r.started - ToSend(r)
  PROVE  PaidOnce(most)'
<1>1. \A u \in Terminal : Balances'[PayerOf[u]] = Balances[PayerOf[u]]
  BY DEF vars, accounts, Balances
<1>2. DOMAIN run' = Terminal BY DEF PaidOnce
<1>3. \A f \in flying' : Signer(f.tx) = PayerOf[f.from] BY DEF PaidOnce
<1>4. ASSUME NEW u \in Terminal PROVE Roomy(u)' /\ Room(u) <= Room(u)'
  <2>1. Roomy(u) BY DEF PaidOnce
  <2>2. InFlight(u)' = InFlight(u) BY SameFlight
  <2>3. CASE u # t
    <3>1. run'[u] = run[u] BY <2>3 DEF PaidOnce
    <3>2. Room(u)' = Room(u) BY <2>2, <3>1 DEF Room
    <3> QED BY <2>1, <2>2, <3>1, <3>2 DEF Roomy
  <2>4. CASE u = t
    <3>1. run'[u] = r BY <2>4 DEF PaidOnce
    <3> DEFINE c == Cardinality(InFlight(u))
               s == ToSend(run[u])
               s1 == ToSend(r)
    <3>2. c \in Nat /\ s \in Nat /\ s1 \in Nat
      BY <2>1, FS_CardinalityType DEF Roomy, ToSend
    <3>3. Room(u) = run[u].started - c - s /\ Room(u)' = r.started - c - s1
      BY <2>2, <3>1 DEF Room
    <3>4. run[u].started \in Nat /\ Room(u) \in Nat BY <2>1 DEF Roomy
    <3>5. run[u].started - s <= r.started - s1 BY <2>4
    <3> HIDE DEF c, s, s1
    <3>6. Room(u)' \in Nat /\ Room(u) <= Room(u)' BY <3>2, <3>3, <3>4, <3>5
    <3> QED BY <2>1, <2>2, <3>1, <3>6 DEF Roomy
  <2> QED BY <2>3, <2>4
<1> QED BY <1>1, <1>2, <1>3, <1>4, RoomKept

LEMMA ToSendOne ==
  ASSUME NEW r
  PROVE  /\ ToSend(r) \in {0, 1}
         /\ Over(r) => ToSend(r) = 0
         /\ ~Over(r) /\ r.cmd.name \in PayingCommands => ToSend(r) = 1
BY DEF ToSend

\* An await that sends a transaction: if it pays in, it is the last of its
\* command, and takes the place that was kept for it.
LEMMA SendingKeeps ==
  ASSUME NEW most \in Nat, PaidOnce(most), TypeOK, UNCHANGED vars,
         NEW t \in Terminal, Sends(t)
  PROVE  PaidOnce(most)'
<1>1. PICK r, id, tx :
         /\ GoesOn(t, r)
         /\ flying' = flying \cup {[from |-> t, id |-> id, tx |-> tx]}
         /\ Signer(tx) = PayerOf[t]
         /\ tx.ix \in PayingIn => run[t].cmd.name \in PayingCommands /\ Over(r)
  BY DEF Sends
<1> DEFINE f == [from |-> t, id |-> id, tx |-> tx]
<1>2. f.from = t /\ f.tx = tx OBVIOUS
<1>3. flying' = flying \cup {f} BY <1>1
<1> HIDE DEF f
<1>4. \A u \in Terminal : Balances'[PayerOf[u]] = Balances[PayerOf[u]]
  BY DEF vars, accounts, Balances
<1>5. DOMAIN run' = Terminal BY <1>1 DEF PaidOnce, GoesOn
<1>6. \A g \in flying' : Signer(g.tx) = PayerOf[g.from]
  BY <1>1, <1>2, <1>3 DEF PaidOnce
<1>7. ASSUME NEW u \in Terminal PROVE Roomy(u)' /\ Room(u) <= Room(u)'
  <2>1. Roomy(u) BY DEF PaidOnce
  <2> DEFINE c == Cardinality(InFlight(u))
             c1 == Cardinality(InFlight(u)')
  <2>2. c \in Nat /\ run[u].started \in Nat /\ Room(u) \in Nat
    BY <2>1, FS_CardinalityType DEF Roomy
  <2>3. CASE u # t
    <3>1. run'[u] = run[u] BY <1>1, <2>3 DEF PaidOnce, GoesOn
    <3>2. InFlight(u)' = InFlight(u) BY <1>2, <1>3, <2>3 DEF InFlight
    <3>3. Room(u)' = Room(u) BY <3>1, <3>2 DEF Room
    <3> QED BY <2>1, <2>2, <3>1, <3>2, <3>3 DEF Roomy
  <2>4. CASE u = t /\ tx.ix \notin PayingIn
    <3>1. InFlight(u)' = InFlight(u) BY <1>2, <1>3, <2>4 DEF InFlight
    <3>2. run'[u] = r /\ RunNamed(r) /\ r.started = run[u].started
      BY <1>1, <2>4 DEF PaidOnce, GoesOn
    <3>3. ToSend(r) <= ToSend(run[u])
      BY <1>1, <2>4 DEF ToSend, GoesOn
    <3>4. ToSend(r) \in Nat /\ ToSend(run[u]) \in Nat BY DEF ToSend
    <3>5. Room(u) = run[u].started - c - ToSend(run[u])
      BY DEF Room
    <3>6. Room(u)' = run[u].started - c - ToSend(r)
      BY <3>1, <3>2 DEF Room
    <3> HIDE DEF c
    <3>7. Room(u)' \in Nat /\ Room(u) <= Room(u)'
      BY <2>2, <3>3, <3>4, <3>5, <3>6
    <3> QED BY <2>1, <2>2, <3>1, <3>2, <3>7 DEF Roomy
  <2>5. CASE u = t /\ tx.ix \in PayingIn
    <3>1. InFlight(u)' = InFlight(u) \cup {f}
      BY <1>2, <1>3, <2>5 DEF InFlight
    <3>2. IsFiniteSet(InFlight(u)') /\ c1 \in Nat /\ c1 <= c + 1
      <4>1. IsFiniteSet(InFlight(u)) BY <2>1 DEF Roomy
      <4>2. /\ IsFiniteSet(InFlight(u)')
            /\ c1 = IF f \in InFlight(u) THEN c ELSE c + 1
        BY <3>1, <4>1, FS_AddElement
      <4> HIDE DEF c, c1
      <4>3. c1 = c \/ c1 = c + 1 BY <4>2
      <4> QED BY <2>2, <4>2, <4>3
    <3>3. run'[u] = r /\ RunNamed(r) /\ r.started = run[u].started
      BY <1>1, <2>5 DEF PaidOnce, GoesOn
    <3>4. ToSend(r) = 0 /\ ToSend(run[u]) = 1
      BY <1>1, <2>5, ToSendOne DEF GoesOn
    <3>5. Room(u) = run[u].started - c - 1
      BY <3>4 DEF Room
    <3>6. Room(u)' = run[u].started - c1 - 0
      BY <3>3, <3>4 DEF Room
    <3> HIDE DEF c, c1
    <3>7. Room(u)' \in Nat /\ Room(u) <= Room(u)'
      BY <2>2, <3>2, <3>5, <3>6
    <3> QED BY <2>1, <2>2, <3>2, <3>3, <3>7 DEF Roomy
  <2> QED BY <2>3, <2>4, <2>5
<1> QED BY <1>4, <1>5, <1>6, <1>7, RoomKept

LEMMA AwaitKeeps ==
  ASSUME NEW most \in Nat, PaidOnce(most), TypeOK, NEW t \in Terminal, Step(t)
  PROVE  PaidOnce(most)'
<1>1. t \in DOMAIN run /\ RunNamed(run[t]) /\ run[t].started \in Nat
  BY DEF PaidOnce, Roomy
<1>2. UNCHANGED vars BY DEF Step, chain
<1>3. CASE Reads(t)
  <2>1. PICK r : GoesOn(t, r) BY <1>3 DEF Reads
  <2>2. UNCHANGED flying BY <1>3 DEF Reads
  <2>3. /\ RunNamed(r) /\ r.started = run[t].started
        /\ run' = [run EXCEPT ![t] = r]
    BY <2>1 DEF GoesOn
  <2>4. ToSend(r) <= ToSend(run[t]) BY <2>1 DEF GoesOn, ToSend
  <2>5. ToSend(r) \in Nat /\ ToSend(run[t]) \in Nat BY DEF ToSend
  <2>6. run[t].started - ToSend(run[t]) <= r.started - ToSend(r)
    BY <1>1, <2>3, <2>4, <2>5
  <2> QED BY <1>1, <1>2, <2>2, <2>3, <2>6, RunGoesOn
<1>4. CASE Sends(t) BY <1>2, <1>4, SendingKeeps
<1> QED BY <1>1, <1>3, <1>4, StepAwaits DEF Awaits

\* A command that starts may pay in, and counts as started.
LEMMA BeginningKeeps ==
  ASSUME NEW most \in Nat, PaidOnce(most), TypeOK, NEW t \in Terminal, Start(t)
  PROVE  PaidOnce(most)'
<1>1. RunNamed(run[t]) /\ run[t].started \in Nat BY DEF PaidOnce, Roomy
<1>2. UNCHANGED vars /\ UNCHANGED flying BY DEF Start, chain
<1>3. PICK c : run' = [run EXCEPT ![t].at = "start", ![t].cmd = c,
                                  ![t].started = @ + 1]
  BY DEF Start
<1> DEFINE r == [run[t] EXCEPT !.at = "start", !.cmd = c, !.started = @ + 1]
<1>4. RunNamed(r) /\ r.started = run[t].started + 1 BY <1>1 DEF RunNamed
<1>5. run' = [run EXCEPT ![t] = r] BY <1>3
<1> HIDE DEF r
<1>6. ToSend(run[t]) = 0 BY ToSendOne DEF Start, At, Over
<1>7. ToSend(r) \in {0, 1} BY ToSendOne
<1>8. run[t].started - ToSend(run[t]) <= r.started - ToSend(r)
  BY <1>1, <1>4, <1>6, <1>7
<1>9. r.started \in Nat BY <1>1, <1>4
<1> QED BY <1>2, <1>4, <1>5, <1>8, <1>9, RunGoesOn

\* A command that awaits a confirmation goes on, or throws.
LEMMA WaitingKeeps ==
  ASSUME NEW most \in Nat, PaidOnce(most), TypeOK, NEW t \in Terminal,
         Confirm(t) \/ TimeOut(t)
  PROVE  PaidOnce(most)'
<1>1. RunNamed(run[t]) /\ run[t].started \in Nat BY DEF PaidOnce, Roomy
<1>2. UNCHANGED vars /\ UNCHANGED flying
  BY DEF Confirm, TimeOut, Return, chain
<1>3. PICK step : Go(t, step) /\ (step = run[t].then \/ step = "idle")
  BY DEF Confirm, TimeOut, Return
<1> DEFINE r == [run[t] EXCEPT !.at = step]
<1>4. /\ RunNamed(r) /\ r.started = run[t].started /\ r.cmd = run[t].cmd
      /\ r.at = step
  BY <1>1 DEF RunNamed
<1>5. run' = [run EXCEPT ![t] = r] BY <1>3 DEF Go
<1> HIDE DEF r
<1>6. run[t].at = "confirm" BY DEF Confirm, TimeOut, At
<1>7. Over(run[t]) => Over(r) BY <1>3, <1>4, <1>6 DEF Over
<1>8. ToSend(r) <= ToSend(run[t]) BY <1>4, <1>7 DEF ToSend
<1>9. ToSend(r) \in {0, 1} /\ ToSend(run[t]) \in {0, 1} BY ToSendOne
<1>10. run[t].started - ToSend(run[t]) <= r.started - ToSend(r)
  BY <1>1, <1>4, <1>8, <1>9
<1>11. r.started \in Nat BY <1>1, <1>4
<1> QED BY <1>2, <1>4, <1>5, <1>10, <1>11, RunGoesOn

\* A transaction that leaves those in flight makes room for one more.
LEMMA LandingRoom ==
  ASSUME NEW t \in Terminal, Roomy(t), NEW f \in flying, flying' = flying \ {f},
         RunNamed(run'[t]), run'[t].started = run[t].started,
         ToSend(run'[t]) = ToSend(run[t])
  PROVE  /\ Roomy(t)'
         /\ Room(t)' = Room(t)
              + (IF f.from = t /\ f.tx.ix \in PayingIn THEN 1 ELSE 0)
<1> DEFINE c == Cardinality(InFlight(t))
           c1 == Cardinality(InFlight(t)')
           s == ToSend(run[t])
           one == IF f.from = t /\ f.tx.ix \in PayingIn THEN 1 ELSE 0
<1>1. InFlight(t)' = InFlight(t) \ {f} BY DEF InFlight
<1>2. IsFiniteSet(InFlight(t)) BY DEF Roomy
<1>3. /\ IsFiniteSet(InFlight(t)')
      /\ c1 = IF f \in InFlight(t) THEN c - 1 ELSE c
  BY <1>1, <1>2, FS_RemoveElement
<1>4. f \in InFlight(t) <=> f.from = t /\ f.tx.ix \in PayingIn BY DEF InFlight
<1>5. c1 = c - one /\ one \in {0, 1}
  <2>1. c \in Nat BY <1>2, FS_CardinalityType
  <2> HIDE DEF c, c1
  <2> QED BY <1>3, <1>4, <2>1
<1>6. c \in Nat /\ s \in {0, 1} /\ run[t].started \in Nat /\ Room(t) \in Nat
  BY <1>2, FS_CardinalityType, ToSendOne DEF Roomy
<1>7. Room(t) = run[t].started - c - s /\ Room(t)' = run[t].started - c1 - s
  BY DEF Room
<1> HIDE DEF c, c1, s, one
<1>8. Room(t)' = Room(t) + one /\ Room(t)' \in Nat BY <1>5, <1>6, <1>7
<1> QED BY <1>3, <1>6, <1>8 DEF Roomy, one

LEMMA ExpiryKeeps ==
  ASSUME NEW most \in Nat, PaidOnce(most), TypeOK, Expire
  PROVE  PaidOnce(most)'
<1>1. PICK f \in flying : flying' = flying \ {f} BY DEF Expire
<1>2. UNCHANGED vars /\ UNCHANGED run BY DEF Expire, chain
<1>3. \A t \in Terminal : Balances'[PayerOf[t]] = Balances[PayerOf[t]]
  BY <1>2 DEF vars, accounts, Balances
<1>4. DOMAIN run' = Terminal /\ \A g \in flying' : Signer(g.tx) = PayerOf[g.from]
  BY <1>1, <1>2 DEF PaidOnce
<1>5. ASSUME NEW t \in Terminal PROVE Roomy(t)' /\ Room(t) <= Room(t)'
  <2>1. Roomy(t) /\ Room(t) \in Nat BY DEF PaidOnce, Roomy
  <2>2. /\ RunNamed(run'[t]) /\ run'[t].started = run[t].started
        /\ ToSend(run'[t]) = ToSend(run[t])
    BY <1>2, <2>1 DEF Roomy
  <2> DEFINE one == IF f.from = t /\ f.tx.ix \in PayingIn THEN 1 ELSE 0
  <2>3. Roomy(t)' /\ Room(t)' = Room(t) + one
    BY <1>1, <2>1, <2>2, LandingRoom
  <2>4. one \in Nat OBVIOUS
  <2> HIDE DEF one
  <2> QED BY <2>1, <2>3, <2>4
<1> QED BY <1>3, <1>4, <1>5, RoomKept

\* A landing that pays in takes the room it leaves, of nobody but its signer.
LEMMA LandingKeeps ==
  ASSUME OverflowChecks, \A t, s \in Terminal : PayerOf[t] = PayerOf[s] => t = s,
         NEW most \in Nat, \A amount \in PriceInput : amount <= most,
         PaidOnce(most), MarketInv, CustodyInv, TerminalsInv, Land
  PROVE  PaidOnce(most)'
<1>1. PICK f \in flying :
         /\ flying' = flying \ {f}
         /\ run' = [run EXCEPT ![f.from].landed =
                       @ \/ (run[f.from].at = "confirm" /\ run[f.from].sends = f.id)]
         /\ Execute(f.tx) \/ UNCHANGED chain
  BY DEF Land
<1>2. f.from \in Terminal /\ TxFits(f.tx) /\ Signer(f.tx) = PayerOf[f.from]
  BY DEF TerminalsInv, FlyingFits, PaidOnce
<1>3. DOMAIN run' = Terminal /\ \A g \in flying' : Signer(g.tx) = PayerOf[g.from]
  BY <1>1 DEF PaidOnce
<1>4. ASSUME NEW t \in Terminal
      PROVE  Roomy(t)' /\ Balances'[PayerOf[t]] <= Room(t)' * most
  <2>1. Roomy(t) /\ Room(t) \in Nat /\ Balances[PayerOf[t]] <= Room(t) * most
    BY DEF PaidOnce, Roomy
  <2>2. /\ RunNamed(run'[t]) /\ run'[t].started = run[t].started
        /\ ToSend(run'[t]) = ToSend(run[t])
    <3>1. RunNamed(run[t]) BY <2>1 DEF Roomy
    <3> DEFINE told == run[t].landed
                \/ (run[f.from].at = "confirm" /\ run[f.from].sends = f.id)
               r == [run[t] EXCEPT !.landed = told]
    <3>2. run'[t] = run[t] \/ run'[t] = r BY <1>1, <1>2 DEF PaidOnce
    <3> HIDE DEF told
    <3>3. /\ RunNamed(r) /\ r.started = run[t].started /\ r.cmd = run[t].cmd
          /\ r.at = run[t].at /\ r.then = run[t].then
      BY <3>1 DEF RunNamed
    <3> HIDE DEF r
    <3> QED BY <3>1, <3>2, <3>3 DEF ToSend, Over
  <2> DEFINE one == IF f.from = t /\ f.tx.ix \in PayingIn THEN 1 ELSE 0
             paid == IF f.tx.ix \in PayingIn /\ Signer(f.tx) = PayerOf[t]
                     THEN most ELSE 0
  <2>3. Roomy(t)' /\ Room(t)' = Room(t) + one
    BY <1>1, <2>1, <2>2, LandingRoom
  <2>4. PayerOf[t] \in User /\ Balances[PayerOf[t]] \in Nat
    BY DebtsNat, TerminalsAssumption DEF MarketInv
  <2>5. paid = one * most
    <3>1. Signer(f.tx) = PayerOf[t] <=> f.from = t BY <1>2
    <3>2. 0 * most = 0 /\ 1 * most = most OBVIOUS
    <3> QED BY <3>1, <3>2
  <2>6. Balances'[PayerOf[t]] <= Balances[PayerOf[t]] + paid
    <3>1. CASE Execute(f.tx) BY <1>2, <2>4, <3>1, BalanceGrowth DEF MarketInv
    <3>2. CASE UNCHANGED chain
      <4>1. Balances'[PayerOf[t]] = Balances[PayerOf[t]]
        BY <3>2 DEF chain, vars, accounts, Balances
      <4>2. paid \in Nat OBVIOUS
      <4> HIDE DEF paid
      <4> QED BY <2>4, <4>1, <4>2
    <3> QED BY <1>1, <3>1, <3>2
  <2>7. one \in Nat OBVIOUS
  <2> HIDE DEF one, paid
  <2>8. (Room(t) + one) * most = Room(t) * most + one * most
    BY <2>1, <2>7, SMT
  <2>9. Room(t) * most \in Nat /\ one * most \in Nat BY <2>1, <2>7, SMT
  <2>10. Balances'[PayerOf[t]] \in Nat
    <3>1. [Next]_vars BY <1>1, <1>2, ExecuteRuns DEF chain, MarketInv
    <3>2. TypeOK' BY <3>1, MarketStep DEF MarketInv
    <3> QED BY <2>4, <3>2, IntegersAssumption DEF TypeOK, UserData, U64, Balances
  <2> QED BY <2>1, <2>3, <2>4, <2>5, <2>6, <2>8, <2>9, <2>10
<1> QED BY <1>3, <1>4 DEF PaidOnce

\* Time passes, or nothing happens at all.
LEMMA IdlingKeeps ==
  ASSUME NEW most \in Nat, PaidOnce(most), TypeOK, CustodyInv,
         UNCHANGED commandVars, UNCHANGED vars \/ Tick
  PROVE  PaidOnce(most)'
<1>1. \A t \in Terminal : Balances'[PayerOf[t]] = Balances[PayerOf[t]]
  BY OthersKeepBalances, TerminalsAssumption
<1>2. UNCHANGED run /\ UNCHANGED flying BY DEF commandVars
<1>3. DOMAIN run' = Terminal /\ \A f \in flying' : Signer(f.tx) = PayerOf[f.from]
  BY <1>2 DEF PaidOnce
<1>4. ASSUME NEW t \in Terminal PROVE Roomy(t)' /\ Room(t) <= Room(t)'
  <2>1. Roomy(t) BY DEF PaidOnce
  <2>2. InFlight(t)' = InFlight(t) BY <1>2, SameFlight
  <2>3. Room(t)' = Room(t) BY <1>2, <2>2 DEF Room
  <2>4. Room(t) \in Nat BY <2>1 DEF Roomy
  <2> QED BY <1>2, <2>1, <2>2, <2>3, <2>4 DEF Roomy
<1> QED BY <1>1, <1>3, <1>4, RoomKept

LEMMA PaidOnceStep ==
  ASSUME OverflowChecks, \A t, s \in Terminal : PayerOf[t] = PayerOf[s] => t = s,
         NEW most \in Nat, \A amount \in PriceInput : amount <= most,
         PaidOnce(most), MarketInv, CustodyInv, TerminalsInv,
         [TerminalsNext]_systemVars
  PROVE  PaidOnce(most)'
<1>1. TypeOK BY DEF MarketInv
<1>2. CASE UNCHANGED systemVars \/ (Tick /\ UNCHANGED <<tokens, commandVars>>)
  <2>1. UNCHANGED commandVars /\ (UNCHANGED vars \/ Tick)
    BY <1>2 DEF systemVars, commandVars
  <2> QED BY <1>1, <2>1, IdlingKeeps
<1>3. ASSUME NEW t \in Terminal, Start(t) PROVE PaidOnce(most)'
  BY <1>1, <1>3, BeginningKeeps
<1>4. ASSUME NEW t \in Terminal, Step(t) PROVE PaidOnce(most)'
  BY <1>1, <1>4, AwaitKeeps
<1>5. ASSUME NEW t \in Terminal, Confirm(t) \/ TimeOut(t) PROVE PaidOnce(most)'
  BY <1>1, <1>5, WaitingKeeps
<1>6. CASE Land BY <1>6, LandingKeeps
<1>7. CASE Expire BY <1>1, <1>7, ExpiryKeeps
<1> QED BY <1>2, <1>3, <1>4, <1>5, <1>6, <1>7 DEF TerminalsNext

LEMMA PaidOnceStart ==
  ASSUME NEW people, TerminalsInit(people), NEW most \in Nat,
         \A u \in User : Balances[u] = 0
  PROVE  PaidOnce(most)
<1>1. run = [t \in Terminal |-> Idle(people[t])] /\ flying = {}
  BY DEF TerminalsInit
<1>2. ASSUME NEW t \in Terminal
      PROVE  Roomy(t) /\ Balances[PayerOf[t]] <= Room(t) * most
  <2>1. /\ RunNamed(run[t]) /\ run[t].started = 0 /\ Over(run[t])
    BY <1>1 DEF RunNamed, Idle, Over
  <2>2. InFlight(t) = {} BY <1>1 DEF InFlight
  <2>3. IsFiniteSet(InFlight(t)) /\ Cardinality(InFlight(t)) = 0
    BY <2>2, FS_EmptySet
  <2>4. ToSend(run[t]) = 0 BY <2>1, ToSendOne
  <2>5. Room(t) = 0 BY <2>1, <2>3, <2>4 DEF Room
  <2>6. 0 * most = 0 OBVIOUS
  <2>7. Balances[PayerOf[t]] = 0 BY TerminalsAssumption
  <2> QED BY <2>1, <2>3, <2>5, <2>6, <2>7 DEF Roomy
<1> QED BY <1>1, <1>2 DEF PaidOnce

LEMMA PaidOnceSuffices ==
  ASSUME TypeOK, NEW most \in PriceInput,
         \A amount \in PriceInput : amount <= most, PaidOnce(most)
  PROVE  DepositedOnce
<1>1. most \in Nat BY MarketInputAssumption, IntegersAssumption DEF U64
<1>2. ASSUME NEW t \in Terminal
      PROVE  user_pool[PayerOf[t]].escrow_sol_balance <= run[t].started * most
  <2> DEFINE c == Cardinality(InFlight(t))
             s == ToSend(run[t])
             room == Room(t)
             balance == Balances[PayerOf[t]]
  <2>1. /\ IsFiniteSet(InFlight(t)) /\ run[t].started \in Nat /\ room \in Nat
        /\ balance <= room * most
    BY DEF PaidOnce, Roomy
  <2>2. c \in Nat /\ s \in {0, 1} BY <2>1, FS_CardinalityType, ToSendOne
  <2>3. room = run[t].started - c - s BY DEF Room
  <2>4. PayerOf[t] \in User /\ balance \in Nat BY DebtsNat, TerminalsAssumption
  <2>5. user_pool[PayerOf[t]].escrow_sol_balance = balance BY <2>4 DEF Balances
  <2> HIDE DEF c, s, room, balance
  <2>6. room <= run[t].started BY <2>1, <2>2, <2>3
  <2>7. room * most <= run[t].started * most BY <1>1, <2>1, <2>6, TimesGrows
  <2>8. room * most \in Nat /\ run[t].started * most \in Nat
    BY <1>1, <2>1, SMT
  <2> QED BY <2>1, <2>4, <2>5, <2>7, <2>8
<1> QED BY <1>2 DEF DepositedOnce

\* A deposit or an offer is paid in at most once for every command that was
\* started, whatever became of its confirmation: at any number of terminals,
\* as long as each signs with a wallet of its own.  A terminal's room counts
\* the commands it started less the transactions it may yet see land.
THEOREM DepositsPaidOnce ==
  ASSUME OverflowChecks, \A t, s \in Terminal : PayerOf[t] = PayerOf[s] => t = s,
         NEW most \in PriceInput, \A amount \in PriceInput : amount <= most,
         NEW people, \A t \in Terminal : LinesFit(people[t].lines)
  PROVE  MarketInv /\ CustodyInv /\ (\A u \in User : Balances[u] = 0)
            /\ TerminalsInit(people) /\ [][TerminalsNext]_systemVars
            => []DepositedOnce
<1> DEFINE Inv == MarketInv /\ CustodyInv /\ TerminalsInv /\ PaidOnce(most)
           Empty == \A u \in User : Balances[u] = 0
<1>1. most \in Nat BY MarketInputAssumption, IntegersAssumption DEF U64
<1>2. MarketInv /\ CustodyInv /\ Empty /\ TerminalsInit(people) => Inv
  BY <1>1, TerminalsStart, PaidOnceStart
<1>3. Inv /\ [TerminalsNext]_systemVars => Inv'
  <2> SUFFICES ASSUME Inv, [TerminalsNext]_systemVars PROVE Inv' OBVIOUS
  <2>1. TerminalsInv' /\ [Next]_vars BY TerminalsStep DEF MarketInv
  <2>2. MarketInv' BY <2>1, MarketStep
  <2>3. CustodyInv' BY <2>1, CustodyStep DEF MarketInv
  <2>4. PaidOnce(most)' BY <1>1, PaidOnceStep
  <2> QED BY <2>1, <2>2, <2>3, <2>4
<1>4. Inv => DepositedOnce BY PaidOnceSuffices DEF MarketInv
<1> QED BY <1>2, <1>3, <1>4, PTL

-----------------------------------------------------------------------------
(***************************************************************************)
(* What a command sends finds the accounts it needs.                       *)
(***************************************************************************)
\* Accounts are never closed: every instruction writes the keys of the ones
\* it finds, or those of a new one.
AccountsStay ==
    \A m \in Mint :
        /\ SellExists(m) => SellExists(m)'
        /\ AuctionExists(m) => AuctionExists(m)'
        /\ \A u \in User : OfferExists(m, u) => OfferExists(m, u)'

\* An instruction that leaves the keys alone, or writes a listing whole.
LEMMA KeysStay ==
  ASSUME \A m \in Mint : sell'[m].mint \in {m, sell[m].mint},
         \A m \in Mint : auction'[m].mint = auction[m].mint,
         \A m \in Mint, u \in User :
            /\ offer'[m][u].mint = offer[m][u].mint
            /\ offer'[m][u].buyer = offer[m][u].buyer
  PROVE  AccountsStay
BY DEF AccountsStay, SellExists, AuctionExists, OfferExists

LEMMA EndListingKeys ==
  ASSUME TypeOK, NEW k \in Mint, EndListing(k)
  PROVE  /\ \A m \in Mint : sell'[m].mint \in {m, sell[m].mint}
         /\ \A m \in Mint : auction'[m].mint = auction[m].mint
<1>1. sell \in [Mint -> SellData] /\ auction \in [Mint -> AuctionData]
  BY DEF TypeOK
<1>2. \A m \in Mint : sell'[m].mint \in {m, sell[m].mint}
  BY <1>1 DEF EndListing, SellData
<1>3. \A m \in Mint : auction'[m].mint = auction[m].mint
  BY <1>1 DEF EndListing, AuctionData
<1> QED BY <1>2, <1>3

LEMMA CreationStays ==
  ASSUME TypeOK, Creation
  PROVE  AccountsStay
<1>1. /\ sell \in [Mint -> SellData] /\ auction \in [Mint -> AuctionData]
      /\ offer \in [Mint -> [User -> OfferData]]
      /\ \A m \in Mint : offer[m] \in [User -> OfferData]
  BY DEF TypeOK
<1>2. ASSUME NEW k \in Mint, InitSellData(k) PROVE AccountsStay
  <2>1. \A m \in Mint : sell'[m].mint \in {m, sell[m].mint}
    BY <1>1, <1>2 DEF InitSellData, SellData
  <2> QED BY <1>2, <2>1, KeysStay DEF InitSellData
<1>3. ASSUME NEW k \in Mint, InitAuctionData(k) PROVE AccountsStay
  <2>1. \A m \in Mint : auction'[m].mint \in {m, auction[m].mint}
    BY <1>1, <1>3 DEF InitAuctionData, AuctionData
  <2>2. sell' = sell /\ offer' = offer BY <1>3 DEF InitAuctionData
  <2> QED
    BY <2>1, <2>2 DEF AccountsStay, SellExists, AuctionExists, OfferExists
<1>4. ASSUME NEW u \in User, InitUserPool(u) PROVE AccountsStay
  BY <1>4, KeysStay DEF InitUserPool
<1>5. ASSUME NEW u \in User, NEW k \in Mint, InitOfferData(u, k)
      PROVE  AccountsStay
  <2>1. \A m \in Mint, x \in User :
           OfferExists(m, x) =>
              offer'[m][x].mint = m /\ offer'[m][x].buyer = x
    BY <1>1, <1>5 DEF InitOfferData, OfferData, OfferExists
  <2>2. sell' = sell /\ auction' = auction BY <1>5 DEF InitOfferData
  <2> QED
    BY <2>1, <2>2 DEF AccountsStay, SellExists, AuctionExists, OfferExists
<1> QED BY <1>2, <1>3, <1>4, <1>5 DEF Creation

LEMMA ListingStays ==
  ASSUME TypeOK, Listing
  PROVE  AccountsStay
<1>1. sell \in [Mint -> SellData] BY DEF TypeOK
<1>2. PICK u \in User, k \in Mint :
         \/ \E price \in PriceInput : ListNftForSale(u, k, price)
         \/ DelistNft(u, k)
         \/ \E price \in PriceInput : SetPrice(u, k, price)
         \/ \E recipient \in User : TransferNft(u, recipient, k)
         \/ \E recipient \in User : TransferFromVault(u, recipient, k)
         \/ Purchase(u, k)
  BY DEF Listing
<1>3. ASSUME NEW price, ListNftForSale(u, k, price) PROVE AccountsStay
  <2>1. \A m \in Mint : sell'[m].mint \in {m, sell[m].mint}
    BY <1>1, <1>3 DEF ListNftForSale
  <2> QED BY <1>3, <2>1, KeysStay DEF ListNftForSale
<1>4. CASE DelistNft(u, k)
  <2>1. \A m \in Mint : sell'[m].mint \in {m, sell[m].mint}
    BY <1>1, <1>4 DEF DelistNft, SellData
  <2> QED BY <1>4, <2>1, KeysStay DEF DelistNft
<1>5. ASSUME NEW price, SetPrice(u, k, price) PROVE AccountsStay
  <2>1. \A m \in Mint : sell'[m].mint \in {m, sell[m].mint}
    BY <1>1, <1>5 DEF SetPrice, SellData
  <2> QED BY <1>5, <2>1, KeysStay DEF SetPrice
<1>6. ASSUME NEW recipient, TransferNft(u, recipient, k) PROVE AccountsStay
  BY <1>6, KeysStay DEF TransferNft, accounts
<1>7. ASSUME NEW recipient, TransferFromVault(u, recipient, k)
      PROVE  AccountsStay
  BY <1>7, EndListingKeys, KeysStay DEF TransferFromVault
<1>8. CASE Purchase(u, k)
  BY <1>8, EndListingKeys, KeysStay DEF Purchase, PurchaseNaming
<1> QED BY <1>2, <1>3, <1>4, <1>5, <1>6, <1>7, <1>8

LEMMA OfferingStays ==
  ASSUME TypeOK, Offering
  PROVE  AccountsStay
<1>1. /\ offer \in [Mint -> [User -> OfferData]]
      /\ \A m \in Mint : offer[m] \in [User -> OfferData]
  BY DEF TypeOK
<1>2. ASSUME NEW u \in User, NEW k \in Mint, NEW price, MakeOffer(u, k, price)
      PROVE  AccountsStay
  <2>1. \A m \in Mint, x \in User : /\ offer'[m][x].mint = offer[m][x].mint
                                    /\ offer'[m][x].buyer = offer[m][x].buyer
    BY <1>1, <1>2 DEF MakeOffer, OfferData
  <2> QED BY <1>2, <2>1, KeysStay DEF MakeOffer
<1>3. ASSUME NEW u \in User, NEW k \in Mint, CancelOffer(u, k)
      PROVE  AccountsStay
  <2>1. \A m \in Mint, x \in User : /\ offer'[m][x].mint = offer[m][x].mint
                                    /\ offer'[m][x].buyer = offer[m][x].buyer
    BY <1>1, <1>3 DEF CancelOffer, OfferData
  <2> QED BY <1>3, <2>1, KeysStay DEF CancelOffer
<1>4. ASSUME NEW u \in User, NEW buyer \in User, NEW k \in Mint,
             AcceptOffer(u, buyer, k)
      PROVE  AccountsStay
  <2>1. \A m \in Mint, x \in User : /\ offer'[m][x].mint = offer[m][x].mint
                                    /\ offer'[m][x].buyer = offer[m][x].buyer
    BY <1>1, <1>4 DEF AcceptOffer, AcceptOfferNaming, OfferData
  <2>2. EndListing(k) BY <1>4 DEF AcceptOffer, AcceptOfferNaming
  <2> QED BY <2>1, <2>2, EndListingKeys, KeysStay
<1> QED BY <1>2, <1>3, <1>4 DEF Offering

LEMMA AuctioningStays ==
  ASSUME TypeOK, Auctioning
  PROVE  AccountsStay
<1>1. sell \in [Mint -> SellData] /\ auction \in [Mint -> AuctionData]
  BY DEF TypeOK
<1>2. ASSUME offer' = offer, NEW k \in Mint, NEW a,
             \A m \in Mint : sell'[m].mint \in {m, sell[m].mint},
             auction' = [auction EXCEPT ![k] = a], a.mint = auction[k].mint
      PROVE  AccountsStay
  <2>1. \A m \in Mint : auction'[m].mint = auction[m].mint BY <1>1, <1>2
  <2> QED BY <1>2, <2>1, KeysStay
<1>3. PICK u \in User, k \in Mint :
         \/ \E price \in PriceInput, min_increase \in MinIncreaseInput,
               duration \in DurationInput, reserved \in 0 .. 1 :
               CreateAuction(u, k, price, min_increase, duration, reserved)
         \/ \E price \in PriceInput : PlaceBid(u, k, price)
         \/ ClaimAuction(u, k)
         \/ \E price \in PriceInput : UpdateReserve(u, k, price)
         \/ CancelAuction(u, k)
  BY DEF Auctioning
<1>4. auction[k] \in AuctionData BY <1>1
<1>5. ASSUME NEW price, NEW min_increase, NEW duration, NEW reserved,
             CreateAuction(u, k, price, min_increase, duration, reserved)
      PROVE  AccountsStay
  BY <1>2, <1>4, <1>5 DEF CreateAuction, NewAuction, AuctionData
<1>6. ASSUME NEW price, PlaceBid(u, k, price) PROVE AccountsStay
  <2>1. \A m \in Mint : sell'[m].mint \in {m, sell[m].mint}
    BY <1>1, <1>6 DEF PlaceBid, PlaceBidRefunding, SellData
  <2>2. AfterBid(auction[k], u, price).mint = auction[k].mint
    BY <1>4 DEF AfterBid, AuctionData
  <2> QED BY <1>2, <1>6, <2>1, <2>2 DEF PlaceBid, PlaceBidRefunding
<1>7. CASE ClaimAuction(u, k)
  BY <1>2, <1>4, <1>7 DEF ClaimAuction, ClaimAuctionNaming, AuctionData
<1>8. ASSUME NEW price, UpdateReserve(u, k, price) PROVE AccountsStay
  BY <1>2, <1>4, <1>8 DEF UpdateReserve, AuctionData
<1>9. CASE CancelAuction(u, k)
  BY <1>2, <1>4, <1>9 DEF CancelAuction, AuctionData
<1> QED BY <1>3, <1>5, <1>6, <1>7, <1>8, <1>9

LEMMA NextStays ==
  ASSUME TypeOK, [Next]_vars
  PROVE  AccountsStay
<1>1. CASE UNCHANGED <<sell, offer, auction>> BY <1>1, KeysStay
<1>2. CASE UNCHANGED vars \/ Tick \/ Administration
  BY <1>1, <1>2 DEF vars, accounts, Tick, Administration
<1>3. CASE Escrow
  BY <1>1, <1>3 DEF Escrow, DepositToEscrow, WithdrawFromEscrow
<1> QED
  BY <1>2, <1>3, CreationStays, ListingStays, OfferingStays, AuctioningStays
     DEF Next

\* The commands that create accounts on their way.
Preparing == {"list", "create_auction"}

\* At this step of command c the accounts made by the steps before it exist.
Ready(c, step, user) ==
    /\ c.name \in Preparing /\ step \in {"auction", "send"} => SellExists(c.mint)
    /\ c.name \in Preparing /\ step = "send" => AuctionExists(c.mint)
    /\ c.name = "make_offer" /\ step = "send" => OfferExists(c.mint, user)

\* The transaction c waits for makes the account that the next step needs.
Awaited(tx, c, next, user) ==
    /\ c.name \in Preparing /\ next = "auction" =>
          tx \in createInitSellDataTx(c.mint, user)
    /\ c.name \in Preparing /\ next = "send" =>
          SellExists(c.mint) /\ tx \in createInitAuctionDataTx(c.mint, user)
    /\ c.name = "make_offer" /\ next = "send" =>
          tx \in createInitOfferDataTx(c.mint, user)

RunReady(r, t) ==
    /\ Ready(r.cmd, r.at, PayerOf[t])
    /\ r.at = "confirm" =>
          /\ r.landed => Ready(r.cmd, r.then, PayerOf[t])
          /\ \A f \in flying : f.from = t /\ f.id = r.sends =>
                Awaited(f.tx, r.cmd, r.then, PayerOf[t])

\* Transactions are numbered, so that none sent before is taken for the one
\* that is waited for.
Prepared ==
    /\ DOMAIN run = Terminal
    /\ \A t \in Terminal : RunNamed(run[t]) /\ run[t].sends \in Nat
    /\ \A f \in flying :
          f.from \in Terminal /\ f.id \in Nat /\ f.id <= run[f.from].sends
    /\ \A t \in Terminal : RunReady(run[t], t)

\* A creation is for its NFT and its user, and names the account its seeds
\* give.
LEMMA CreationBuilt ==
  ASSUME NEW mint, NEW user, NEW tx
  PROVE  /\ tx \in createInitSellDataTx(mint, user) =>
               /\ tx.ix = "initSellData" /\ tx.args.nft = mint /\ MintOf(tx) = mint
               /\ AccountsFit(tx)
         /\ tx \in createInitAuctionDataTx(mint, user) =>
               /\ tx.ix = "initAuctionData" /\ tx.args.nft = mint /\ MintOf(tx) = mint
               /\ AccountsFit(tx)
         /\ tx \in createInitOfferDataTx(mint, user) =>
               /\ tx.ix = "initOfferData" /\ tx.args.nft = mint /\ MintOf(tx) = mint
               /\ Signer(tx) = user
               /\ AccountsFit(tx)
<1>1. ASSUME NEW accts, NEW ix, tx \in Plain(ix, accts, [nft |-> mint])
      PROVE  /\ tx.ix = ix /\ tx.accounts = accts /\ tx.args = [nft |-> mint]
             /\ tx.creates = {}
  BY <1>1 DEF Plain, InstructionTo
<1>2. ASSUME tx \in createInitSellDataTx(mint, user)
      PROVE  /\ tx.ix = "initSellData" /\ tx.args.nft = mint /\ MintOf(tx) = mint
             /\ AccountsFit(tx)
  <2> DEFINE accts == [payer |-> user, sellDataInfo |-> SellPDA(mint)]
  <2>1. /\ tx.ix = "initSellData" /\ tx.accounts = accts
        /\ tx.args = [nft |-> mint] /\ tx.creates = {}
    BY <1>1, <1>2 DEF createInitSellDataTx
  <2>2. MintOf(tx) = mint BY <2>1 DEF MintOf
  <2>3. SeedsOf(tx, "payer") = accts.payer
    BY <2>1 DEF SeedsOf
  <2>4. SeedsOf(tx, "sellDataInfo") = accts.sellDataInfo
    BY <2>2 DEF SeedsOf
  <2>5. TokenAccountsExist(tx) BY <2>1 DEF TokenAccountsExist, TokenAccountNames
  <2>6. DOMAIN accts = {"payer", "sellDataInfo"} OBVIOUS
  <2> HIDE DEF accts
  <2> QED BY <2>1, <2>2, <2>3, <2>4, <2>5, <2>6 DEF AccountsFit
<1>3. ASSUME tx \in createInitAuctionDataTx(mint, user)
      PROVE  /\ tx.ix = "initAuctionData" /\ tx.args.nft = mint /\ MintOf(tx) = mint
             /\ AccountsFit(tx)
  <2> DEFINE accts == [payer |-> user, auctionDataInfo |-> AuctionPDA(mint)]
  <2>1. /\ tx.ix = "initAuctionData" /\ tx.accounts = accts
        /\ tx.args = [nft |-> mint] /\ tx.creates = {}
    BY <1>1, <1>3 DEF createInitAuctionDataTx
  <2>2. MintOf(tx) = mint BY <2>1 DEF MintOf
  <2>3. SeedsOf(tx, "payer") = accts.payer
    BY <2>1 DEF SeedsOf
  <2>4. SeedsOf(tx, "auctionDataInfo") = accts.auctionDataInfo
    BY <2>2 DEF SeedsOf
  <2>5. TokenAccountsExist(tx) BY <2>1 DEF TokenAccountsExist, TokenAccountNames
  <2>6. DOMAIN accts = {"payer", "auctionDataInfo"} OBVIOUS
  <2> HIDE DEF accts
  <2> QED BY <2>1, <2>2, <2>3, <2>4, <2>5, <2>6 DEF AccountsFit
<1>4. ASSUME tx \in createInitOfferDataTx(mint, user)
      PROVE  /\ tx.ix = "initOfferData" /\ tx.args.nft = mint /\ MintOf(tx) = mint
             /\ Signer(tx) = user
             /\ AccountsFit(tx)
  <2> DEFINE accts == [payer |-> user, offerDataInfo |-> OfferPDA(mint, user)]
  <2>1. /\ tx.ix = "initOfferData" /\ tx.accounts = accts
        /\ tx.args = [nft |-> mint] /\ tx.creates = {}
    BY <1>1, <1>4 DEF createInitOfferDataTx
  <2>2. MintOf(tx) = mint BY <2>1 DEF MintOf
  <2>s. Signer(tx) = user
    BY <2>1 DEF Signer, AccountNames, IDL!instructions, IDL!initOfferData,
               IDL!Instruction
  <2>3. SeedsOf(tx, "payer") = accts.payer
    BY <2>1 DEF SeedsOf
  <2>4. SeedsOf(tx, "offerDataInfo") = accts.offerDataInfo
    BY <2>1, <2>2, <2>s DEF SeedsOf
  <2>5. TokenAccountsExist(tx) BY <2>1 DEF TokenAccountsExist, TokenAccountNames
  <2>6. DOMAIN accts = {"payer", "offerDataInfo"} OBVIOUS
  <2> HIDE DEF accts
  <2> QED BY <2>1, <2>2, <2>3, <2>4, <2>5, <2>6, <2>s DEF AccountsFit
<1> QED BY <1>2, <1>3, <1>4

\* A creation that lands leaves its account behind, its own or the one it
\* was refused for.
LEMMA CreationLands ==
  ASSUME TypeOK, NEW mint \in Mint, NEW user \in User, NEW tx,
         Execute(tx) \/ (~Executable(tx) /\ UNCHANGED chain)
  PROVE  /\ tx \in createInitSellDataTx(mint, user) => SellExists(mint)'
         /\ tx \in createInitAuctionDataTx(mint, user) => AuctionExists(mint)'
         /\ tx \in createInitOfferDataTx(mint, user) => OfferExists(mint, user)'
<1>1. /\ sell \in [Mint -> SellData] /\ auction \in [Mint -> AuctionData]
      /\ offer \in [Mint -> [User -> OfferData]]
      /\ \A m \in Mint : offer[m] \in [User -> OfferData]
  BY DEF TypeOK
<1>2. ASSUME Execute(tx), tx.ix \in Creating PROVE RunCreation(tx)
  <2>1. ~RunAdministration(tx) BY <1>2 DEF RunAdministration, Creating
  <2>2. ~RunEscrow(tx) BY <1>2 DEF RunEscrow, Creating
  <2>3. ~RunListing(tx) BY <1>2 DEF RunListing, Creating
  <2>4. ~RunOffering(tx) BY <1>2 DEF RunOffering, Creating
  <2>5. ~RunAuctioning(tx) BY <1>2 DEF RunAuctioning, Creating
  <2> QED BY <1>2, <2>1, <2>2, <2>3, <2>4, <2>5 DEF Execute
<1>3. ASSUME tx \in createInitSellDataTx(mint, user) PROVE SellExists(mint)'
  <2>1. /\ tx.ix = "initSellData" /\ tx.args.nft = mint /\ MintOf(tx) = mint
        /\ AccountsFit(tx)
    BY <1>3, CreationBuilt
  <2>2. CASE Execute(tx)
    <3>1. RunCreation(tx) BY <1>2, <2>1, <2>2 DEF Creating
    <3>2. InitSellData(mint) BY <2>1, <3>1 DEF RunCreation
    <3> QED BY <1>1, <3>2 DEF InitSellData, SellExists, SellData
  <2>3. CASE ~Executable(tx) /\ UNCHANGED chain
    <3>1. SellExists(mint) BY <2>1, <2>3 DEF Executable
    <3> QED BY <2>3, <3>1 DEF chain, vars, accounts, SellExists
  <2> QED BY <2>2, <2>3
<1>4. ASSUME tx \in createInitAuctionDataTx(mint, user)
      PROVE  AuctionExists(mint)'
  <2>1. /\ tx.ix = "initAuctionData" /\ tx.args.nft = mint /\ MintOf(tx) = mint
        /\ AccountsFit(tx)
    BY <1>4, CreationBuilt
  <2>2. CASE Execute(tx)
    <3>1. RunCreation(tx) BY <1>2, <2>1, <2>2 DEF Creating
    <3>2. InitAuctionData(mint) BY <2>1, <3>1 DEF RunCreation
    <3> QED BY <1>1, <3>2 DEF InitAuctionData, AuctionExists, AuctionData
  <2>3. CASE ~Executable(tx) /\ UNCHANGED chain
    <3>1. AuctionExists(mint) BY <2>1, <2>3 DEF Executable
    <3> QED BY <2>3, <3>1 DEF chain, vars, accounts, AuctionExists
  <2> QED BY <2>2, <2>3
<1>5. ASSUME tx \in createInitOfferDataTx(mint, user)
      PROVE  OfferExists(mint, user)'
  <2>1. /\ tx.ix = "initOfferData" /\ tx.args.nft = mint /\ MintOf(tx) = mint
        /\ Signer(tx) = user /\ AccountsFit(tx)
    BY <1>5, CreationBuilt
  <2>2. CASE Execute(tx)
    <3>1. RunCreation(tx) BY <1>2, <2>1, <2>2 DEF Creating
    <3>2. InitOfferData(user, mint) BY <2>1, <3>1 DEF RunCreation
    <3> QED BY <1>1, <3>2 DEF InitOfferData, OfferExists, OfferData
  <2>3. CASE ~Executable(tx) /\ UNCHANGED chain
    <3>1. OfferExists(mint, user) BY <2>1, <2>3 DEF Executable
    <3> QED BY <2>3, <3>1 DEF chain, vars, accounts, OfferExists
  <2> QED BY <2>2, <2>3
<1> QED BY <1>3, <1>4, <1>5

\* What was ready stays ready, whatever happens to the ledger.
LEMMA ReadyStays ==
  ASSUME AccountsStay, NEW c, CommandFits(c), NEW t \in Terminal, NEW step
  PROVE  /\ Ready(c, step, PayerOf[t]) => Ready(c, step, PayerOf[t])'
         /\ \A tx : Awaited(tx, c, step, PayerOf[t])
                       => Awaited(tx, c, step, PayerOf[t])'
<1>1. c.name \in Preparing \cup {"make_offer"} => c.mint \in Mint
  BY DEF CommandFits, NftCommands, Preparing
<1>2. PayerOf[t] \in User BY TerminalsAssumption
<1> QED BY <1>1, <1>2 DEF Ready, Awaited, AccountsStay

\* One run changes, of a terminal that may send one transaction more.
LEMMA OneRunReady ==
  ASSUME Prepared, UNCHANGED vars, NEW t \in Terminal, NEW r, RunNamed(r),
         run' = [run EXCEPT ![t] = r], r.sends \in Nat, run[t].sends <= r.sends,
         \A f \in flying' : f \in flying \/ (f.from = t /\ f.id = r.sends),
         RunReady(r, t)'
  PROVE  Prepared'
<1>1. /\ DOMAIN run' = Terminal /\ run'[t] = r
      /\ \A u \in Terminal \ {t} : run'[u] = run[u]
  BY DEF Prepared
<1>2. \A u \in Terminal : RunNamed(run'[u]) /\ run'[u].sends \in Nat
  BY <1>1 DEF Prepared
<1>3. ASSUME NEW f \in flying'
      PROVE  f.from \in Terminal /\ f.id \in Nat /\ f.id <= run'[f.from].sends
  <2>1. CASE f \in flying /\ f.from # t BY <1>1, <2>1 DEF Prepared
  <2>2. CASE f \in flying /\ f.from = t
    <3>1. f.id \in Nat /\ f.id <= run[t].sends /\ run[t].sends \in Nat
      BY <2>2 DEF Prepared
    <3> QED BY <1>1, <2>2, <3>1
  <2>3. CASE f.from = t /\ f.id = r.sends BY <1>1, <2>3
  <2> QED BY <2>1, <2>2, <2>3
<1>4. ASSUME NEW u \in Terminal, u # t PROVE RunReady(run[u], u)'
  <2>1. RunReady(run[u], u) /\ run'[u] = run[u] BY <1>1, <1>4 DEF Prepared
  <2>2. \A f \in flying' : f.from = u => f \in flying BY <1>4
  <2> QED
    BY <2>1, <2>2 DEF RunReady, Ready, Awaited, vars, accounts, SellExists,
                      AuctionExists, OfferExists
<1>5. RunReady(run[t], t)' BY <1>1
<1> QED BY <1>1, <1>2, <1>3, <1>4, <1>5 DEF Prepared

LEMMA GoReady ==
  ASSUME Prepared, UNCHANGED vars, UNCHANGED flying, NEW t \in Terminal,
         NEW step, Go(t, step), step = "confirm" => At(t, "confirm"),
         Ready(run[t].cmd, step, PayerOf[t])
  PROVE  Prepared'
<1> DEFINE r == [run[t] EXCEPT !.at = step]
<1>1. RunNamed(run[t]) /\ run[t].sends \in Nat BY DEF Prepared
<1>2. /\ RunNamed(r) /\ r.sends = run[t].sends /\ r.cmd = run[t].cmd
      /\ r.at = step /\ r.then = run[t].then /\ r.landed = run[t].landed
  BY <1>1 DEF RunNamed
<1>3. run' = [run EXCEPT ![t] = r] BY DEF Go
<1> HIDE DEF r
<1>4. PICK q : q = r OBVIOUS
<1>5. /\ RunNamed(q) /\ run' = [run EXCEPT ![t] = q] /\ q.sends \in Nat
      /\ run[t].sends <= q.sends
  BY <1>1, <1>2, <1>3, <1>4
<1>6. RunReady(q, t)
  <2>1. Ready(q.cmd, q.at, PayerOf[t]) BY <1>2, <1>4
  <2>2. q.at = "confirm" => RunReady(run[t], t) /\ run[t].at = "confirm"
    BY <1>2, <1>4 DEF Prepared, At
  <2> QED BY <1>2, <1>4, <2>1, <2>2 DEF RunReady
<1>7. RunReady(q, t)'
  BY <1>6 DEF RunReady, Ready, Awaited, vars, accounts, SellExists,
              AuctionExists, OfferExists
<1> QED BY <1>5, <1>7, OneRunReady

LEMMA SendReady ==
  ASSUME Prepared, UNCHANGED vars, NEW t \in Terminal, NEW txs, NEW next,
         SendAnd(t, txs, next),
         \A tx \in txs : Awaited(tx, run[t].cmd, next, PayerOf[t])
  PROVE  Prepared'
<1>1. PICK tx \in txs :
         /\ flying' = flying \cup
               {[from |-> t, id |-> run[t].sends + 1, tx |-> tx]}
         /\ run' = [run EXCEPT ![t].at = "confirm", ![t].then = next,
                               ![t].landed = FALSE, ![t].sends = @ + 1]
  BY DEF SendAnd
<1> DEFINE r == [run[t] EXCEPT !.at = "confirm", !.then = next,
                               !.landed = FALSE, !.sends = @ + 1]
<1>2. RunNamed(run[t]) /\ run[t].sends \in Nat BY DEF Prepared
<1>3. /\ RunNamed(r) /\ r.sends = run[t].sends + 1 /\ r.cmd = run[t].cmd
      /\ r.at = "confirm" /\ r.then = next /\ r.landed = FALSE
  BY <1>2 DEF RunNamed
<1>4. run' = [run EXCEPT ![t] = r] BY <1>1
<1> HIDE DEF r
<1>5. PICK q : q = r OBVIOUS
<1>6. /\ RunNamed(q) /\ run' = [run EXCEPT ![t] = q] /\ q.sends \in Nat
      /\ run[t].sends <= q.sends
  BY <1>2, <1>3, <1>4, <1>5
<1>7. ASSUME NEW f \in flying', f.from = t, f.id = q.sends
      PROVE  Awaited(f.tx, q.cmd, q.then, PayerOf[t])'
  <2>1. f \notin flying
    <3>1. f \in flying => f.id \in Nat /\ f.id <= run[t].sends
      BY <1>7 DEF Prepared
    <3> QED BY <1>2, <1>3, <1>5, <1>7, <3>1
  <2>2. f.tx = tx BY <1>1, <1>7, <2>1
  <2>3. Awaited(tx, q.cmd, q.then, PayerOf[t]) BY <1>3, <1>5
  <2> QED BY <2>2, <2>3 DEF Awaited, vars, accounts, SellExists
<1>8. RunReady(q, t)' BY <1>3, <1>5, <1>7 DEF RunReady, Ready
<1>9. \A f \in flying' : f \in flying \/ (f.from = t /\ f.id = q.sends)
  BY <1>1, <1>3, <1>5
<1> QED BY <1>6, <1>8, <1>9, OneRunReady

LEMMA EnsureReady ==
  ASSUME Prepared, UNCHANGED vars, NEW t \in Terminal, NEW step, NEW exists,
         NEW txs, NEW next, next # "confirm", Ensure(t, step, exists, txs, next),
         exists => Ready(run[t].cmd, next, PayerOf[t]),
         \A tx \in txs : Awaited(tx, run[t].cmd, next, PayerOf[t])
  PROVE  Prepared'
BY GoReady, SendReady DEF Ensure

\* Steps that need nothing to be there.
LEMMA NothingNeeded ==
  ASSUME NEW c, NEW user
  PROVE  /\ \A step : step \notin {"auction", "send"} => Ready(c, step, user)
         /\ \A tx, next : next \notin {"auction", "send"} =>
               Awaited(tx, c, next, user)
         /\ c.name \notin Preparing \cup {"make_offer"} =>
               /\ \A step : Ready(c, step, user)
               /\ \A tx, next : Awaited(tx, c, next, user)
BY DEF Ready, Awaited

LEMMA CheckUserReady ==
  ASSUME Prepared, UNCHANGED vars, NEW t \in Terminal, NEW next,
         next \notin {"auction", "send", "confirm"}, CheckUser(t, next)
  PROVE  Prepared'
<1>1. PICK step \in {next, "idle"} : Go(t, step) BY DEF CheckUser
<1>2. Ready(run[t].cmd, step, PayerOf[t]) BY <1>1, NothingNeeded
<1> QED BY <1>1, <1>2, GoReady DEF CheckUser

LEMMA SellReady ==
  ASSUME Prepared, UNCHANGED vars, NEW t \in Terminal,
         run[t].cmd.name \in Preparing,
         initSellData(t, PayerOf[t], run[t].cmd.mint, "sell", "auction")
  PROVE  Prepared'
<1> DEFINE c == run[t].cmd
           user == PayerOf[t]
<1>1. SellExists(c.mint) => Ready(c, "auction", user) BY DEF Ready, Preparing
<1>2. \A tx \in createInitSellDataTx(c.mint, user) :
         Awaited(tx, c, "auction", user)
  BY DEF Awaited, Preparing
<1> QED BY <1>1, <1>2, EnsureReady DEF initSellData

LEMMA AuctionReady ==
  ASSUME Prepared, UNCHANGED vars, NEW t \in Terminal,
         run[t].cmd.name \in Preparing,
         initAuctionData(t, PayerOf[t], run[t].cmd.mint, "auction", "send")
  PROVE  Prepared'
<1> DEFINE c == run[t].cmd
           user == PayerOf[t]
<1>1. At(t, "auction") BY DEF initAuctionData, Ensure
<1>2. SellExists(c.mint) BY <1>1 DEF Prepared, RunReady, Ready, At
<1>3. AuctionExists(c.mint) => Ready(c, "send", user)
  BY <1>2 DEF Ready, Preparing
<1>4. \A tx \in createInitAuctionDataTx(c.mint, user) :
         Awaited(tx, c, "send", user)
  BY <1>2 DEF Awaited, Preparing
<1> QED BY <1>3, <1>4, EnsureReady DEF initAuctionData

LEMMA OfferReady ==
  ASSUME Prepared, UNCHANGED vars, NEW t \in Terminal,
         run[t].cmd.name = "make_offer",
         initOfferData(t, PayerOf[t], run[t].cmd.mint, "offer", "send")
  PROVE  Prepared'
<1> DEFINE c == run[t].cmd
           user == PayerOf[t]
<1>1. OfferExists(c.mint, user) => Ready(c, "send", user)
  BY DEF Ready, Preparing
<1>2. \A tx \in createInitOfferDataTx(c.mint, user) :
         Awaited(tx, c, "send", user)
  BY DEF Awaited, Preparing
<1> QED BY <1>1, <1>2, EnsureReady DEF initOfferData

\* The last transaction of a command: nothing comes after it.
LEMMA LastSendReady ==
  ASSUME Prepared, UNCHANGED vars, NEW t \in Terminal, NEW step, NEW txs,
         Send(t, step, txs)
  PROVE  Prepared'
<1>1. \A tx \in txs : Awaited(tx, run[t].cmd, "idle", PayerOf[t])
  BY NothingNeeded
<1> QED BY <1>1, SendReady DEF Send

LEMMA StepReady ==
  ASSUME Prepared, NEW t \in Terminal, Step(t)
  PROVE  Prepared'
<1> DEFINE user == PayerOf[t]
           c == run[t].cmd
<1>1. UNCHANGED vars BY DEF Step, chain
<1>2. CASE Throw(t) \/ query(t)
  <2>1. Ready(c, "idle", user) BY NothingNeeded
  <2> QED BY <1>1, <1>2, <2>1, GoReady DEF Throw, query, Return
<1>3. ASSUME c.name \in Preparing, listNftForSale(t, user, c) PROVE Prepared'
  BY <1>1, <1>3, CheckUserReady, SellReady, AuctionReady, LastSendReady
     DEF listNftForSale
<1>4. ASSUME c.name \in Preparing, createAuction(t, user, c) PROVE Prepared'
  BY <1>1, <1>4, CheckUserReady, SellReady, AuctionReady, LastSendReady
     DEF createAuction
<1>5. ASSUME c.name = "make_offer", makeOffer(t, user, c) PROVE Prepared'
  BY <1>1, <1>5, CheckUserReady, OfferReady, LastSendReady DEF makeOffer
<1>6. ASSUME c.name \notin Preparing \cup {"make_offer"} PROVE Prepared'
  <2>1. t \in DOMAIN run /\ RunNamed(run[t]) /\ run[t].sends \in Nat
    BY DEF Prepared
  <2>2. Awaits(t) BY <2>1, StepAwaits
  <2>3. PICK r : /\ GoesOn(t, r) /\ r.sends \in {run[t].sends, run[t].sends + 1}
                 /\ \A f \in flying' :
                       f \in flying \/ (f.from = t /\ f.id = r.sends)
    BY <2>2 DEF Awaits, Reads, Sends
  <2>4. r.cmd = c /\ RunNamed(r) /\ run' = [run EXCEPT ![t] = r]
    BY <2>3 DEF GoesOn
  <2>5. r.sends \in Nat /\ run[t].sends <= r.sends BY <2>1, <2>3
  <2>6. RunReady(r, t)' BY <1>6, <2>4 DEF RunReady, Ready, Awaited
  <2> QED BY <1>1, <2>3, <2>4, <2>5, <2>6, OneRunReady
<1> QED BY <1>2, <1>3, <1>4, <1>5, <1>6 DEF Step, Preparing

\* A command starts, one that waited goes on, or it throws.
LEMMA BeginningReady ==
  ASSUME Prepared, NEW t \in Terminal, Start(t)
  PROVE  Prepared'
<1>1. RunNamed(run[t]) /\ run[t].sends \in Nat BY DEF Prepared
<1>2. UNCHANGED vars /\ UNCHANGED flying BY DEF Start, chain
<1>3. PICK c : run' = [run EXCEPT ![t].at = "start", ![t].cmd = c,
                                  ![t].started = @ + 1]
  BY DEF Start
<1> DEFINE r == [run[t] EXCEPT !.at = "start", !.cmd = c, !.started = @ + 1]
<1>4. RunNamed(r) /\ r.sends = run[t].sends /\ r.at = "start"
  BY <1>1 DEF RunNamed
<1>5. run' = [run EXCEPT ![t] = r] BY <1>3
<1> HIDE DEF r
<1>6. PICK q : q = r OBVIOUS
<1>7. RunReady(q, t)' BY <1>4, <1>6 DEF RunReady, Ready
<1>8. /\ RunNamed(q) /\ run' = [run EXCEPT ![t] = q] /\ q.sends \in Nat
      /\ run[t].sends <= q.sends
  BY <1>1, <1>4, <1>5, <1>6
<1> QED BY <1>2, <1>7, <1>8, OneRunReady

LEMMA WaitingReady ==
  ASSUME Prepared, NEW t \in Terminal, Confirm(t) \/ TimeOut(t)
  PROVE  Prepared'
<1>1. UNCHANGED vars /\ UNCHANGED flying
  BY DEF Confirm, TimeOut, Return, chain
<1>2. CASE Confirm(t)
  <2>1. Ready(run[t].cmd, run[t].then, PayerOf[t])
    BY <1>2 DEF Confirm, At, Prepared, RunReady
  <2> QED BY <1>1, <1>2, <2>1, GoReady DEF Confirm
<1>3. CASE TimeOut(t)
  <2>1. Ready(run[t].cmd, "idle", PayerOf[t]) BY NothingNeeded
  <2> QED BY <1>1, <1>3, <2>1, GoReady DEF TimeOut, Return
<1> QED BY <1>2, <1>3

\* The one that waits for the transaction that lands can go on; nobody else
\* is told of it.
LEMMA LandReady ==
  ASSUME Prepared, MarketInv, TerminalsInv, Land
  PROVE  Prepared'
<1>1. PICK f \in flying :
         /\ flying' = flying \ {f}
         /\ run' = [run EXCEPT ![f.from].landed =
                       @ \/ (run[f.from].at = "confirm" /\ run[f.from].sends = f.id)]
         /\ Execute(f.tx) \/ (~Executable(f.tx) /\ UNCHANGED chain)
  BY DEF Land
<1>2. TypeOK /\ f.from \in Terminal BY DEF MarketInv, TerminalsInv, FlyingFits
<1>3. AccountsStay
  <2>1. [Next]_vars BY TerminalsStep DEF MarketInv, TerminalsNext
  <2> QED BY <1>2, <2>1, NextStays
<1> DEFINE t == f.from
           told == run[t].landed \/ (run[t].at = "confirm" /\ run[t].sends = f.id)
           r == [run[t] EXCEPT !.landed = told]
<1>4. RunNamed(run[t]) /\ run[t].sends \in Nat BY <1>2 DEF Prepared
<1>5. /\ RunNamed(r) /\ r.sends = run[t].sends /\ r.cmd = run[t].cmd
      /\ r.at = run[t].at /\ r.then = run[t].then /\ r.landed = told
  BY <1>4 DEF RunNamed
<1>6. /\ DOMAIN run' = Terminal /\ run'[t] = r
      /\ \A u \in Terminal \ {t} : run'[u] = run[u]
  BY <1>1, <1>2 DEF Prepared
<1> HIDE DEF r
<1>7. ASSUME NEW u \in Terminal
      PROVE  /\ RunNamed(run'[u]) /\ run'[u].sends = run[u].sends
             /\ run'[u].cmd = run[u].cmd /\ run'[u].at = run[u].at
             /\ run'[u].then = run[u].then
             /\ run'[u].landed =
                   IF u = t THEN told ELSE run[u].landed
  <2>1. CASE u = t BY <1>5, <1>6, <2>1
  <2>2. CASE u # t BY <1>6, <2>2 DEF Prepared
  <2> QED BY <2>1, <2>2
<1>8. \A u \in Terminal : RunNamed(run'[u]) /\ run'[u].sends \in Nat
  BY <1>7 DEF Prepared
<1>9. ASSUME NEW g \in flying'
      PROVE  g.from \in Terminal /\ g.id \in Nat /\ g.id <= run'[g.from].sends
  BY <1>1, <1>7 DEF Prepared
<1>10. ASSUME NEW u \in Terminal PROVE RunReady(run[u], u)'
  <2>1. PICK c, at, next, id, done :
           /\ c = run[u].cmd /\ at = run[u].at /\ next = run[u].then
           /\ id = run[u].sends /\ done = run'[u].landed
    OBVIOUS
  <2>2. CommandFits(c) BY <2>1 DEF TerminalsInv, RunsFit, RunFits
  <2>3. RunReady(run[u], u) BY DEF Prepared
  <2>4. Ready(c, at, PayerOf[u])'
    BY <1>3, <2>1, <2>2, <2>3, ReadyStays DEF RunReady
  <2>5. ASSUME at = "confirm", NEW g \in flying', g.from = u, g.id = id
        PROVE  Awaited(g.tx, c, next, PayerOf[u])'
    BY <1>1, <1>3, <2>1, <2>2, <2>3, <2>5, ReadyStays DEF RunReady
  <2>6. ASSUME at = "confirm", done PROVE Ready(c, next, PayerOf[u])'
    <3>1. CASE run[u].landed
      BY <1>3, <2>1, <2>2, <2>3, <2>6, <3>1, ReadyStays DEF RunReady
    <3>2. CASE ~run[u].landed
      <4>1. u = f.from /\ f.id = id BY <1>7, <2>1, <2>6, <3>2
      <4>2. Awaited(f.tx, c, next, PayerOf[u])
        BY <2>1, <2>3, <2>6, <4>1 DEF RunReady
      <4>3. PayerOf[u] \in User BY TerminalsAssumption
      <4>4. c.name \in Preparing \cup {"make_offer"} => c.mint \in Mint
        BY <2>2 DEF CommandFits, NftCommands, Preparing
      <4>5. /\ c.name \in Preparing /\ next = "auction" => SellExists(c.mint)'
            /\ c.name \in Preparing /\ next = "send" => AuctionExists(c.mint)'
            /\ c.name = "make_offer" /\ next = "send" =>
                  OfferExists(c.mint, PayerOf[u])'
        BY <1>1, <1>2, <4>2, <4>3, <4>4, CreationLands DEF Awaited
      <4>6. c.name \in Preparing /\ next = "send" => SellExists(c.mint)'
        BY <1>3, <4>2, <4>4 DEF Awaited, AccountsStay
      <4> QED BY <4>5, <4>6 DEF Ready
    <3> QED BY <3>1, <3>2
  <2>7. /\ run'[u].cmd = c /\ run'[u].at = at /\ run'[u].then = next
        /\ run'[u].sends = id /\ run'[u].landed = done
    BY <1>7, <2>1
  <2> QED BY <2>4, <2>5, <2>6, <2>7 DEF RunReady
<1> QED BY <1>6, <1>8, <1>9, <1>10 DEF Prepared

LEMMA PreparedStep ==
  ASSUME Prepared, MarketInv, TerminalsInv, [TerminalsNext]_systemVars
  PROVE  Prepared'
<1>1. ASSUME UNCHANGED run, flying' \subseteq flying, AccountsStay
      PROVE  Prepared'
  <2>1. /\ DOMAIN run' = Terminal
        /\ \A t \in Terminal : RunNamed(run'[t]) /\ run'[t].sends \in Nat
        /\ \A f \in flying' : /\ f.from \in Terminal /\ f.id \in Nat
                              /\ f.id <= run'[f.from].sends
    BY <1>1 DEF Prepared
  <2>2. ASSUME NEW t \in Terminal PROVE RunReady(run[t], t)'
    <3>1. PICK r : r = run[t] OBVIOUS
    <3>2. CommandFits(r.cmd) BY <3>1 DEF TerminalsInv, RunsFit, RunFits
    <3>3. RunReady(r, t) BY <3>1 DEF Prepared
    <3>4. RunReady(r, t)' BY <1>1, <3>2, <3>3, ReadyStays DEF RunReady
    <3>5. run'[t] = r BY <1>1, <3>1
    <3> QED BY <3>4, <3>5
  <2> QED BY <2>1, <2>2 DEF Prepared
<1>2. AccountsStay
  <2>1. TypeOK /\ [Next]_vars BY TerminalsStep DEF MarketInv
  <2> QED BY <2>1, NextStays
<1>3. CASE UNCHANGED systemVars \/ (Tick /\ UNCHANGED <<tokens, commandVars>>)
  BY <1>1, <1>2, <1>3 DEF systemVars, commandVars
<1>4. CASE Expire BY <1>1, <1>2, <1>4 DEF Expire
<1> QED
  BY <1>3, <1>4, BeginningReady, StepReady, WaitingReady, LandReady
     DEF TerminalsNext

LEMMA PreparedStart ==
  ASSUME NEW people, TerminalsInit(people)
  PROVE  Prepared
<1>1. run = [t \in Terminal |-> Idle(people[t])] /\ flying = {}
  BY DEF TerminalsInit
<1>2. ASSUME NEW t \in Terminal
      PROVE  RunNamed(run[t]) /\ run[t].sends = 0 /\ run[t].at = "idle"
  BY <1>1 DEF RunNamed, Idle
<1>3. ASSUME NEW t \in Terminal PROVE RunReady(run[t], t)
  BY <1>2, NothingNeeded DEF RunReady
<1> QED BY <1>1, <1>2, <1>3 DEF Prepared

\* A listing, an auction or an offer is only sent once the accounts it needs
\* exist, at any number of terminals and whatever wallets they share: a
\* confirmed creation has either made its account or failed because another
\* terminal had made it, and no account ever goes away.
THEOREM AccountsCreatedBeforeUse ==
  ASSUME NEW people, \A t \in Terminal : LinesFit(people[t].lines)
  PROVE  MarketInv /\ TerminalsInit(people) /\ [][TerminalsNext]_systemVars
            => []CreatedBeforeUse
<1> DEFINE Inv == MarketInv /\ TerminalsInv /\ Prepared
<1>1. MarketInv /\ TerminalsInit(people) => Inv
  BY TerminalsStart, PreparedStart
<1>2. Inv /\ [TerminalsNext]_systemVars => Inv'
  <2> SUFFICES ASSUME Inv, [TerminalsNext]_systemVars PROVE Inv' OBVIOUS
  <2>1. TerminalsInv' /\ [Next]_vars BY TerminalsStep DEF MarketInv
  <2>2. MarketInv' BY <2>1, MarketStep
  <2>3. Prepared' BY PreparedStep
  <2> QED BY <2>1, <2>2, <2>3
<1>3. Inv => CreatedBeforeUse
  BY DEF CreatedBeforeUse, Prepared, RunReady, Ready, Preparing, At
<1> QED BY <1>1, <1>2, <1>3, PTL

-----------------------------------------------------------------------------
(***************************************************************************)
(* Token accounts.  A transaction creates one only for whom the NFT goes   *)
(* to, and the escrow has one exactly while it holds the NFT.              *)
(***************************************************************************)
Taking == {"listNftForSale", "createAuction"}
Giving == {"delistNft", "cancelAuction", "purchase", "claimAuction"}

\* Whom the NFT goes to.
Recipients(tx) ==
    CASE tx.ix \in Taking -> {GlobalAuthority}
      [] tx.ix \in Giving -> {Signer(tx)}
      [] tx.ix \in {"transfer", "transferFromVault"} -> {tx.accounts.recipient}
      [] tx.ix = "acceptOffer" -> {tx.accounts.buyer}
      [] OTHER -> {}

\* An NFT is taken into escrow from its owner's associated token account, or
\* the escrow's has to be created.
TxBuilt(tx) ==
    /\ AccountsNeeded(tx.ix) \subseteq DOMAIN tx.accounts
    /\ tx.creates \subseteq {<<w, MintOf(tx)>> : w \in Recipients(tx)}
    /\ tx.ix \in Taking =>
          /\ {"userTokenAccount", "destNftTokenAccount"} \subseteq DOMAIN tx.accounts
          /\ tx.accounts.destNftTokenAccount =
                getAssociatedTokenAccount(GlobalAuthority, MintOf(tx))
          /\ \/ tx.accounts.userTokenAccount =
                   getAssociatedTokenAccount(Signer(tx), MintOf(tx))
             \/ tx.creates # {}

FlyingBuilt == \A f \in flying : TxBuilt(f.tx)

\* An NFT listed beside a reserved auction is its seller's, who has a token
\* account for it.
EscrowAccounts ==
    /\ atas \subseteq (User \cup {GlobalAuthority}) \X Mint
    /\ \A m \in Mint :
        /\ <<GlobalAuthority, m>> \in atas <=> holder[m] = GlobalAuthority
        /\ sell[m].active = 1 /\ auction[m].status = 3 =>
              <<sell[m].seller, m>> \in atas

LEMMA WholeInstruction ==
  ASSUME NEW ix, NEW accts, NEW args, NEW remaining, NEW creates,
         NEW tx \in InstructionTo(ix, accts, args, remaining, creates)
  PROVE  /\ tx.ix = ix /\ tx.accounts = accts /\ tx.creates = creates
         /\ AccountsNeeded(tx.ix) \subseteq DOMAIN tx.accounts
BY DEF InstructionTo

\* Instructions that move no NFT.
LEMMA PlainBuilt ==
  ASSUME NEW ix, NEW accts, NEW args, NEW tx \in Plain(ix, accts, args),
         ix \notin Taking
  PROVE  TxBuilt(tx)
<1>1. /\ tx.ix = ix /\ tx.creates = {}
      /\ AccountsNeeded(tx.ix) \subseteq DOMAIN tx.accounts
  BY WholeInstruction DEF Plain
<1> QED BY <1>1 DEF TxBuilt

\* Every builder but those that move an NFT.
LEMMA AdministrationBuilt ==
  ASSUME NEW tx, NEW user
  PROVE  /\ tx \in createInitializeTx(user) => TxBuilt(tx)
         /\ \A fee : tx \in createUpdateFeeTx(user, fee) => TxBuilt(tx)
         /\ \A address, rate : tx \in createAddTreasuryTx(user, address, rate)
                                  => TxBuilt(tx)
         /\ \A address : tx \in createRemoveTreasuryTx(user, address) => TxBuilt(tx)
         /\ tx \in createInitUserTx(user) => TxBuilt(tx)
<1> DEFINE accts == [admin |-> user, globalAuthority |-> GlobalAuthority]
<1>1. tx \in createInitializeTx(user) => TxBuilt(tx)
  BY PlainBuilt DEF createInitializeTx, Taking
<1>2. ASSUME NEW fee, tx \in createUpdateFeeTx(user, fee) PROVE TxBuilt(tx)
  <2>1. PICK x : tx \in Plain("updateFee", accts, [solFee |-> x])
    BY <1>2 DEF createUpdateFeeTx
  <2> QED BY <2>1, PlainBuilt DEF Taking
<1>3. ASSUME NEW address, NEW rate, tx \in createAddTreasuryTx(user, address, rate)
      PROVE  TxBuilt(tx)
  <2>1. PICK x : tx \in Plain("addTeamTreasury", accts,
                              [address |-> address, rate |-> x])
    BY <1>3 DEF createAddTreasuryTx
  <2> QED BY <2>1, PlainBuilt DEF Taking
<1>4. \A address : tx \in createRemoveTreasuryTx(user, address) => TxBuilt(tx)
  BY PlainBuilt DEF createRemoveTreasuryTx, Taking
<1>5. tx \in createInitUserTx(user) => TxBuilt(tx)
  BY PlainBuilt DEF createInitUserTx, Taking
<1> QED BY <1>1, <1>2, <1>3, <1>4, <1>5

LEMMA CreatingBuilt ==
  ASSUME NEW tx, NEW user, NEW mint,
         \/ tx \in createInitSellDataTx(mint, user)
         \/ tx \in createInitAuctionDataTx(mint, user)
         \/ tx \in createInitOfferDataTx(mint, user)
  PROVE  TxBuilt(tx)
BY PlainBuilt
   DEF createInitSellDataTx, createInitAuctionDataTx, createInitOfferDataTx, Taking

LEMMA EscrowBuilt ==
  ASSUME NEW tx, NEW user, NEW sol,
         tx \in createDepositTx(user, sol) \/ tx \in createWithdrawTx(user, sol)
  PROVE  TxBuilt(tx)
<1> DEFINE accts == [owner |-> user, userPool |-> UserPDA(user),
                     escrowVault |-> EscrowVault]
<1>1. CASE tx \in createDepositTx(user, sol)
  <2>1. PICK x : tx \in Plain("depositToEscrow", accts, [sol |-> x])
    BY <1>1 DEF createDepositTx
  <2> QED BY <2>1, PlainBuilt DEF Taking
<1>2. CASE tx \in createWithdrawTx(user, sol)
  <2>1. PICK x : tx \in Plain("withdrawFromEscrow", accts, [sol |-> x])
    BY <1>2 DEF createWithdrawTx
  <2> QED BY <2>1, PlainBuilt DEF Taking
<1> QED BY <1>1, <1>2

LEMMA UnmovedBuilt ==
  ASSUME NEW tx, NEW user, NEW mint
  PROVE  /\ \A price : tx \in createSetPriceTx(mint, user, price) => TxBuilt(tx)
         /\ \A price : tx \in createMakeOfferTx(mint, user, price) => TxBuilt(tx)
         /\ \A price : tx \in createPlaceBidTx(mint, user, price) => TxBuilt(tx)
         /\ \A price : tx \in createUpdateReserveTx(mint, user, price) => TxBuilt(tx)
         /\ tx \in createCancelOfferTx(mint, user) => TxBuilt(tx)
<1>1. ASSUME NEW price, tx \in createSetPriceTx(mint, user, price)
      PROVE  TxBuilt(tx)
  <2>1. PICK accts, x : tx \in Plain("setPrice", accts, [price |-> x])
    BY <1>1 DEF createSetPriceTx
  <2> QED BY <2>1, PlainBuilt DEF Taking
<1>2. ASSUME NEW price, tx \in createMakeOfferTx(mint, user, price)
      PROVE  TxBuilt(tx)
  <2>1. PICK accts, x : tx \in Plain("makeOffer", accts, [price |-> x])
    BY <1>2 DEF createMakeOfferTx
  <2> QED BY <2>1, PlainBuilt DEF Taking
<1>3. ASSUME NEW price, tx \in createPlaceBidTx(mint, user, price)
      PROVE  TxBuilt(tx)
  <2> DEFINE accts(info) ==
        [bidder |-> user, auctionDataInfo |-> AuctionPDA(mint),
         nftMint |-> mint, escrowVault |-> EscrowVault,
         outBidder |-> IF info.last_bidder # Default THEN info.last_bidder ELSE user,
         sellDataInfo |-> SellPDA(mint)]
  <2>1. PICK info \in getAuctionDataState(mint), x \in U64Argument(price) :
           tx \in Plain("placeBid", accts(info), [price |-> x])
    BY <1>3 DEF createPlaceBidTx
  <2> QED BY <2>1, PlainBuilt DEF Taking
<1>4. ASSUME NEW price, tx \in createUpdateReserveTx(mint, user, price)
      PROVE  TxBuilt(tx)
  <2>1. PICK accts, x : tx \in Plain("updateReserve", accts, [price |-> x])
    BY <1>4 DEF createUpdateReserveTx
  <2> QED BY <2>1, PlainBuilt DEF Taking
<1>5. tx \in createCancelOfferTx(mint, user) => TxBuilt(tx)
  BY PlainBuilt DEF createCancelOfferTx, Taking
<1> QED BY <1>1, <1>2, <1>3, <1>4, <1>5

\* Instructions that move an NFT out of escrow, or from wallet to wallet.
LEMMA MovingBuilt ==
  ASSUME NEW ix, NEW accts, NEW args, NEW remaining, NEW mint, NEW owner,
         NEW tx \in InstructionTo(ix, accts, args, remaining,
                                  getATokenAccountsNeedCreate(owner, mint)),
         "nftMint" \in DOMAIN accts, accts.nftMint = mint, ix \notin Taking,
         \/ ix \in Giving /\ Signer(tx) = owner
         \/ ix \in {"transfer", "transferFromVault"} /\ accts.recipient = owner
         \/ ix = "acceptOffer" /\ accts.buyer = owner
  PROVE  TxBuilt(tx)
<1>1. /\ tx.ix = ix /\ tx.accounts = accts
      /\ tx.creates = getATokenAccountsNeedCreate(owner, mint)
      /\ AccountsNeeded(tx.ix) \subseteq DOMAIN tx.accounts
  BY WholeInstruction
<1>2. MintOf(tx) = mint BY <1>1 DEF MintOf
<1>3. Recipients(tx) = {owner} BY <1>1 DEF Recipients, Taking, Giving
<1> QED BY <1>1, <1>2, <1>3 DEF TxBuilt, getATokenAccountsNeedCreate

LEMMA TransferringBuilt ==
  ASSUME NEW tx, NEW user, NEW mint, NEW recipient
  PROVE  /\ tx \in createTransferTx(mint, user, recipient) => TxBuilt(tx)
         /\ tx \in createTransferFromVaultTx(mint, user, recipient) => TxBuilt(tx)
<1>1. ASSUME tx \in createTransferTx(mint, user, recipient) PROVE TxBuilt(tx)
  <2> DEFINE accts(source) ==
        [owner |-> user, userTokenAccount |-> source, recipient |-> recipient,
         destNftTokenAccount |-> getAssociatedTokenAccount(recipient, mint),
         nftMint |-> mint]
  <2>1. PICK source :
           tx \in InstructionTo("transfer", accts(source), NoArguments, <<>>,
                               getATokenAccountsNeedCreate(recipient, mint))
    BY <1>1 DEF createTransferTx
  <2>2. /\ "nftMint" \in DOMAIN accts(source) /\ accts(source).nftMint = mint
        /\ accts(source).recipient = recipient
    OBVIOUS
  <2> HIDE DEF accts
  <2> QED BY <2>1, <2>2, MovingBuilt DEF Taking
<1>2. ASSUME tx \in createTransferFromVaultTx(mint, user, recipient)
      PROVE  TxBuilt(tx)
  <2> DEFINE accts ==
        [owner |-> user, globalAuthority |-> GlobalAuthority,
         sellDataInfo |-> SellPDA(mint), recipient |-> recipient,
         userTokenAccount |-> getAssociatedTokenAccount(recipient, mint),
         destNftTokenAccount |-> getAssociatedTokenAccount(GlobalAuthority, mint),
         nftMint |-> mint]
  <2>1. tx \in InstructionTo("transferFromVault", accts, NoArguments, <<>>,
                             getATokenAccountsNeedCreate(recipient, mint))
    BY <1>2 DEF createTransferFromVaultTx
  <2>2. /\ "nftMint" \in DOMAIN accts /\ accts.nftMint = mint
        /\ accts.recipient = recipient
    OBVIOUS
  <2> HIDE DEF accts
  <2> QED BY <2>1, <2>2, MovingBuilt DEF Taking
<1> QED BY <1>1, <1>2

LEMMA ReturningBuilt ==
  ASSUME NEW tx, NEW user, NEW mint, Signer(tx) = user
  PROVE  /\ tx \in createDelistNftTx(mint, user) => TxBuilt(tx)
         /\ tx \in createCancelAuctionTx(mint, user) => TxBuilt(tx)
<1>1. ASSUME tx \in createDelistNftTx(mint, user) PROVE TxBuilt(tx)
  <2> DEFINE accts ==
        [owner |-> user, globalAuthority |-> GlobalAuthority,
         sellDataInfo |-> SellPDA(mint),
         userTokenAccount |-> getAssociatedTokenAccount(user, mint),
         destNftTokenAccount |-> getAssociatedTokenAccount(GlobalAuthority, mint),
         nftMint |-> mint, auctionDataInfo |-> AuctionPDA(mint)]
  <2>1. tx \in InstructionTo("delistNft", accts, NoArguments, <<>>,
                             getATokenAccountsNeedCreate(user, mint))
    BY <1>1 DEF createDelistNftTx
  <2>2. "nftMint" \in DOMAIN accts /\ accts.nftMint = mint OBVIOUS
  <2> HIDE DEF accts
  <2> QED BY <2>1, <2>2, MovingBuilt DEF Taking, Giving
<1>2. ASSUME tx \in createCancelAuctionTx(mint, user) PROVE TxBuilt(tx)
  <2> DEFINE accts ==
        [creator |-> user, globalAuthority |-> GlobalAuthority,
         auctionDataInfo |-> AuctionPDA(mint),
         userTokenAccount |-> getAssociatedTokenAccount(user, mint),
         destNftTokenAccount |-> getAssociatedTokenAccount(GlobalAuthority, mint),
         nftMint |-> mint, sellDataInfo |-> SellPDA(mint)]
  <2>1. tx \in InstructionTo("cancelAuction", accts, NoArguments, <<>>,
                             getATokenAccountsNeedCreate(user, mint))
    BY <1>2 DEF createCancelAuctionTx
  <2>2. "nftMint" \in DOMAIN accts /\ accts.nftMint = mint OBVIOUS
  <2> HIDE DEF accts
  <2> QED BY <2>1, <2>2, MovingBuilt DEF Taking, Giving
<1> QED BY <1>1, <1>2

LEMMA SaleBuilt ==
  ASSUME NEW tx, NEW user, NEW mint, NEW treasuries, Signer(tx) = user
  PROVE  /\ tx \in createPurchaseTx(mint, user, treasuries) => TxBuilt(tx)
         /\ tx \in createClaimAuctionTx(mint, user, treasuries) => TxBuilt(tx)
         /\ \A buyer : tx \in createAcceptOfferTx(mint, buyer, treasuries)
                          => TxBuilt(tx)
<1>1. ASSUME tx \in createPurchaseTx(mint, user, treasuries) PROVE TxBuilt(tx)
  <2> DEFINE accts(info) ==
        [buyer |-> user, globalAuthority |-> GlobalAuthority,
         buyerUserPool |-> UserPDA(user), sellDataInfo |-> SellPDA(mint),
         userNftTokenAccount |-> getAssociatedTokenAccount(user, mint),
         destNftTokenAccount |-> getAssociatedTokenAccount(GlobalAuthority, mint),
         nftMint |-> mint, seller |-> info.seller,
         sellerUserPool |-> UserPDA(info.seller),
         mintMetadata |-> getMetadata(mint), auctionDataInfo |-> AuctionPDA(mint)]
  <2>1. PICK info \in getNFTPoolState(mint),
             remaining \in RemainingAccounts(mint, treasuries) :
           tx \in InstructionTo("purchase", accts(info), NoArguments, remaining,
                               getATokenAccountsNeedCreate(user, mint))
    BY <1>1 DEF createPurchaseTx
  <2>2. "nftMint" \in DOMAIN accts(info) /\ accts(info).nftMint = mint OBVIOUS
  <2> HIDE DEF accts
  <2> QED BY <2>1, <2>2, MovingBuilt DEF Taking, Giving
<1>2. ASSUME tx \in createClaimAuctionTx(mint, user, treasuries) PROVE TxBuilt(tx)
  <2> DEFINE accts(info) ==
        [bidder |-> user, globalAuthority |-> GlobalAuthority,
         auctionDataInfo |-> AuctionPDA(mint),
         userTokenAccount |-> getAssociatedTokenAccount(user, mint),
         destNftTokenAccount |-> getAssociatedTokenAccount(GlobalAuthority, mint),
         nftMint |-> mint, escrowVault |-> EscrowVault, creator |-> info.creator,
         bidderUserPool |-> UserPDA(user), creatorUserPool |-> UserPDA(info.creator),
         mintMetadata |-> getMetadata(mint)]
  <2>1. PICK info \in getAuctionDataState(mint),
             remaining \in RemainingAccounts(mint, treasuries) :
           tx \in InstructionTo("claimAuction", accts(info), NoArguments, remaining,
                               getATokenAccountsNeedCreate(user, mint))
    BY <1>2 DEF createClaimAuctionTx
  <2>2. "nftMint" \in DOMAIN accts(info) /\ accts(info).nftMint = mint OBVIOUS
  <2> HIDE DEF accts
  <2> QED BY <2>1, <2>2, MovingBuilt DEF Taking, Giving
<1>3. ASSUME NEW buyer, tx \in createAcceptOfferTx(mint, buyer, treasuries)
      PROVE  TxBuilt(tx)
  <2> DEFINE accts(info) ==
        [seller |-> info.seller, sellDataInfo |-> SellPDA(mint), buyer |-> buyer,
         offerDataInfo |-> OfferPDA(mint, buyer),
         sellerUserPool |-> UserPDA(info.seller), nftMint |-> mint,
         globalAuthority |-> GlobalAuthority, buyerUserPool |-> UserPDA(buyer),
         userNftTokenAccount |-> getAssociatedTokenAccount(buyer, mint),
         destNftTokenAccount |-> getAssociatedTokenAccount(GlobalAuthority, mint),
         escrowVault |-> EscrowVault, mintMetadata |-> getMetadata(mint),
         auctionDataInfo |-> AuctionPDA(mint)]
  <2>1. PICK info \in getNFTPoolState(mint),
             remaining \in RemainingAccounts(mint, treasuries) :
           tx \in InstructionTo("acceptOffer", accts(info), NoArguments, remaining,
                               getATokenAccountsNeedCreate(buyer, mint))
    BY <1>3 DEF createAcceptOfferTx
  <2>2. /\ "nftMint" \in DOMAIN accts(info) /\ accts(info).nftMint = mint
        /\ accts(info).buyer = buyer
    OBVIOUS
  <2> HIDE DEF accts
  <2> QED BY <2>1, <2>2, MovingBuilt DEF Taking
<1> QED BY <1>1, <1>2, <1>3

LEMMA GlobalNoUser == GlobalAuthority \notin User
BY KeysAssumption

\* An NFT that is its sender's is not in escrow, which has no account for it
\* then; one that is not is named in his associated account.
LEMMA SourceNamed ==
  ASSUME EscrowAccounts, NEW mint \in Mint, NEW user \in User,
         NEW source \in SourceAccount(mint, user, TRUE)
  PROVE  \/ source = getAssociatedTokenAccount(user, mint)
         \/ getATokenAccountsNeedCreate(GlobalAuthority, mint) # {}
<1>1. CASE holder[mint] = user
  <2>1. <<GlobalAuthority, mint>> \notin atas
    BY <1>1, GlobalNoUser DEF EscrowAccounts
  <2> QED BY <2>1 DEF getATokenAccountsNeedCreate
<1>2. CASE holder[mint] # user
  BY <1>2 DEF SourceAccount, getOwnerOfNFT
<1> QED BY <1>1, <1>2

LEMMA TakingBuilt ==
  ASSUME EscrowAccounts, NEW tx, NEW user \in User, NEW mint \in Mint,
         Signer(tx) = user
  PROVE  /\ \A price : tx \in createListForSellNftTx(mint, user, price)
                          => TxBuilt(tx)
         /\ \A startPrice, minIncrease, duration, reserved :
               tx \in createCreateAuctionTx(mint, user, startPrice, minIncrease,
                                            duration, reserved)
                  => TxBuilt(tx)
<1>1. ASSUME NEW ix \in Taking, NEW accts, NEW args, NEW remaining,
             NEW source \in SourceAccount(mint, user, TRUE),
             tx \in InstructionTo(ix, accts, args, remaining,
                                  getATokenAccountsNeedCreate(GlobalAuthority, mint)),
             {"userTokenAccount", "destNftTokenAccount", "nftMint"}
                \subseteq DOMAIN accts,
             accts.nftMint = mint, accts.userTokenAccount = source,
             accts.destNftTokenAccount =
                getAssociatedTokenAccount(GlobalAuthority, mint)
      PROVE  TxBuilt(tx)
  <2>1. /\ tx.ix = ix /\ tx.accounts = accts
        /\ tx.creates = getATokenAccountsNeedCreate(GlobalAuthority, mint)
        /\ AccountsNeeded(tx.ix) \subseteq DOMAIN tx.accounts
    BY <1>1, WholeInstruction
  <2>2. MintOf(tx) = mint BY <1>1, <2>1 DEF MintOf
  <2>3. Recipients(tx) = {GlobalAuthority} BY <1>1, <2>1 DEF Recipients, Taking, Giving
  <2>4. tx.creates \subseteq {<<w, MintOf(tx)>> : w \in Recipients(tx)}
    BY <2>1, <2>2, <2>3 DEF getATokenAccountsNeedCreate
  <2> QED BY <1>1, <2>1, <2>2, <2>4, SourceNamed DEF TxBuilt
<1>2. ASSUME NEW price, tx \in createListForSellNftTx(mint, user, price)
      PROVE  TxBuilt(tx)
  <2> DEFINE accts(source) ==
        [owner |-> user, globalAuthority |-> GlobalAuthority,
         sellDataInfo |-> SellPDA(mint), userTokenAccount |-> source,
         destNftTokenAccount |-> getAssociatedTokenAccount(GlobalAuthority, mint),
         nftMint |-> mint, mintMetadata |-> getMetadata(mint),
         auctionDataInfo |-> AuctionPDA(mint)]
             txs(source, x) ==
               InstructionTo("listNftForSale", accts(source), [priceSol |-> x],
                     <<>>, getATokenAccountsNeedCreate(GlobalAuthority, mint))
             sources == SourceAccount(mint, user, TRUE)
             prices == IF price < 0 THEN {} ELSE U64Argument(price)
  <2>a. createListForSellNftTx(mint, user, price)
          = UNION {txs(source, x) : source \in sources, x \in prices}
    BY DEF createListForSellNftTx
  <2>1. PICK source \in sources, x \in prices : tx \in txs(source, x)
    <3> HIDE DEF txs, sources, prices
    <3> QED BY <1>2, <2>a
  <2>2. /\ {"userTokenAccount", "destNftTokenAccount", "nftMint"}
              \subseteq DOMAIN accts(source)
        /\ accts(source).nftMint = mint /\ accts(source).userTokenAccount = source
        /\ accts(source).destNftTokenAccount =
              getAssociatedTokenAccount(GlobalAuthority, mint)
    OBVIOUS
  <2>3. "listNftForSale" \in Taking BY DEF Taking
  <2> HIDE DEF accts
  <2> QED BY <1>1, <2>1, <2>2, <2>3
<1>3. ASSUME NEW startPrice, NEW minIncrease, NEW duration, NEW reserved,
             tx \in createCreateAuctionTx(mint, user, startPrice, minIncrease,
                                          duration, reserved)
      PROVE  TxBuilt(tx)
  <2> DEFINE accts(source) ==
        [owner |-> user, globalAuthority |-> GlobalAuthority,
         auctionDataInfo |-> AuctionPDA(mint), userTokenAccount |-> source,
         destNftTokenAccount |-> getAssociatedTokenAccount(GlobalAuthority, mint),
         nftMint |-> mint, sellDataInfo |-> SellPDA(mint)]
             args == [startPrice |-> startPrice, minIncrease |-> minIncrease,
                      duration |-> duration,
                      reserved |-> IF reserved THEN 1 ELSE 0]
  <2>1. PICK source \in SourceAccount(mint, user, TRUE) :
           tx \in InstructionTo("createAuction", accts(source), args,
                     <<>>, getATokenAccountsNeedCreate(GlobalAuthority, mint))
    BY <1>3 DEF createCreateAuctionTx
  <2>2. /\ {"userTokenAccount", "destNftTokenAccount", "nftMint"}
              \subseteq DOMAIN accts(source)
        /\ accts(source).nftMint = mint /\ accts(source).userTokenAccount = source
        /\ accts(source).destNftTokenAccount =
              getAssociatedTokenAccount(GlobalAuthority, mint)
    OBVIOUS
  <2>3. "createAuction" \in Taking BY DEF Taking
  <2> HIDE DEF accts, args
  <2> QED BY <1>1, <2>1, <2>2, <2>3
<1> QED BY <1>2, <1>3

LEMMA SendingBuilt ==
  ASSUME FlyingBuilt, NEW t \in Terminal, NEW step, NEW txs,
         \A tx \in txs : Signer(tx) = PayerOf[t] => TxBuilt(tx)
  PROVE  /\ Send(t, step, txs) => FlyingBuilt'
         /\ \A exists, next : Ensure(t, step, exists, txs, next) => FlyingBuilt'
<1>1. ASSUME NEW next, SendAnd(t, txs, next) PROVE FlyingBuilt'
  <2>1. PICK tx \in txs :
           /\ Signer(tx) = PayerOf[t]
           /\ flying' = flying \cup
                 {[from |-> t, id |-> run[t].sends + 1, tx |-> tx]}
    BY <1>1 DEF SendAnd
  <2>2. TxBuilt(tx) BY <2>1
  <2> QED BY <2>1, <2>2 DEF FlyingBuilt
<1> QED BY <1>1 DEF Send, Ensure, FlyingBuilt

LEMMA AdministrationSent ==
  ASSUME FlyingBuilt, NEW t \in Terminal, NEW user, NEW c,
         \/ initProject(t, user)
         \/ initUserPool(t, user)
         \/ updateFee(t, user, c)
         \/ addTreasury(t, user, c)
         \/ removeTreasury(t, user, c)
         \/ depositEscrow(t, user, c)
         \/ withdrawEscrow(t, user, c)
  PROVE  FlyingBuilt'
<1>1. CASE flying' = flying BY <1>1 DEF FlyingBuilt
<1>2. CASE initProject(t, user) \/ initUserPool(t, user)
  <2>1. \A tx \in createInitializeTx(user) \cup createInitUserTx(user) : TxBuilt(tx)
    BY AdministrationBuilt
  <2> QED BY <1>2, <2>1, SendingBuilt DEF initProject, initUserPool
<1>3. CASE updateFee(t, user, c)
  BY <1>3, AdministrationBuilt, SendingBuilt DEF updateFee
<1>4. CASE addTreasury(t, user, c)
  BY <1>4, AdministrationBuilt, SendingBuilt DEF addTreasury
<1>5. CASE removeTreasury(t, user, c)
  BY <1>5, AdministrationBuilt, SendingBuilt DEF removeTreasury
<1>6. CASE depositEscrow(t, user, c)
  BY <1>1, <1>6, EscrowBuilt, SendingBuilt DEF depositEscrow, CheckUser
<1>7. CASE withdrawEscrow(t, user, c)
  BY <1>1, <1>7, EscrowBuilt, SendingBuilt DEF withdrawEscrow, CheckUser
<1> QED BY <1>2, <1>3, <1>4, <1>5, <1>6, <1>7

LEMMA CreationSent ==
  ASSUME FlyingBuilt, NEW t \in Terminal, NEW user, NEW mint, NEW step, NEW next,
         \/ initSellData(t, user, mint, step, next)
         \/ initAuctionData(t, user, mint, step, next)
         \/ initOfferData(t, user, mint, step, next)
  PROVE  FlyingBuilt'
<1>1. CASE initSellData(t, user, mint, step, next)
  BY <1>1, CreatingBuilt, SendingBuilt DEF initSellData
<1>2. CASE initAuctionData(t, user, mint, step, next)
  BY <1>2, CreatingBuilt, SendingBuilt DEF initAuctionData
<1>3. CASE initOfferData(t, user, mint, step, next)
  BY <1>3, CreatingBuilt, SendingBuilt DEF initOfferData
<1> QED BY <1>1, <1>2, <1>3

\* The commands that name an NFT.
LEMMA ListingSent ==
  ASSUME EscrowAccounts, FlyingBuilt, NEW t \in Terminal, NEW user \in User,
         PayerOf[t] = user, NEW c, c.mint \in Mint,
         \/ transfer(t, user, c)
         \/ listNftForSale(t, user, c)
         \/ delistNft(t, user, c)
         \/ setPrice(t, user, c)
         \/ purchase(t, user, c)
  PROVE  FlyingBuilt'
<1>1. CASE flying' = flying BY <1>1 DEF FlyingBuilt
<1>2. CASE transfer(t, user, c)
  <2>1. CASE Send(t, "vault", createTransferFromVaultTx(c.mint, user, c.recipient))
    BY <2>1, TransferringBuilt, SendingBuilt
  <2>2. CASE Send(t, "wallet", createTransferTx(c.mint, user, c.recipient))
    BY <2>2, TransferringBuilt, SendingBuilt
  <2> QED BY <1>1, <1>2, <2>1, <2>2 DEF transfer
<1>3. CASE listNftForSale(t, user, c)
  <2>1. CASE Send(t, "send", createListForSellNftTx(c.mint, user, c.priceSol))
    BY <2>1, TakingBuilt, SendingBuilt
  <2> QED BY <1>1, <1>3, <2>1, CreationSent DEF listNftForSale, CheckUser
<1>4. CASE delistNft(t, user, c)
  <2>1. CASE Send(t, "send", createDelistNftTx(c.mint, user))
    BY <2>1, ReturningBuilt, SendingBuilt
  <2> QED BY <1>1, <1>4, <2>1 DEF delistNft, CheckUser
<1>5. CASE setPrice(t, user, c)
  <2>1. CASE Send(t, "send", createSetPriceTx(c.mint, user, c.newPrice))
    BY <2>1, UnmovedBuilt, SendingBuilt
  <2> QED BY <1>1, <1>5, <2>1 DEF setPrice, CheckUser
<1>6. CASE purchase(t, user, c)
  <2>1. CASE Send(t, "send", createPurchaseTx(c.mint, user, run[t].pool))
    BY <2>1, SaleBuilt, SendingBuilt
  <2> QED BY <1>1, <1>6, <2>1 DEF purchase, CheckUser, ReadPool
<1> QED BY <1>2, <1>3, <1>4, <1>5, <1>6

LEMMA OfferingSent ==
  ASSUME FlyingBuilt, NEW t \in Terminal, NEW user, PayerOf[t] = user, NEW c,
         \/ makeOffer(t, user, c)
         \/ cancelOffer(t, user, c)
         \/ acceptOffer(t, user, c)
  PROVE  FlyingBuilt'
<1>1. CASE flying' = flying BY <1>1 DEF FlyingBuilt
<1>2. CASE makeOffer(t, user, c)
  <2>1. CASE Send(t, "send", createMakeOfferTx(c.mint, user, c.price))
    BY <2>1, UnmovedBuilt, SendingBuilt
  <2> QED BY <1>1, <1>2, <2>1, CreationSent DEF makeOffer, CheckUser
<1>3. CASE cancelOffer(t, user, c)
  <2>1. CASE Send(t, "send", createCancelOfferTx(c.mint, user))
    BY <2>1, UnmovedBuilt, SendingBuilt
  <2> QED BY <1>1, <1>3, <2>1 DEF cancelOffer, CheckUser
<1>4. CASE acceptOffer(t, user, c)
  <2>1. CASE Send(t, "send", createAcceptOfferTx(c.mint, c.buyer, run[t].pool))
    BY <2>1, SaleBuilt, SendingBuilt
  <2> QED BY <1>1, <1>4, <2>1 DEF acceptOffer, CheckUser, ReadPool
<1> QED BY <1>2, <1>3, <1>4

LEMMA AuctioningSent ==
  ASSUME EscrowAccounts, FlyingBuilt, NEW t \in Terminal, NEW user \in User,
         PayerOf[t] = user, NEW c, c.mint \in Mint,
         \/ createAuction(t, user, c)
         \/ placeBid(t, user, c)
         \/ claimAuction(t, user, c)
         \/ updateReserve(t, user, c)
         \/ cancelAuction(t, user, c)
  PROVE  FlyingBuilt'
<1>1. CASE flying' = flying BY <1>1 DEF FlyingBuilt
<1>2. CASE createAuction(t, user, c)
  <2>1. CASE Send(t, "send",
                  createCreateAuctionTx(c.mint, user, c.startPrice, c.minIncrease,
                                        c.duration, c.reserved))
    BY <2>1, TakingBuilt, SendingBuilt
  <2> QED BY <1>1, <1>2, <2>1, CreationSent DEF createAuction, CheckUser
<1>3. CASE placeBid(t, user, c)
  <2>1. CASE Send(t, "send", createPlaceBidTx(c.mint, user, c.price))
    BY <2>1, UnmovedBuilt, SendingBuilt
  <2> QED BY <1>1, <1>3, <2>1 DEF placeBid, CheckUser
<1>4. CASE claimAuction(t, user, c)
  <2>1. CASE Send(t, "send", createClaimAuctionTx(c.mint, user, run[t].pool))
    BY <2>1, SaleBuilt, SendingBuilt
  <2> QED BY <1>1, <1>4, <2>1 DEF claimAuction, CheckUser, ReadPool
<1>5. CASE updateReserve(t, user, c)
  <2>1. CASE Send(t, "send", createUpdateReserveTx(c.mint, user, c.newPrice))
    BY <2>1, UnmovedBuilt, SendingBuilt
  <2> QED BY <1>1, <1>5, <2>1 DEF updateReserve, CheckUser
<1>6. CASE cancelAuction(t, user, c)
  <2>1. CASE Send(t, "send", createCancelAuctionTx(c.mint, user))
    BY <2>1, ReturningBuilt, SendingBuilt
  <2> QED BY <1>1, <1>6, <2>1 DEF cancelAuction, CheckUser
<1> QED BY <1>2, <1>3, <1>4, <1>5, <1>6

LEMMA StepBuilds ==
  ASSUME EscrowAccounts, TerminalsInv, FlyingBuilt, NEW t \in Terminal, Step(t)
  PROVE  FlyingBuilt'
<1> DEFINE user == PayerOf[t]
           c == run[t].cmd
<1>1. user \in User BY TerminalsAssumption
<1>2. c.name \in NftCommands => c.mint \in Mint
  BY DEF TerminalsInv, RunsFit, RunFits, CommandFits
<1>3. CASE Throw(t) \/ query(t)
  BY <1>3 DEF Throw, query, Return, FlyingBuilt
<1> HIDE DEF c
<1>4. CASE \/ initProject(t, user) \/ initUserPool(t, user)
           \/ updateFee(t, user, c) \/ addTreasury(t, user, c)
           \/ removeTreasury(t, user, c)
           \/ depositEscrow(t, user, c) \/ withdrawEscrow(t, user, c)
  BY <1>4, AdministrationSent
<1>5. CASE /\ c.name \in NftCommands
           /\ \/ transfer(t, user, c) \/ listNftForSale(t, user, c)
              \/ delistNft(t, user, c) \/ setPrice(t, user, c)
              \/ purchase(t, user, c)
  BY <1>1, <1>2, <1>5, ListingSent
<1>6. CASE \/ makeOffer(t, user, c) \/ cancelOffer(t, user, c)
           \/ acceptOffer(t, user, c)
  BY <1>6, OfferingSent
<1>7. CASE /\ c.name \in NftCommands
           /\ \/ createAuction(t, user, c) \/ placeBid(t, user, c)
              \/ claimAuction(t, user, c) \/ updateReserve(t, user, c)
              \/ cancelAuction(t, user, c)
  BY <1>1, <1>2, <1>7, AuctioningSent
<1> QED BY <1>3, <1>4, <1>5, <1>6, <1>7 DEF Step, NftCommands, c

-----------------------------------------------------------------------------
\* What an instruction does to the NFTs in escrow and to those that are both
\* listed and in a reserved auction: only a listing and an auction bring one
\* there.
EscrowMoves(tx) ==
    /\ \A m \in Mint :
          /\ holder[m] # GlobalAuthority /\ holder'[m] = GlobalAuthority =>
                tx.ix \in Taking /\ MintOf(tx) = m
          /\ sell'[m].active = 1 /\ auction'[m].status = 3 =>
                \/ /\ sell[m].active = 1 /\ auction[m].status = 3
                   /\ sell'[m].seller = sell[m].seller
                \/ /\ tx.ix \in Taking /\ MintOf(tx) = m
                   /\ holder[m] = GlobalAuthority
                   /\ sell'[m].seller = Signer(tx)
    /\ tx.ix \in Taking => holder'[MintOf(tx)] = GlobalAuthority

LEMMA NoneMoves ==
  ASSUME NEW tx, tx.ix \notin Taking, UNCHANGED holder,
         \A m \in Mint :
            /\ sell'[m].active = sell[m].active /\ sell'[m].seller = sell[m].seller
            /\ auction'[m].status = auction[m].status
  PROVE  EscrowMoves(tx)
BY DEF EscrowMoves

LEMMA EndListingMoves ==
  ASSUME TypeOK, NEW k \in Mint, EndListing(k)
  PROVE  \A m \in Mint :
            sell'[m].active = 1 /\ auction'[m].status = 3 =>
               /\ sell[m].active = 1 /\ auction[m].status = 3
               /\ sell'[m].seller = sell[m].seller
<1>1. /\ sell \in [Mint -> SellData] /\ auction \in [Mint -> AuctionData]
      /\ sell[k] \in SellData
  BY DEF TypeOK
<1>2. sell'[k].active = 0 BY <1>1 DEF EndListing, SellData
<1>3. \A m \in Mint \ {k} : sell'[m] = sell[m] /\ auction'[m] = auction[m]
  BY <1>1 DEF EndListing
<1> QED BY <1>2, <1>3

LEMMA ListingMoves ==
  ASSUME TypeOK, NEW tx, TxFits(tx), RunListing(tx)
  PROVE  EscrowMoves(tx)
<1> DEFINE user == Signer(tx)
           m == MintOf(tx)
<1>1. user \in User /\ m \in Mint
  BY DEF TxFits, RunListing, NftInstructions
<1>2. /\ sell \in [Mint -> SellData] /\ sell[m] \in SellData
      /\ holder \in [Mint -> User \cup {GlobalAuthority}]
  BY <1>1 DEF TypeOK
<1>3. ASSUME NEW u \in User, tx.ix \notin Taking,
             holder' = [holder EXCEPT ![m] = u],
             EndListing(m) \/ UNCHANGED <<sell, auction>>
      PROVE  EscrowMoves(tx)
  <2>1. \A k \in Mint : holder'[k] = GlobalAuthority => holder[k] = GlobalAuthority
    BY <1>1, <1>2, <1>3, GlobalNoUser
  <2>2. \A k \in Mint : sell'[k].active = 1 /\ auction'[k].status = 3 =>
               /\ sell[k].active = 1 /\ auction[k].status = 3
               /\ sell'[k].seller = sell[k].seller
    BY <1>1, <1>3, EndListingMoves
  <2> QED BY <1>3, <2>1, <2>2 DEF EscrowMoves
<1> HIDE DEF user, m
<1>4. ASSUME tx.ix = "listNftForSale", ListNftForSale(user, m, tx.args.priceSol)
      PROVE  EscrowMoves(tx)
  <2>1. holder'[m] = GlobalAuthority
    BY <1>1, <1>2, <1>4 DEF ListNftForSale
  <2>2. \A k \in Mint \ {m} : holder'[k] = holder[k] /\ sell'[k] = sell[k]
    BY <1>1, <1>2, <1>4 DEF ListNftForSale
  <2>3. UNCHANGED auction BY <1>4 DEF ListNftForSale
  <2>4. sell'[m].seller = user BY <1>1, <1>2, <1>4 DEF ListNftForSale
  <2>5. auction[m].status = 3 => holder[m] = GlobalAuthority
    BY <1>4 DEF ListNftForSale
  <2>6. tx.ix \in Taking BY <1>4 DEF Taking
  <2> QED BY <2>1, <2>2, <2>3, <2>4, <2>5, <2>6 DEF EscrowMoves, m, user
<1>5. ASSUME tx.ix = "delistNft", DelistNft(user, m) PROVE EscrowMoves(tx)
  <2>1. \A k \in Mint : holder'[k] = GlobalAuthority => holder[k] = GlobalAuthority
    BY <1>1, <1>2, <1>5, GlobalNoUser DEF DelistNft
  <2>2. sell'[m].active = 0 /\ \A k \in Mint \ {m} : sell'[k] = sell[k]
    BY <1>1, <1>2, <1>5 DEF DelistNft, SellData
  <2>3. UNCHANGED auction BY <1>5 DEF DelistNft
  <2>4. tx.ix \notin Taking BY <1>5 DEF Taking
  <2> QED BY <2>1, <2>2, <2>3, <2>4 DEF EscrowMoves
<1>6. ASSUME tx.ix = "setPrice", SetPrice(user, m, tx.args.price)
      PROVE  EscrowMoves(tx)
  <2>1. \A k \in Mint : /\ sell'[k].active = sell[k].active
                        /\ sell'[k].seller = sell[k].seller
    BY <1>1, <1>2, <1>6 DEF SetPrice, SellData
  <2> QED BY <1>6, <2>1, NoneMoves DEF SetPrice, Taking
<1>7. ASSUME tx.ix = "transfer", TransferNft(user, tx.accounts.recipient, m)
      PROVE  EscrowMoves(tx)
  <2>1. tx.accounts.recipient \in User BY <1>7 DEF TxFits
  <2> QED BY <1>3, <1>7, <2>1 DEF TransferNft, accounts, Taking
<1>8. ASSUME tx.ix = "transferFromVault",
             TransferFromVault(user, tx.accounts.recipient, m)
      PROVE  EscrowMoves(tx)
  <2>1. tx.accounts.recipient \in User BY <1>8 DEF TxFits
  <2> QED BY <1>3, <1>8, <2>1 DEF TransferFromVault, Taking
<1>9. ASSUME tx.ix = "purchase", NEW legs, PurchaseNaming(user, m, legs)
      PROVE  EscrowMoves(tx)
  BY <1>1, <1>3, <1>9 DEF PurchaseNaming, Taking
<1> QED BY <1>4, <1>5, <1>6, <1>7, <1>8, <1>9 DEF RunListing, user, m

LEMMA OfferingMoves ==
  ASSUME TypeOK, NEW tx, TxFits(tx), RunOffering(tx)
  PROVE  EscrowMoves(tx)
<1> DEFINE user == Signer(tx)
           m == MintOf(tx)
           buyer == tx.accounts.buyer
<1>1. m \in Mint BY DEF TxFits, RunOffering, NftInstructions
<1>2. tx.ix \notin Taking BY DEF RunOffering, Taking
<1>3. CASE UNCHANGED <<holder, sell, auction>>
  BY <1>2, <1>3, NoneMoves
<1> HIDE DEF user, m, buyer
<1>4. ASSUME tx.ix = "acceptOffer", NEW legs, AcceptOfferNaming(user, buyer, m, legs)
      PROVE  EscrowMoves(tx)
  <2>1. buyer \in User BY <1>4 DEF TxFits, buyer
  <2>2. holder \in [Mint -> User \cup {GlobalAuthority}] BY DEF TypeOK
  <2>3. holder' = [holder EXCEPT ![m] = buyer] /\ EndListing(m)
    BY <1>4 DEF AcceptOfferNaming
  <2>4. \A k \in Mint : holder'[k] = GlobalAuthority => holder[k] = GlobalAuthority
    BY <1>1, <2>1, <2>2, <2>3, GlobalNoUser
  <2> QED BY <1>1, <1>2, <2>3, <2>4, EndListingMoves DEF EscrowMoves
<1> QED
  BY <1>3, <1>4 DEF RunOffering, MakeOffer, CancelOffer, user, m, buyer

LEMMA AuctioningMoves ==
  ASSUME TypeOK, NEW tx, TxFits(tx), RunAuctioning(tx)
  PROVE  EscrowMoves(tx)
<1> DEFINE user == Signer(tx)
           m == MintOf(tx)
<1>1. user \in User /\ m \in Mint
  BY DEF TxFits, RunAuctioning, NftInstructions
<1>2. /\ sell \in [Mint -> SellData] /\ sell[m] \in SellData
      /\ auction \in [Mint -> AuctionData] /\ auction[m] \in AuctionData
      /\ holder \in [Mint -> User \cup {GlobalAuthority}]
  BY <1>1 DEF TypeOK
<1> HIDE DEF user, m
<1>3. ASSUME tx.ix = "createAuction",
             CreateAuction(user, m, tx.args.startPrice, tx.args.minIncrease,
                           tx.args.duration, tx.args.reserved)
      PROVE  EscrowMoves(tx)
  <2>1. holder'[m] = GlobalAuthority BY <1>1, <1>2, <1>3 DEF CreateAuction
  <2>2. \A k \in Mint \ {m} : holder'[k] = holder[k] /\ auction'[k] = auction[k]
    BY <1>1, <1>2, <1>3 DEF CreateAuction
  <2>3. UNCHANGED sell BY <1>3 DEF CreateAuction
  <2>4. sell[m].active = 1 => sell[m].seller = user /\ holder[m] = GlobalAuthority
    BY <1>3 DEF CreateAuction
  <2>5. tx.ix \in Taking BY <1>3 DEF Taking
  <2> QED BY <2>1, <2>2, <2>3, <2>4, <2>5 DEF EscrowMoves, m, user
<1>4. ASSUME tx.ix \notin Taking,
             \A k \in Mint : holder'[k] = GlobalAuthority => holder[k] = GlobalAuthority,
             auction'[m].status # 3,
             \A k \in Mint \ {m} : auction'[k] = auction[k] /\ sell'[k] = sell[k]
      PROVE  EscrowMoves(tx)
  BY <1>4 DEF EscrowMoves
<1>5. ASSUME tx.ix = "placeBid", NEW out,
             PlaceBidRefunding(user, m, tx.args.price, out)
      PROVE  EscrowMoves(tx)
  <2>1. auction' = [auction EXCEPT ![m] = AfterBid(auction[m], user, tx.args.price)]
    BY <1>5 DEF PlaceBidRefunding
  <2>2. AfterBid(auction[m], user, tx.args.price).status = 1
    BY <1>2 DEF AfterBid, AuctionData
  <2>3. auction'[m].status = 1 BY <1>1, <1>2, <2>1, <2>2
  <2>4. \A k \in Mint \ {m} : auction'[k] = auction[k] BY <1>2, <2>1
  <2>5. /\ \A k \in Mint \ {m} : sell'[k] = sell[k]
        /\ UNCHANGED holder
    BY <1>2, <1>5 DEF PlaceBidRefunding
  <2> QED BY <1>4, <1>5, <2>3, <2>4, <2>5 DEF Taking
<1>6. ASSUME tx.ix = "claimAuction", NEW legs, ClaimAuctionNaming(user, m, legs)
      PROVE  EscrowMoves(tx)
  <2>1. \A k \in Mint : holder'[k] = GlobalAuthority => holder[k] = GlobalAuthority
    BY <1>1, <1>2, <1>6, GlobalNoUser DEF ClaimAuctionNaming
  <2>2. auction'[m].status = 2 /\ \A k \in Mint \ {m} : auction'[k] = auction[k]
    BY <1>1, <1>2, <1>6 DEF ClaimAuctionNaming, AuctionData
  <2>3. UNCHANGED sell BY <1>6 DEF ClaimAuctionNaming
  <2> QED BY <1>4, <1>6, <2>1, <2>2, <2>3 DEF Taking
<1>7. ASSUME tx.ix = "updateReserve", UpdateReserve(user, m, tx.args.price)
      PROVE  EscrowMoves(tx)
  <2>1. \A k \in Mint : auction'[k].status = auction[k].status
    BY <1>1, <1>2, <1>7 DEF UpdateReserve, AuctionData
  <2> QED BY <1>7, <2>1, NoneMoves DEF UpdateReserve, Taking
<1>8. ASSUME tx.ix = "cancelAuction", CancelAuction(user, m) PROVE EscrowMoves(tx)
  <2>1. \A k \in Mint : holder'[k] = GlobalAuthority => holder[k] = GlobalAuthority
    BY <1>1, <1>2, <1>8, GlobalNoUser DEF CancelAuction
  <2>2. auction'[m].status = 0 /\ \A k \in Mint \ {m} : auction'[k] = auction[k]
    BY <1>1, <1>2, <1>8 DEF CancelAuction, AuctionData
  <2>3. UNCHANGED sell BY <1>8 DEF CancelAuction
  <2> QED BY <1>4, <1>8, <2>1, <2>2, <2>3 DEF Taking
<1> QED BY <1>3, <1>5, <1>6, <1>7, <1>8 DEF RunAuctioning, user, m

LEMMA ExecuteMoves ==
  ASSUME TypeOK, NEW tx, TxFits(tx), Execute(tx)
  PROVE  EscrowMoves(tx)
<1>1. CASE RunAdministration(tx)
  BY <1>1, NoneMoves DEF RunAdministration, MarketUnchanged, accounts, Taking
<1>2. CASE RunCreation(tx)
  <2>1. tx.ix \notin Taking /\ UNCHANGED holder
    BY <1>2 DEF RunCreation, InitUserPool, InitSellData, InitAuctionData,
                InitOfferData, Taking
  <2>2. sell \in [Mint -> SellData] /\ auction \in [Mint -> AuctionData]
    BY DEF TypeOK
  <2>3. \A m \in Mint : /\ sell'[m].active = sell[m].active
                        /\ sell'[m].seller = sell[m].seller
                        /\ auction'[m].status = auction[m].status
    BY <1>2, <2>2 DEF RunCreation, InitUserPool, InitSellData, InitAuctionData,
                      InitOfferData, SellData, AuctionData
  <2> QED BY <2>1, <2>3, NoneMoves
<1>3. CASE RunEscrow(tx)
  BY <1>3, NoneMoves
     DEF RunEscrow, DepositToEscrow, WithdrawFromEscrow, Taking
<1> QED BY <1>1, <1>2, <1>3, ListingMoves, OfferingMoves, AuctioningMoves DEF Execute

\* The token account a transaction names is one that exists or one it brings
\* along.
LEMMA NamedExists ==
  ASSUME EscrowAccounts, NEW tx, tx.creates \subseteq (User \cup {GlobalAuthority}) \X Mint,
         TokenAccountsExist(tx), NEW name \in TokenAccountNames,
         name \in DOMAIN tx.accounts, NEW w, NEW m,
         tx.accounts[name] = getAssociatedTokenAccount(w, m)
  PROVE  <<w, m>> \in atas \cup tx.creates
<1>1. tx.accounts[name] \in
         {getAssociatedTokenAccount(p[1], p[2]) : p \in atas \cup tx.creates}
         \cup {AuxiliaryAccount(MintOf(tx))}
  BY DEF TokenAccountsExist
<1>2. getAssociatedTokenAccount(w, m) # AuxiliaryAccount(MintOf(tx))
  BY DEF getAssociatedTokenAccount, AuxiliaryAccount
<1>3. PICK p \in atas \cup tx.creates :
         getAssociatedTokenAccount(w, m) = getAssociatedTokenAccount(p[1], p[2])
  BY <1>1, <1>2
<1>4. p \in (User \cup {GlobalAuthority}) \X Mint BY DEF EscrowAccounts
<1>5. p = <<p[1], p[2]>> BY <1>4
<1>6. p[1] = w /\ p[2] = m BY <1>3 DEF getAssociatedTokenAccount
<1> QED BY <1>5, <1>6

\* Only an instruction that takes an NFT creates the escrow's account for it.
LEMMA CreatedFor ==
  ASSUME NEW tx, TxFits(tx), TxBuilt(tx)
  PROVE  /\ tx.creates \subseteq (User \cup {GlobalAuthority}) \X Mint
         /\ \A m : <<GlobalAuthority, m>> \in tx.creates =>
               tx.ix \in Taking /\ MintOf(tx) = m
<1>1. ASSUME NEW p \in tx.creates
      PROVE  /\ p \in (User \cup {GlobalAuthority}) \X Mint
             /\ \A m : p = <<GlobalAuthority, m>> =>
                          tx.ix \in Taking /\ MintOf(tx) = m
  <2>1. PICK w \in Recipients(tx) : p = <<w, MintOf(tx)>> BY <1>1 DEF TxBuilt
  <2>2. Signer(tx) \in User BY DEF TxFits
  <2>3. tx.ix \in {"transfer", "transferFromVault"} => tx.accounts.recipient \in User
    BY DEF TxFits
  <2>4. tx.ix = "acceptOffer" => tx.accounts.buyer \in User BY DEF TxFits
  <2>5. /\ tx.ix \in NftInstructions
        /\ w \in User \/ (tx.ix \in Taking /\ w = GlobalAuthority)
    BY <2>1, <2>2, <2>3, <2>4 DEF Recipients, Taking, Giving, NftInstructions
  <2>6. MintOf(tx) \in Mint BY <2>5 DEF TxFits
  <2> QED BY <2>1, <2>5, <2>6, GlobalNoUser
<1> QED BY <1>1

\* What takes an NFT finds it at the account of its owner that it names, and
\* brings it to the escrow's; the escrow's is closed when the NFT leaves it.
LEMMA LandingAccounts ==
  ASSUME TypeOK, PartiesKnown, EscrowAccounts,
         NEW tx, TxFits(tx), TxBuilt(tx), Execute(tx)
  PROVE  EscrowAccounts'
<1> DEFINE created == tx.creates
           closed == {<<GlobalAuthority, m>> :
                         m \in {x \in Mint : /\ holder[x] = GlobalAuthority
                                             /\ holder'[x] # GlobalAuthority}}
<1>1. atas' = (atas \cup created) \ closed BY DEF Execute, TokenAccountsAfter
<1>2. EscrowMoves(tx) BY ExecuteMoves
<1>3. /\ created \subseteq (User \cup {GlobalAuthority}) \X Mint
      /\ \A m : <<GlobalAuthority, m>> \in created =>
            tx.ix \in Taking /\ MintOf(tx) = m
  BY CreatedFor
<1>4. TokenAccountsExist(tx) /\ created \cap atas = {} BY DEF Execute, AccountsFit
<1>5. tx.ix \in Taking =>
         /\ <<GlobalAuthority, MintOf(tx)>> \in atas \cup created
         /\ \/ <<Signer(tx), MintOf(tx)>> \in atas \cup created
            \/ created # {}
  <2> SUFFICES ASSUME tx.ix \in Taking
               PROVE  /\ <<GlobalAuthority, MintOf(tx)>> \in atas \cup created
                      /\ \/ <<Signer(tx), MintOf(tx)>> \in atas \cup created
                         \/ created # {}
    OBVIOUS
  <2>1. {"userTokenAccount", "destNftTokenAccount"}
           \subseteq TokenAccountNames \cap DOMAIN tx.accounts
    BY DEF TxBuilt, TokenAccountNames
  <2>2. <<GlobalAuthority, MintOf(tx)>> \in atas \cup created
    <3>1. tx.accounts["destNftTokenAccount"] =
             getAssociatedTokenAccount(GlobalAuthority, MintOf(tx))
      BY DEF TxBuilt
    <3> QED BY <1>3, <1>4, <2>1, <3>1, NamedExists
  <2>3. CASE tx.accounts["userTokenAccount"] =
                getAssociatedTokenAccount(Signer(tx), MintOf(tx))
    BY <1>3, <1>4, <2>1, <2>2, <2>3, NamedExists
  <2> QED BY <2>2, <2>3 DEF TxBuilt
<1> HIDE DEF created
<1>6. atas' \subseteq (User \cup {GlobalAuthority}) \X Mint
  BY <1>1, <1>3 DEF EscrowAccounts
<1>7. ASSUME NEW m \in Mint
      PROVE  <<GlobalAuthority, m>> \in atas' <=> holder'[m] = GlobalAuthority
  <2>1. <<GlobalAuthority, m>> \in closed <=>
           holder[m] = GlobalAuthority /\ holder'[m] # GlobalAuthority
    OBVIOUS
  <2>2. <<GlobalAuthority, m>> \in atas <=> holder[m] = GlobalAuthority
    BY DEF EscrowAccounts
  <2> HIDE DEF closed
  <2> QED BY <1>1, <1>2, <1>3, <1>5, <2>1, <2>2 DEF EscrowMoves
<1>8. ASSUME NEW m \in Mint, sell'[m].active = 1, auction'[m].status = 3
      PROVE  <<sell'[m].seller, m>> \in atas'
  <2>1. \A u \in User : <<u, m>> \notin closed BY GlobalNoUser
  <2> HIDE DEF closed
  <2>2. CASE /\ sell[m].active = 1 /\ auction[m].status = 3
             /\ sell'[m].seller = sell[m].seller
    <3>1. <<sell[m].seller, m>> \in atas BY <2>2 DEF EscrowAccounts
    <3>2. sell[m].seller \in User BY <2>2 DEF PartiesKnown, Listed
    <3> QED BY <1>1, <2>1, <2>2, <3>1, <3>2
  <2>3. CASE /\ tx.ix \in Taking /\ MintOf(tx) = m
             /\ holder[m] = GlobalAuthority
             /\ sell'[m].seller = Signer(tx)
    <3>1. <<GlobalAuthority, m>> \in atas BY <2>3 DEF EscrowAccounts
    <3>2. created \subseteq {<<GlobalAuthority, m>>}
      BY <2>3 DEF TxBuilt, Recipients, Taking, Giving, created
    <3>3. created = {} BY <1>4, <3>1, <3>2
    <3>4. Signer(tx) \in User BY DEF TxFits
    <3> QED BY <1>1, <1>5, <2>1, <2>3, <3>3, <3>4
  <2> QED BY <1>2, <1>8, <2>2, <2>3 DEF EscrowMoves
<1> QED BY <1>6, <1>7, <1>8 DEF EscrowAccounts

LEMMA EscrowStep ==
  ASSUME TypeOK, CustodyInv, TerminalsInv, FlyingBuilt, EscrowAccounts,
         [TerminalsNext]_systemVars
  PROVE  FlyingBuilt' /\ EscrowAccounts'
<1>1. PartiesKnown BY DEF CustodyInv
<1>2. CASE flying' \subseteq flying /\ UNCHANGED chain
  BY <1>2 DEF FlyingBuilt, EscrowAccounts, chain, vars, accounts, tokens
<1>3. ASSUME NEW t \in Terminal, Step(t) PROVE FlyingBuilt' /\ EscrowAccounts'
  <2>1. UNCHANGED chain BY <1>3 DEF Step
  <2> QED BY <1>3, <2>1, StepBuilds
          DEF EscrowAccounts, chain, vars, accounts, tokens
<1>4. CASE Tick /\ UNCHANGED <<tokens, commandVars>>
  BY <1>4 DEF FlyingBuilt, EscrowAccounts, Tick, accounts, tokens, commandVars
<1>5. CASE Land
  <2>1. PICK f \in flying : /\ flying' = flying \ {f}
                            /\ Execute(f.tx) \/ UNCHANGED chain
    BY <1>5 DEF Land
  <2>2. TxFits(f.tx) /\ TxBuilt(f.tx)
    BY DEF TerminalsInv, FlyingFits, FlyingBuilt
  <2>3. CASE Execute(f.tx)
    BY <1>1, <2>1, <2>2, <2>3, LandingAccounts DEF FlyingBuilt
  <2> QED BY <1>2, <2>1, <2>3
<1> QED
  BY <1>2, <1>3, <1>4, <1>5
     DEF TerminalsNext, Start, Confirm, TimeOut, Return, Expire, systemVars, chain

\* The invariant of the system that trades.
FlightInv ==
    MarketInv /\ CustodyInv /\ TerminalsInv /\ FlyingBuilt /\ EscrowAccounts

LEMMA FlightStep ==
  ASSUME FlightInv, [TerminalsNext]_systemVars
  PROVE  FlightInv' /\ [Next]_vars
<1>1. /\ MarketInv /\ TypeOK /\ CustodyInv /\ TerminalsInv
      /\ FlyingBuilt /\ EscrowAccounts
  BY DEF FlightInv, MarketInv
<1>2. TerminalsInv' /\ [Next]_vars BY <1>1, TerminalsStep
<1>3. MarketInv' /\ CustodyInv' BY <1>1, <1>2, MarketStep, CustodyStep
<1>4. FlyingBuilt' /\ EscrowAccounts' BY <1>1, EscrowStep
<1> QED BY <1>2, <1>3, <1>4 DEF FlightInv

LEMMA EscrowStart ==
  ASSUME Init, atas \subseteq User \X Mint
  PROVE  EscrowAccounts
<1>1. ASSUME NEW m \in Mint
      PROVE  /\ <<GlobalAuthority, m>> \notin atas /\ holder[m] # GlobalAuthority
             /\ sell[m].active = 0
  BY GlobalNoUser DEF Init, NoSellData
<1> QED BY <1>1 DEF EscrowAccounts

\* The escrow has a token account for exactly the NFTs it holds, however the
\* transactions of the terminals follow one another, so that a listing or an
\* auction that brings one to it creates the account in the same transaction;
\* a seller whose NFT is listed beside a reserved auction has one as well.
THEOREM EscrowAccountsKept ==
  ASSUME NEW people, \A t \in Terminal : LinesFit(people[t].lines)
  PROVE  MarketInv /\ CustodyInv /\ EscrowAccounts /\ TerminalsInit(people)
            /\ [][TerminalsNext]_systemVars => []EscrowAccounts
<1>1. MarketInv /\ CustodyInv /\ EscrowAccounts /\ TerminalsInit(people)
         => FlightInv
  BY TerminalsStart DEF FlightInv, TerminalsInit, FlyingBuilt
<1>2. FlightInv /\ [TerminalsNext]_systemVars => FlightInv' BY FlightStep
<1>3. FlightInv => EscrowAccounts BY DEF FlightInv
<1> QED BY <1>1, <1>2, <1>3, PTL
=============================================================================
