----------------------------- MODULE Interface -----------------------------
(***************************************************************************)
(* The interface description Anchor generates and both clients are built   *)
(* from (target/types/mds_marketplace.ts): what an instruction's accounts  *)
(* are called and in which order they travel, what its arguments are and   *)
(* how wide, and how the program's accounts lie in memory.  The first      *)
(* account of every instruction is its only signer.  Whether an account is *)
(* writable is left out, and so are the error codes.                       *)
(*                                                                         *)
(* Use it as IDL == INSTANCE Interface: it repeats names of the program.   *)
(***************************************************************************)
EXTENDS Integers, Sequences

U8(name) == <<name, "u8">>
U64(name) == <<name, "u64">>
I64(name) == <<name, "i64">>
PublicKey(name) == <<name, "publicKey">>

Instruction(names, arguments) == [accounts |-> names, args |-> arguments]

-----------------------------------------------------------------------------
initialize ==
    Instruction(
      <<"admin", "globalAuthority", "escrowVault", "systemProgram", "rent">>,
      <<U8("globalBump"), U8("escrowBump")>>)

updateFee ==
    Instruction(
      <<"admin", "globalAuthority">>,
      <<U8("globalBump"), U64("solFee")>>)

addTeamTreasury ==
    Instruction(
      <<"admin", "globalAuthority">>,
      <<U8("globalBump"), PublicKey("address"), U64("rate")>>)

removeTeamTreasury ==
    Instruction(
      <<"admin", "globalAuthority">>,
      <<U8("globalBump"), PublicKey("address")>>)

initUserPool ==
    Instruction(
      <<"owner", "userPool", "systemProgram", "rent">>,
      <<U8("bump")>>)

initSellData ==
    Instruction(
      <<"payer", "sellDataInfo", "systemProgram", "rent">>,
      <<PublicKey("nft"), U8("bump")>>)

listNftForSale ==
    Instruction(
      <<"owner", "globalAuthority", "sellDataInfo", "userTokenAccount",
        "destNftTokenAccount", "nftMint", "mintMetadata", "tokenProgram",
        "tokenMetadataProgram", "auctionDataInfo">>,
      <<U8("globalBump"), U8("sellBump"), U8("auctionBump"), U64("priceSol")>>)

delistNft ==
    Instruction(
      <<"owner", "globalAuthority", "sellDataInfo", "userTokenAccount",
        "destNftTokenAccount", "nftMint", "tokenProgram", "auctionDataInfo">>,
      <<U8("globalBump"), U8("sellBump")>>)

setPrice ==
    Instruction(
      <<"owner", "sellDataInfo", "nftMint">>,
      <<U8("sellBump"), U64("price")>>)

transfer ==
    Instruction(
      <<"owner", "userTokenAccount", "recipient", "destNftTokenAccount",
        "nftMint", "tokenProgram">>,
      <<>>)

transferFromVault ==
    Instruction(
      <<"owner", "globalAuthority", "sellDataInfo", "recipient",
        "userTokenAccount", "destNftTokenAccount", "nftMint", "tokenProgram",
        "auctionDataInfo">>,
      <<U8("globalBump"), U8("sellBump")>>)

purchase ==
    Instruction(
      <<"buyer", "globalAuthority", "sellDataInfo", "buyerUserPool",
        "userNftTokenAccount", "destNftTokenAccount", "seller",
        "sellerUserPool", "nftMint", "mintMetadata", "tokenProgram",
        "systemProgram", "tokenMetadataProgram", "auctionDataInfo">>,
      <<U8("globalBump"), U8("nftBump"), U8("sellerBump"), U8("buyerBump")>>)

depositToEscrow ==
    Instruction(
      <<"owner", "userPool", "escrowVault", "systemProgram">>,
      <<U8("userBump"), U8("escrowBump"), U64("sol")>>)

withdrawFromEscrow ==
    Instruction(
      <<"owner", "userPool", "escrowVault", "systemProgram">>,
      <<U8("userBump"), U8("escrowBump"), U64("sol")>>)

initOfferData ==
    Instruction(
      <<"payer", "offerDataInfo", "systemProgram", "rent">>,
      <<PublicKey("nft"), U8("bump")>>)

makeOffer ==
    Instruction(
      <<"owner", "sellDataInfo", "offerDataInfo", "nftMint", "userPool",
        "escrowVault", "systemProgram">>,
      <<U8("sellBump"), U8("offerBump"), U8("userBump"), U8("escrowBump"),
        U64("price")>>)

cancelOffer ==
    Instruction(
      <<"owner", "offerDataInfo", "nftMint">>,
      <<U8("offerBump")>>)

acceptOffer ==
    Instruction(
      <<"seller", "sellDataInfo", "buyer", "offerDataInfo", "sellerUserPool",
        "nftMint", "globalAuthority", "buyerUserPool", "userNftTokenAccount",
        "destNftTokenAccount", "escrowVault", "mintMetadata", "tokenProgram",
        "systemProgram", "tokenMetadataProgram", "auctionDataInfo">>,
      <<U8("globalBump"), U8("nftBump"), U8("offerBump"), U8("buyerBump"),
        U8("sellerBump"), U8("escrowBump")>>)

initAuctionData ==
    Instruction(
      <<"payer", "auctionDataInfo", "systemProgram", "rent">>,
      <<PublicKey("nft"), U8("bump")>>)

createAuction ==
    Instruction(
      <<"owner", "globalAuthority", "auctionDataInfo", "userTokenAccount",
        "destNftTokenAccount", "nftMint", "tokenProgram", "sellDataInfo">>,
      <<U8("globalBump"), U8("auctionBump"), U8("sellBump"),
        U64("startPrice"), U64("minIncrease"), I64("duration"),
        U8("reserved")>>)

placeBid ==
    Instruction(
      <<"bidder", "auctionDataInfo", "nftMint", "escrowVault", "outBidder",
        "systemProgram", "sellDataInfo">>,
      <<U8("auctionBump"), U8("escrowBump"), U64("price")>>)

claimAuction ==
    Instruction(
      <<"bidder", "globalAuthority", "auctionDataInfo", "userTokenAccount",
        "destNftTokenAccount", "nftMint", "escrowVault", "bidderUserPool",
        "creator", "creatorUserPool", "mintMetadata", "tokenProgram",
        "systemProgram", "tokenMetadataProgram">>,
      <<U8("globalBump"), U8("auctionBump"), U8("escrowBump")>>)

updateReserve ==
    Instruction(
      <<"creator", "auctionDataInfo", "nftMint">>,
      <<U8("auctionBump"), U64("price")>>)

cancelAuction ==
    Instruction(
      <<"creator", "globalAuthority", "auctionDataInfo", "userTokenAccount",
        "destNftTokenAccount", "nftMint", "tokenProgram", "sellDataInfo">>,
      <<U8("globalBump"), U8("auctionBump")>>)

instructions ==
    [initialize |-> initialize, updateFee |-> updateFee,
     addTeamTreasury |-> addTeamTreasury,
     removeTeamTreasury |-> removeTeamTreasury,
     initUserPool |-> initUserPool, initSellData |-> initSellData,
     listNftForSale |-> listNftForSale, delistNft |-> delistNft,
     setPrice |-> setPrice, transfer |-> transfer,
     transferFromVault |-> transferFromVault, purchase |-> purchase,
     depositToEscrow |-> depositToEscrow,
     withdrawFromEscrow |-> withdrawFromEscrow,
     initOfferData |-> initOfferData, makeOffer |-> makeOffer,
     cancelOffer |-> cancelOffer, acceptOffer |-> acceptOffer,
     initAuctionData |-> initAuctionData, createAuction |-> createAuction,
     placeBid |-> placeBid, claimAuction |-> claimAuction,
     updateReserve |-> updateReserve, cancelAuction |-> cancelAuction]

-----------------------------------------------------------------------------
(***************************************************************************)
(* Account layouts.                                                        *)
(***************************************************************************)
GlobalPool ==
    <<PublicKey("superAdmin"), U64("marketFeeSol"), U64("teamCount"),
      <<"teamTreasury", "publicKey[8]">>, <<"treasuryRate", "u64[8]">>>>

SellData ==
    <<PublicKey("mint"), PublicKey("seller"), PublicKey("collection"),
      U64("priceSol"), I64("listedDate"), U64("active")>>

OfferData ==
    <<PublicKey("mint"), PublicKey("buyer"), U64("offerPrice"),
      I64("offerListingDate"), U64("active")>>

AuctionData ==
    <<PublicKey("mint"), PublicKey("creator"), U64("startPrice"),
      U64("minIncreaseAmount"), I64("startDate"), I64("lastBidDate"),
      PublicKey("lastBidder"), U64("highestBid"), I64("duration"),
      U64("status")>>

UserData ==
    <<PublicKey("address"), U64("tradedVolume"), U64("escrowSolBalance")>>

-----------------------------------------------------------------------------
(***************************************************************************)
(* Borsh: fields one after another, behind the 8 bytes that tell the       *)
(* instruction or the account type.                                        *)
(***************************************************************************)
Width(type) ==
    CASE type = "u8" -> 1
      [] type \in {"u64", "i64"} -> 8
      [] type = "publicKey" -> 32
      [] type = "publicKey[8]" -> 256
      [] type = "u64[8]" -> 64

Discriminator == 8

\* Where field k ends; at 0, where the first one starts.
Ends(fields) ==
    LET end[k \in 0 .. Len(fields)] ==
          IF k = 0 THEN Discriminator ELSE end[k - 1] + Width(fields[k][2])
    IN  end

Size(fields) == Ends(fields)[Len(fields)]

\* Where field k starts; it ends where the next one starts.
Offset(fields, k) == Ends(fields)[k - 1]

\* The bytes [first, last) of a field.
Extent(fields, name) ==
    LET k == CHOOSE j \in DOMAIN fields : fields[j][1] = name
    IN  <<Offset(fields, k), Offset(fields, k + 1)>>

\* Position of an account in the list, counted from 0.
Index(names, name) == (CHOOSE j \in DOMAIN names : names[j] = name) - 1
=============================================================================
