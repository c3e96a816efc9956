------------------------------- MODULE BackEnd -------------------------------
(***************************************************************************)
(* The transaction parser of the back end (cli/be.ts), which turns a       *)
(* transaction of the program into an activity.  It knows the program's    *)
(* interface by numbers written out: positions of accounts, byte ranges of *)
(* arguments, and base58 prefixes of instruction data.                     *)
(*                                                                         *)
(* A transaction is [instructions, inner]: its instructions in order, and  *)
(* for each one that called other programs, in order, the lamport          *)
(* transfers among those calls.  An instruction the RPC node decodes       *)
(* itself, such as the creation of a token account, has no data.           *)
(* getDataFromSignature returns {} when it throws and {result} otherwise.  *)
(* Time stamps and signatures are left out.                                *)
(***************************************************************************)
EXTENDS Integers, Sequences, Sums

IDL == INSTANCE Interface

NoData == [ix |-> "none"]   \* instruction.data is undefined
Undefined == [type |-> "undefined"]

(***************************************************************************)
(* Instruction data as base58: its first eight characters depend on the    *)
(* discriminator and on the length of all of it.  A nonce of the table is  *)
(* thus the instruction and the length of the arguments it was taken from. *)
(***************************************************************************)
Prefix(ix) == <<ix, IDL!Size(IDL!instructions[ix].args) - IDL!Discriminator>>

nonce ==
    <<<<"initialize", 2>>, <<"updateFee", 9>>, <<"addTeamTreasury", 41>>,
      <<"removeTeamTreasury", 33>>, <<"initUserPool", 1>>,
      <<"initSellData", 33>>, <<"listNftForSale", 10>>, <<"delistNft", 2>>,
      <<"transfer", 0>>, <<"transferFromVault", 2>>, <<"purchase", 4>>,
      <<"depositToEscrow", 10>>, <<"withdrawFromEscrow", 10>>,
      <<"initOfferData", 33>>, <<"makeOffer", 12>>, <<"cancelOffer", 1>>,
      <<"acceptOffer", 6>>, <<"initAuctionData", 33>>, <<"createAuction", 27>>,
      <<"placeBid", 10>>, <<"claimAuction", 3>>, <<"cancelAuction", 2>>,
      <<"setPrice", 9>>, <<"updateReserve", 9>>>>

Known(instruction) ==
    /\ instruction.data # NoData
    /\ \E j \in DOMAIN nonce : nonce[j] = Prefix(instruction.data.ix)

-----------------------------------------------------------------------------
\* bytes.slice(first, last), as a number.
Argument(instruction, first, last) ==
    LET fields == IDL!instructions[instruction.data.ix].args
        field == CHOOSE k \in DOMAIN fields :
                     IDL!Extent(fields, fields[k][1]) = <<first, last>>
    IN  instruction.data.args[fields[field][1]]

\* Mutant: every transfer counts, whoever pays.
TransferredByAll(inner, source) ==
    {Sum(DOMAIN calls, [k \in DOMAIN calls |-> calls[k].lamports]) :
        calls \in inner}

\* The lamports the source transfers; throws without inner instructions.
Transferred(inner, source) ==
    {Sum(DOMAIN calls,
         [k \in DOMAIN calls |-> IF calls[k].source = source
                                 THEN calls[k].lamports ELSE 0]) :
        calls \in inner}

-----------------------------------------------------------------------------
(***************************************************************************)
(* The activity in an instruction i, with its inner instructions if there  *)
(* are any: one operator per case.                                         *)
(***************************************************************************)
\* accountKeys[n]
Key(i, n) == i.accounts[n + 1]
Signer(i) == Key(i, 0)

Activity(type, i, mint) == [type |-> type, address |-> Signer(i), mint |-> mint]

ActivityAt(type, i, mint, prices) ==
    {[type |-> type, address |-> Signer(i), mint |-> mint, price |-> price] :
        price \in prices}

SaleAt(type, buyer, seller, mint, prices) ==
    {[type |-> type, buyer |-> buyer, seller |-> seller, mint |-> mint,
      price |-> price] : price \in prices}

ListNftForSale(i) ==
    {[type |-> "ListNftForSale", address |-> Signer(i), mint |-> Key(i, 5),
      sol_price |-> Argument(i, 10, 18)]}

DelistNft(i) == {Activity("DelistNft", i, Key(i, 5))}

Transfer(i) ==
    {[type |-> "Transfer", address |-> Signer(i), recipient |-> Key(i, 2),
      mint |-> Key(i, 4)]}

TransferFromVault(i) ==
    {[type |-> "TransferFromVault", address |-> Signer(i),
      recipient |-> Key(i, 3), mint |-> Key(i, 6)]}

Purchase(i, inner) ==
    SaleAt("Purchase", Signer(i), Key(i, 6), Key(i, 8),
           Transferred(inner, Key(i, 0)))

DepositToEscrow(i) ==
    {[type |-> "DepositToEscrow", address |-> Signer(i),
      sol_amount |-> Argument(i, 10, 18)]}

WithdrawFromEscrow(i) ==
    {[type |-> "Withdraw", address |-> Signer(i),
      sol_amount |-> Argument(i, 10, 18)]}

MakeOffer(i, inner) ==
    ActivityAt("MakeOffer", i, Key(i, 3), Transferred(inner, Key(i, 0)))

CancelOffer(i) == {Activity("CancelOffer", i, Key(i, 2))}

AcceptOffer(i, inner) ==
    SaleAt("AcceptOffer", Key(i, 2), Signer(i), Key(i, 5),
           Transferred(inner, Key(i, 10)))

CreateAuction(i) ==
    {[type |-> "CreateAuction", address |-> Signer(i), mint |-> Key(i, 5),
      start_price |-> Argument(i, 10, 18), min_increase |-> Argument(i, 18, 26),
      duration |-> Argument(i, 26, 34)]}

PlaceBid(i, inner) ==
    ActivityAt("PlaceBid", i, Key(i, 2), Transferred(inner, Key(i, 0)))

ClaimAuction(i, inner) ==
    SaleAt("ClaimAuction", Signer(i), Key(i, 8), Key(i, 5),
           Transferred(inner, Key(i, 6)))

CancelAuction(i) == {Activity("CancelAuction", i, Key(i, 5))}

SetPrice(i) == ActivityAt("SetPrice", i, Key(i, 2), {Argument(i, 9, 17)})

UpdateReverse(i) ==
    ActivityAt("UpdateReverse", i, Key(i, 2), {Argument(i, 9, 17)})

\* Administration and account creation are only named; init_sell_data not even
\* that.
ActivityIn(i, inner) ==
    CASE i.data.ix = "listNftForSale" -> ListNftForSale(i)
      [] i.data.ix = "delistNft" -> DelistNft(i)
      [] i.data.ix = "transfer" -> Transfer(i)
      [] i.data.ix = "transferFromVault" -> TransferFromVault(i)
      [] i.data.ix = "purchase" -> Purchase(i, inner)
      [] i.data.ix = "depositToEscrow" -> DepositToEscrow(i)
      [] i.data.ix = "withdrawFromEscrow" -> WithdrawFromEscrow(i)
      [] i.data.ix = "makeOffer" -> MakeOffer(i, inner)
      [] i.data.ix = "cancelOffer" -> CancelOffer(i)
      [] i.data.ix = "acceptOffer" -> AcceptOffer(i, inner)
      [] i.data.ix = "createAuction" -> CreateAuction(i)
      [] i.data.ix = "placeBid" -> PlaceBid(i, inner)
      [] i.data.ix = "claimAuction" -> ClaimAuction(i, inner)
      [] i.data.ix = "cancelAuction" -> CancelAuction(i)
      [] i.data.ix = "setPrice" -> SetPrice(i)
      [] i.data.ix = "updateReserve" -> UpdateReverse(i)
      [] i.data.ix = "initSellData" -> {Undefined}
      [] OTHER -> {[type |-> i.data.ix]}

(***************************************************************************)
(* The first known instruction is looked up, and with the same index its   *)
(* inner instructions, although only instructions that called others have  *)
(* an entry there.                                                         *)
(***************************************************************************)
getDataFromSignature(tx) ==
    LET known == {k \in DOMAIN tx.instructions : Known(tx.instructions[k])}
        ixId == CHOOSE k \in known : \A j \in known : k <= j
        innerIx == IF ixId \in DOMAIN tx.inner THEN {tx.inner[ixId]} ELSE {}
    IN  IF known = {} THEN {Undefined}
        ELSE IF tx.inner # <<>> /\ innerIx = {} THEN {}
        ELSE ActivityIn(tx.instructions[ixId], innerIx)
=============================================================================
