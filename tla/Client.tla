------------------------------- MODULE Client -------------------------------
(***************************************************************************)
(* The addresses the client library names, and what lib/utils.ts finds out *)
(* about token accounts.                                                   *)
(***************************************************************************)
EXTENDS Readers

VARIABLES
    atas,   \* associated token accounts that exist: <<owner, mint>>
    aux     \* mints whose NFT lies in another account of its holder

tokens == <<atas, aux>>

-----------------------------------------------------------------------------
(***************************************************************************)
(* Addresses: a PDA is its seeds.                                          *)
(***************************************************************************)
UserPDA(u) == <<"user-info-v1", u>>
SellPDA(m) == <<"sell-info-v1", m>>
AuctionPDA(m) == <<"auction-info-v1", m>>
OfferPDA(m, u) == <<"offer-info-v1", m, u>>
getMetadata(m) == <<"metadata", m>>
getAssociatedTokenAccount(owner, m) == <<"associated", owner, m>>
AuxiliaryAccount(m) == <<"token", m>>

-----------------------------------------------------------------------------
(***************************************************************************)
(* lib/utils.ts.                                                           *)
(***************************************************************************)
\* The one account of the mint that holds a token.
getNFTTokenAccount(m) ==
    IF m \in aux THEN AuxiliaryAccount(m)
    ELSE getAssociatedTokenAccount(holder[m], m)

getOwnerOfNFT(m) == holder[m]

isInitializedUser(u) == PoolExists(u)

\* The associated token account to create with the transaction, if any.
getATokenAccountsNeedCreate(owner, m) == {<<owner, m>>} \ atas
=============================================================================
