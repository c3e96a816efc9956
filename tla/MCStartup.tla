------------------------------ MODULE MCStartup ------------------------------
(***************************************************************************)
(* From an empty ledger: accounts are created, the pool is set up and      *)
(* changed, and trading goes on meanwhile, in every order, while others    *)
(* look at the market.                                                     *)
(***************************************************************************)
EXTENDS ReaderProperties, TLC

CONSTANTS ann, bob, nft

MCMetadata ==
    [m \in Mint |-> [seller_fee_basis_points |-> 0, creators |-> <<>>]]
MCEndowment == [w \in Wallet |-> 3]
UserSymmetry == Permutations(User)
=============================================================================
