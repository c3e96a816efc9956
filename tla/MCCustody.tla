------------------------------ MODULE MCCustody ------------------------------
(***************************************************************************)
(* One NFT and three users: a seller and two who compete for it.  Prices   *)
(* are a few lamports, so fees round to nothing.                           *)
(***************************************************************************)
EXTENDS MCMarket, TLC

CONSTANTS ann, bob, cyd, team, boss, nft

MCMetadata ==
    [m \in {nft} |-> [seller_fee_basis_points |-> 0, creators |-> <<>>]]
MCTreasuries == <<<<team, PERMYRIAD>>>>
MCEndowment == [w \in Wallet |-> IF w \in User THEN 4 ELSE 0]
MCPriceInput == {2, 3}

UserSymmetry == Permutations(User)
=============================================================================
