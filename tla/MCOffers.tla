------------------------------ MODULE MCOffers ------------------------------
(***************************************************************************)
(* One listed NFT, a seller and a buyer, offers backed by escrow balances. *)
(* Prices are large enough for every fee to leave a remainder: 200         *)
(* lamports pay a royalty of 21 (12 and 8) and a market fee of 10 (5, 3).*)
(***************************************************************************)
EXTENDS MCMarket, ReaderProperties, TLC

CONSTANTS ann, bob, boss, teamA, teamB, artist, label, nft

MCMetadata ==
    [m \in Mint |->
        [seller_fee_basis_points |-> 1070,
         creators |-> <<[address |-> artist, share |-> 60],
                        [address |-> label, share |-> 40]>>]]
MCTreasuries == <<<<teamA, 5000>>, <<teamB, 3333>>>>
MCEndowment == [w \in Wallet |-> IF w \in User THEN 200 ELSE 0]
MCPriceInput == {100, 200}
UserSymmetry == Permutations(User)

OffersNext == Tick \/ Listing \/ Escrow \/ Offering
OffersSpec == DeployedInit /\ [][OffersNext]_vars
=============================================================================
