------------------------------- MODULE MCVault -------------------------------
(***************************************************************************)
(* Two NFTs in auctions at once, one auction after another, beside the     *)
(* escrow balance of a bidder: the bids of both auctions and the balance   *)
(* share the one vault.                                                    *)
(***************************************************************************)
EXTENDS MCMarket

CONSTANTS ann, bob, cyd, boss, team, artist, label, nft1, nft2

\* Nobody can be paid a royalty of nft2, so whoever wins it cannot claim it.
MCMetadata ==
    [m \in Mint |->
        [seller_fee_basis_points |-> 1070,
         creators |-> IF m = nft1
                      THEN <<[address |-> artist, share |-> 67],
                             [address |-> label, share |-> 33]>>
                      ELSE NoCreators]]
MCTreasuries == <<<<team, 6666>>>>
MCEndowment == [w \in Wallet |-> IF w \in User THEN 200 ELSE 0]
MCPriceInput == {100, 200}

\* Auctions as they come one after another, and what runs beside them.
VaultNext ==
    \/ Tick
    \/ \E u \in User, m \in Mint :
          \/ CreateAuction(u, m, 100, 100, 1, 0)
          \/ \E price \in PriceInput : PlaceBid(u, m, price)
          \/ ClaimAuction(u, m)
          \/ CancelAuction(u, m)
    \/ DepositToEscrow(bob, 100)
    \/ \E sol \in PriceInput : WithdrawFromEscrow(bob, sol)
AnnOwnsAll == DeployedInit /\ holder = [m \in Mint |-> ann]
VaultSpec == AnnOwnsAll /\ [][VaultNext]_vars /\ PartiesAct
=============================================================================
