----------------------------- MODULE MCTreasury -----------------------------
(***************************************************************************)
(* A pool with three slots and four candidate payees, set up and changed   *)
(* by its admin and by others who try, in every order.  At every pool this *)
(* reaches the split of several prices is looked at, for NFTs with small,  *)
(* odd and full royalties, whose creators may be payees of the team too.   *)
(* The rates are chosen so that sums hit, miss and exceed PERMYRIAD.       *)
(***************************************************************************)
EXTENDS MarketProperties

CONSTANTS u1, u2, t1, t2, plain, odd, whole

Creators == <<[address |-> t1, share |-> 67], [address |-> t2, share |-> 33]>>
MCMetadata ==
    [m \in Mint |->
        CASE m = plain -> [seller_fee_basis_points |-> 0,
                           creators |-> NoCreators]
          [] m = odd   -> [seller_fee_basis_points |-> 777,
                           creators |-> Creators]
          [] m = whole -> [seller_fee_basis_points |-> PERMYRIAD,
                           creators |-> Creators]]
MCEndowment == [w \in Wallet |-> 0]
MCPriceInput == {0, 1, 99, 10000, 12345}
MCFeeInput == {0, 333, PERMYRIAD - 1, PERMYRIAD}
MCRateInput == {0, 1, 3333, 6667, PERMYRIAD, PERMYRIAD + 1}

AdministrationInit == Init /\ holder = [m \in Mint |-> u1]
AdministrationSpec == AdministrationInit /\ [][Administration]_vars
=============================================================================
