---------------------------- MODULE TeamTreasury ----------------------------
(***************************************************************************)
(* The global pool and its administration: initialize, update_fee,         *)
(* add_team_treasury and remove_team_treasury.  The team shares of a fee   *)
(* are kept in an array of MaxTeam slots of which the first team_count are *)
(* in use.                                                                 *)
(***************************************************************************)
EXTENDS Accounts, Sums

CONSTANTS
    FeeInput,   \* sol_fee arguments tried by update_fee
    RateInput   \* rate arguments tried by add_team_treasury

ASSUME TreasuryInputAssumption ==
    /\ FeeInput \subseteq U64
    /\ RateInput \subseteq U64

VARIABLE global_authority   \* the GlobalPool account

GlobalExists == global_authority.super_admin # Default

\* The slots in use.
ActiveSlots(pool) == 0 .. pool.team_count - 1

\* What the loop over the slots in use accumulates in `sum`.
RateSum(pool) == Sum(ActiveSlots(pool), pool.treasury_rate)

TreasuryInit == global_authority = NoGlobalPool

-----------------------------------------------------------------------------
\* Anchor `init`: fails when the pool exists.
Initialize(admin) ==
    /\ ~GlobalExists
    /\ global_authority' = [NoGlobalPool EXCEPT !.super_admin = admin]

SetTreshold(admin) ==
    /\ GlobalExists
    /\ global_authority.super_admin = admin

\* Mutant: the whole price is an admissible fee.
UpdateFeeInclusive(admin, sol_fee) ==
    /\ SetTreshold(admin)
    /\ sol_fee <= PERMYRIAD
    /\ global_authority' = [global_authority EXCEPT !.market_fee_sol = sol_fee]

UpdateFee(admin, sol_fee) ==
    /\ SetTreshold(admin)
    /\ sol_fee < PERMYRIAD
    /\ global_authority' = [global_authority EXCEPT !.market_fee_sol = sol_fee]

AddTreasury(admin) ==
    /\ GlobalExists
    /\ global_authority.super_admin = admin

\* Mutant: no search for the address.
TreasuryFitsTwice(pool, address, rate) ==
    /\ rate <= PERMYRIAD /\ rate > 0
    /\ rate + RateSum(pool) <= PERMYRIAD

\* Mutant: the sum starts at 0 instead of the new rate.
TreasuryFitsOver(pool, address, rate) ==
    /\ rate <= PERMYRIAD /\ rate > 0
    /\ \A i \in ActiveSlots(pool) : pool.team_treasury[i] # address
    /\ RateSum(pool) <= PERMYRIAD

TreasuryFits(pool, address, rate) ==
    /\ rate <= PERMYRIAD /\ rate > 0
    /\ \A i \in ActiveSlots(pool) : pool.team_treasury[i] # address
    /\ rate + RateSum(pool) <= PERMYRIAD

AddTeamTreasury(admin, address, rate) ==
    LET pool == global_authority
        n == pool.team_count
    IN  /\ AddTreasury(admin)
        /\ n < MaxTeam
        /\ TreasuryFits(pool, address, rate)
        /\ global_authority' =
             [pool EXCEPT !.team_treasury[n] = address,
                          !.treasury_rate[n] = rate,
                          !.team_count = n + 1]

RemoveTreasury(admin) ==
    /\ GlobalExists
    /\ global_authority.super_admin = admin

\* Mutant: the rate of the last entry is left behind.
DropSlotAddress(pool, i) ==
    LET last == pool.team_count - 1
    IN  [pool EXCEPT !.team_treasury[i] = pool.team_treasury[last],
                     !.team_count = last]

\* One match of the removal loop: the last entry moves into slot i unless i
\* is the last slot, and the count drops.  The vacated slot keeps its bytes.
DropSlot(pool, i) ==
    LET last == pool.team_count - 1
    IN  IF i < last
        THEN [pool EXCEPT !.team_treasury[i] = pool.team_treasury[last],
                          !.treasury_rate[i] = pool.treasury_rate[last],
                          !.team_count = last]
        ELSE [pool EXCEPT !.team_count = last]

\* The removal loop runs over the slots that were in use when it started and
\* does not stop at a match.
RemovalLoop(pool, address) ==
    LET after[i \in 0 .. pool.team_count] ==
          IF i = 0 THEN pool
          ELSE IF after[i - 1].team_treasury[i - 1] = address
               THEN DropSlot(after[i - 1], i - 1)
               ELSE after[i - 1]
    IN  after[pool.team_count]

RemoveTeamTreasury(admin, address) ==
    LET pool == global_authority
    IN  /\ RemoveTreasury(admin)
        /\ pool.team_count > 0
        /\ \E i \in ActiveSlots(pool) : pool.team_treasury[i] = address
        /\ global_authority' = RemovalLoop(pool, address)

-----------------------------------------------------------------------------
TreasuryNext ==
    \E admin \in User :
        \/ Initialize(admin)
        \/ \E fee \in FeeInput : UpdateFee(admin, fee)
        \/ \E address \in Wallet, rate \in RateInput :
              AddTeamTreasury(admin, address, rate)
        \/ \E address \in Wallet : RemoveTeamTreasury(admin, address)

TreasurySpec == TreasuryInit /\ [][TreasuryNext]_global_authority

-----------------------------------------------------------------------------
\* The pool always has the layout of account.rs, a fee below one whole, and
\* no more entries in use than slots.
TreasuryTypeOK ==
    /\ global_authority \in GlobalPool
    /\ global_authority.market_fee_sol < PERMYRIAD

\* No payee is ever paid twice for one sale: the addresses in use differ,
\* across the swap-with-last removals that leave old bytes behind the count.
PayeesDistinct ==
    \A i, j \in ActiveSlots(global_authority) :
        global_authority.team_treasury[i] = global_authority.team_treasury[j]
            => i = j

\* The team never hands out more than the whole fee: the rates in use sum to
\* at most PERMYRIAD and each entry earns something, after any sequence of
\* additions and removals.
RatesWithinWhole ==
    /\ RateSum(global_authority) <= PERMYRIAD
    /\ \A i \in ActiveSlots(global_authority) :
          global_authority.treasury_rate[i] > 0

\* Who is paid and how much, without the slots.
Payees(pool) ==
    {<<pool.team_treasury[i], pool.treasury_rate[i]>> : i \in ActiveSlots(pool)}

\* A step changes the payees of at most one address: removing one treasury
\* never changes another one's address or rate, although it moves slots.
OnePayeeAtATime ==
    [][ \/ Payees(global_authority') = Payees(global_authority)
        \/ \E p \in Payees(global_authority) :
              Payees(global_authority') = Payees(global_authority) \ {p}
        \/ \E p \in Payees(global_authority') :
              Payees(global_authority) = Payees(global_authority') \ {p}
      ]_global_authority

Team ==
    INSTANCE TeamShares WITH
        Admin <- User, NoAdmin <- Default, Member <- Wallet, Share <- RateInput,
        Fee <- FeeInput, Whole <- PERMYRIAD, MaxSize <- MaxTeam,
        admin <- global_authority.super_admin,
        fee <- global_authority.market_fee_sol,
        team <- Payees(global_authority)

\* The slots implement TeamShares: a treasury is admitted when a team without
\* slots would admit it, and one that is removed is gone, with nobody else.
TeamImplemented == Team!Spec
=============================================================================
