---------------------------- MODULE TreasuryProofs ----------------------------
(***************************************************************************)
(* The team treasuries are always well formed: distinct payees whose rates *)
(* sum to at most one whole, for every number of slots.                    *)
(***************************************************************************)
EXTENDS TeamTreasury, SumTheorems, TLAPS

\* One round of the removal loop, at slot i - 1.
Round(pool, address, i) ==
    IF pool.team_treasury[i - 1] = address THEN DropSlot(pool, i - 1) ELSE pool

\* The loop's intermediate pools, up to slot n.
Rounds(g, pool, address, n) ==
    /\ g = [i \in 0 .. n |-> g[i]]
    /\ g[0] = pool
    /\ \A i \in 1 .. n : g[i] = Round(g[i - 1], address, i)

LEMMA RoundsExist ==
  ASSUME NEW pool, NEW address, NEW n \in Nat
  PROVE  \E g : Rounds(g, pool, address, n)
<1> DEFINE Done == {k \in Nat : \E g : Rounds(g, pool, address, k)}
<1>1. 0 \in Done
  <2> DEFINE g == [i \in 0 .. 0 |-> pool]
  <2>1. Rounds(g, pool, address, 0) BY DEF Rounds
  <2>2. \E k : Rounds(k, pool, address, 0)
    <3> HIDE DEF g
    <3> QED BY <2>1
  <2> QED BY <2>2
<1>2. ASSUME NEW k \in Nat, k \in Done PROVE k + 1 \in Done
  <2>1. PICK g : Rounds(g, pool, address, k) BY <1>2
  <2> DEFINE h == [i \in 0 .. k + 1 |->
                     IF i <= k THEN g[i] ELSE Round(g[k], address, i)]
  <2>2. h[0] = pool BY <2>1 DEF Rounds
  <2>3. ASSUME NEW i \in 1 .. k + 1
        PROVE  h[i] = Round(h[i - 1], address, i)
    <3>1. h[i - 1] = g[i - 1] OBVIOUS
    <3>2. CASE i <= k
      <4>1. i \in 1 .. k BY <3>2
      <4>2. g[i] = Round(g[i - 1], address, i) BY <4>1, <2>1 DEF Rounds
      <4> QED BY <3>1, <3>2, <4>2
    <3>3. CASE ~(i <= k)
      <4>1. i = k + 1 /\ i - 1 = k BY <3>3
      <4> QED BY <3>1, <3>3, <4>1
    <3> QED BY <3>2, <3>3
  <2>4. h = [i \in 0 .. k + 1 |-> h[i]] OBVIOUS
  <2>5. \E f : Rounds(f, pool, address, k + 1)
    <3> HIDE DEF h
    <3> QED BY <2>2, <2>3, <2>4 DEF Rounds
  <2> QED BY <2>5
<1> HIDE DEF Done
<1>3. \A k \in Nat : k \in Done BY <1>1, <1>2, NatSetInduction
<1> QED BY <1>3 DEF Done

\* RemovalLoop runs the rounds.
LEMMA RemovalLoopRounds ==
  ASSUME NEW pool, NEW address, pool.team_count \in Nat
  PROVE  \E g : /\ Rounds(g, pool, address, pool.team_count)
                /\ RemovalLoop(pool, address) = g[pool.team_count]
<1> DEFINE n == pool.team_count
           Body(g) == [i \in 0 .. n |->
                         IF i = 0 THEN pool
                         ELSE IF g[i - 1].team_treasury[i - 1] = address
                              THEN DropSlot(g[i - 1], i - 1)
                              ELSE g[i - 1]]
           after == CHOOSE g : g = Body(g)
<1>1. \E g : g = Body(g)
  <2>1. PICK g : Rounds(g, pool, address, n) BY RoundsExist
  <2>2. ASSUME NEW i \in 0 .. n PROVE g[i] = Body(g)[i]
    BY <2>1 DEF Rounds, Round
  <2>3. g = [i \in 0 .. n |-> g[i]] BY <2>1 DEF Rounds
  <2>4. g = Body(g) BY <2>2, <2>3
  <2> QED BY <2>4
<1>2. after = Body(after) BY <1>1
<1>3. Rounds(after, pool, address, n)
  <2> HIDE DEF after
  <2> QED BY <1>2 DEF Rounds, Round
<1>4. RemovalLoop(pool, address) = after[n] BY DEF RemovalLoop
<1> QED BY <1>3, <1>4

\* The pool as the administration keeps it.
PoolOK(pool) ==
    /\ pool \in GlobalPool
    /\ pool.market_fee_sol < PERMYRIAD
    /\ \A i, j \in ActiveSlots(pool) :
          pool.team_treasury[i] = pool.team_treasury[j] => i = j
    /\ RateSum(pool) <= PERMYRIAD
    /\ \A i \in ActiveSlots(pool) : pool.treasury_rate[i] > 0

\* With distinct payees the removal loop drops the one slot it finds: later
\* rounds see no second match, not even the bytes behind the new count.
LEMMA RemovalDropsOne ==
  ASSUME NEW pool \in GlobalPool, NEW address, NEW i \in ActiveSlots(pool),
         pool.team_treasury[i] = address,
         \A j, k \in ActiveSlots(pool) :
            pool.team_treasury[j] = pool.team_treasury[k] => j = k
  PROVE  RemovalLoop(pool, address) = DropSlot(pool, i)
<1> DEFINE n == pool.team_count
           d == DropSlot(pool, i)
<1>1. /\ n \in Nat /\ n <= MaxTeam /\ i \in 0 .. n - 1
      /\ pool.team_treasury \in [Slot -> Key]
  BY IntegersAssumption DEF GlobalPool, ActiveSlots
<1>2. PICK g : /\ Rounds(g, pool, address, n)
               /\ RemovalLoop(pool, address) = g[n]
  BY <1>1, RemovalLoopRounds
<1> DEFINE At(k) == g[k] = IF k <= i THEN pool ELSE d
           Done == {k \in Nat : k <= n => At(k)}
<1>3. 0 \in Done BY <1>1, <1>2 DEF Rounds
<1>4. ASSUME NEW k \in Nat, k \in Done PROVE k + 1 \in Done
  <2> SUFFICES ASSUME k + 1 <= n PROVE At(k + 1) OBVIOUS
  <2>1. k < n /\ k + 1 \in 1 .. n /\ k \in ActiveSlots(pool) /\ k \in Slot
    BY <1>1, IntegersAssumption DEF ActiveSlots, Slot
  <2>2. At(k) BY <1>4, <2>1, <1>1
  <2>3. g[k + 1] = IF g[k].team_treasury[k] = address
                   THEN DropSlot(g[k], k) ELSE g[k]
    <3>1. \A j \in 1 .. n : g[j] = Round(g[j - 1], address, j)
      BY <1>2 DEF Rounds
    <3>2. g[k + 1] = Round(g[(k + 1) - 1], address, k + 1)
      BY <2>1, <3>1, Zenon
    <3>3. (k + 1) - 1 = k OBVIOUS
    <3> QED BY <3>2, <3>3 DEF Round
  <2>4. CASE k < i
    <3>1. pool.team_treasury[k] # address BY <1>1, <2>1, <2>4
    <3> QED BY <1>1, <2>2, <2>3, <2>4, <3>1
  <2>5. CASE k = i BY <1>1, <2>2, <2>3, <2>5
  <2>6. CASE k > i
    <3>1. g[k] = d BY <1>1, <2>2, <2>6
    <3>2. pool.team_treasury[k] # address BY <1>1, <2>1, <2>6
    <3>3. d.team_treasury[k] = pool.team_treasury[k]
      BY <1>1, <2>1, <2>6 DEF DropSlot, GlobalPool
    <3> QED BY <1>1, <2>3, <2>6, <3>1, <3>2, <3>3
  <2> QED BY <1>1, <2>4, <2>5, <2>6
<1>5. n \in Done
  <2> HIDE DEF Done
  <2> QED BY <1>1, <1>3, <1>4, NatSetInduction
<1> QED BY <1>1, <1>2, <1>5

\* What DropSlot leaves in use.
LEMMA DropSlotParts ==
  ASSUME NEW pool \in GlobalPool, NEW i \in ActiveSlots(pool)
  PROVE  LET d == DropSlot(pool, i)
             last == pool.team_count - 1
         IN  /\ d \in GlobalPool
             /\ d.team_count = last
             /\ d.market_fee_sol = pool.market_fee_sol
             /\ \A j \in 0 .. last - 1 :
                   /\ d.team_treasury[j] = pool.team_treasury[IF j = i THEN last ELSE j]
                   /\ d.treasury_rate[j] = pool.treasury_rate[IF j = i THEN last ELSE j]
<1>1. /\ i \in Slot /\ pool.team_count - 1 \in Slot
      /\ pool.team_count \in 1 .. MaxTeam
      /\ pool.team_treasury \in [Slot -> Key]
      /\ pool.treasury_rate \in [Slot -> U64]
  BY IntegersAssumption DEF GlobalPool, ActiveSlots, Slot
<1> DEFINE d == DropSlot(pool, i)
           last == pool.team_count - 1
<1>2. CASE i < last
  <2>1. d = [pool EXCEPT !.team_treasury[i] = pool.team_treasury[last],
                         !.treasury_rate[i] = pool.treasury_rate[last],
                         !.team_count = last]
    BY <1>2 DEF DropSlot
  <2>2. /\ d \in GlobalPool
        /\ d.team_count = last
        /\ d.market_fee_sol = pool.market_fee_sol
        /\ d.team_treasury = [pool.team_treasury EXCEPT ![i] = pool.team_treasury[last]]
        /\ d.treasury_rate = [pool.treasury_rate EXCEPT ![i] = pool.treasury_rate[last]]
    <3>1. last \in 0 .. MaxTeam BY <1>1, IntegersAssumption
    <3>2. pool.team_treasury[last] \in Key /\ pool.treasury_rate[last] \in U64
      BY <1>1
    <3> DEFINE t == [pool.team_treasury EXCEPT ![i] = pool.team_treasury[last]]
               r == [pool.treasury_rate EXCEPT ![i] = pool.treasury_rate[last]]
    <3>3. t \in [Slot -> Key] /\ r \in [Slot -> U64] BY <1>1, <3>2
    <3>4. d = [super_admin |-> pool.super_admin,
               market_fee_sol |-> pool.market_fee_sol,
               team_count |-> last, team_treasury |-> t, treasury_rate |-> r]
      BY <2>1 DEF GlobalPool
    <3> HIDE DEF d, last, t, r
    <3>5. d \in GlobalPool BY <3>1, <3>3, <3>4 DEF GlobalPool
    <3> QED BY <3>4, <3>5 DEF t, r
  <2>3. \A j \in 0 .. last - 1 : j \in Slot
    BY <1>1, IntegersAssumption DEF Slot
  <2> QED BY <1>1, <2>2, <2>3
<1>3. CASE ~(i < last)
  <2>1. d = [pool EXCEPT !.team_count = last] BY <1>3 DEF DropSlot
  <2>2. i = last BY <1>1, <1>3 DEF ActiveSlots
  <2>3. last \in 0 .. MaxTeam BY <1>1, IntegersAssumption
  <2>4. /\ d \in GlobalPool
        /\ d.team_count = last
        /\ d.market_fee_sol = pool.market_fee_sol
        /\ d.team_treasury = pool.team_treasury
        /\ d.treasury_rate = pool.treasury_rate
    <3> HIDE DEF last, d
    <3> QED BY <2>1, <2>3 DEF GlobalPool
  <2>5. \A j \in 0 .. last - 1 : j # i BY <2>2, <1>1
  <2> QED BY <2>4, <2>5
<1> QED BY <1>2, <1>3

\* Dropping a slot takes its rate off the sum.
LEMMA DropSlotSum ==
  ASSUME NEW pool \in GlobalPool, NEW i \in ActiveSlots(pool)
  PROVE  RateSum(DropSlot(pool, i)) = RateSum(pool) - pool.treasury_rate[i]
<1> DEFINE d == DropSlot(pool, i)
           last == pool.team_count - 1
           r == pool.treasury_rate
           S == 0 .. last - 1
<1>1. /\ d.team_count = last
      /\ \A j \in S : d.treasury_rate[j] = r[IF j = i THEN last ELSE j]
  BY DropSlotParts
<1>2. last \in Nat /\ i \in 0 .. last /\ \A j \in 0 .. last : r[j] \in Int
  BY IntegersAssumption DEF GlobalPool, ActiveSlots, Slot, U64
<1>3. IsFiniteSet(S) BY <1>2, FS_Interval
<1>4. RateSum(pool) = r[last] + Sum(S, r)
  <2>1. last \notin S /\ S \cup {last} = 0 .. last BY <1>2
  <2>2. Sum(S \cup {last}, r) = r[last] + Sum(S, r)
    <3> HIDE DEF S, r, last
    <3> QED BY <1>2, <1>3, <2>1, SumAdd
  <2> QED BY <2>1, <2>2 DEF RateSum, ActiveSlots
<1>5. RateSum(d) = Sum(S, d.treasury_rate) BY <1>1 DEF RateSum, ActiveSlots
<1>6. Sum(S, r) \in Int
  <2>1. \A j \in S : r[j] \in Int BY <1>2
  <2> HIDE DEF S, r
  <2> QED BY <1>3, <2>1, SumInteger
<1> DEFINE f == d.treasury_rate
<1>7. CASE i = last
  <2>1. \A j \in S : f[j] = r[j] BY <1>1, <1>2, <1>7
  <2>2. Sum(S, f) = Sum(S, r)
    <3> HIDE DEF S, f, r
    <3> QED BY <1>3, <2>1, SumEqual
  <2> QED BY <1>2, <1>4, <1>5, <1>6, <1>7, <2>2
<1>8. CASE i # last
  <2>1. i \in S BY <1>2, <1>8
  <2>2. \A j \in S : r[j] \in Int /\ f[j] \in Int BY <1>1, <1>2
  <2>3. \A j \in S \ {i} : r[j] = f[j] BY <1>1, <1>2
  <2>4. Sum(S, f) = Sum(S, r) - r[i] + f[i]
    <3> HIDE DEF S, f, r
    <3> QED BY <1>3, <2>1, <2>2, <2>3, SumUpdate
  <2>5. f[i] = r[last] BY <1>1, <2>1
  <2>6. r[i] \in Int /\ r[last] \in Int BY <1>2
  <2> HIDE DEF f, r, S
  <2> QED BY <1>4, <1>5, <1>6, <2>4, <2>5, <2>6 DEF f, r
<1> QED BY <1>7, <1>8

-----------------------------------------------------------------------------
\* The empty pool is well formed, before and after its admin is set.
LEMMA EmptyPoolOK ==
  ASSUME NEW admin \in Key
  PROVE  PoolOK([NoGlobalPool EXCEPT !.super_admin = admin])
<1> DEFINE pool == [NoGlobalPool EXCEPT !.super_admin = admin]
<1>1. pool \in GlobalPool
  BY IntegersAssumption DEF NoGlobalPool, GlobalPool, Key, U64
<1>2. pool.market_fee_sol = 0 /\ ActiveSlots(pool) = {}
  BY DEF NoGlobalPool, ActiveSlots
<1>3. RateSum(pool) = 0 BY <1>2, SumEmpty DEF RateSum
<1> QED
  <2>1. \A i, j \in ActiveSlots(pool) : FALSE BY <1>2
  <2> HIDE DEF pool
  <2>2. PoolOK(pool) BY <1>1, <1>2, <1>3, <2>1 DEF PoolOK, PERMYRIAD
  <2> QED BY <2>2 DEF pool

\* A treasury that fits keeps the pool well formed.
LEMMA AdditionOK ==
  ASSUME NEW pool, PoolOK(pool), NEW address \in Wallet, NEW rate \in U64,
         pool.team_count < MaxTeam, TreasuryFits(pool, address, rate)
  PROVE  PoolOK([pool EXCEPT !.team_treasury[pool.team_count] = address,
                             !.treasury_rate[pool.team_count] = rate,
                             !.team_count = pool.team_count + 1])
<1> DEFINE n == pool.team_count
           t == [pool.team_treasury EXCEPT ![n] = address]
           r == [pool.treasury_rate EXCEPT ![n] = rate]
           q == [pool EXCEPT !.team_treasury[n] = address,
                             !.treasury_rate[n] = rate,
                             !.team_count = n + 1]
           S == 0 .. n - 1
<1>1. /\ n \in Nat /\ n \in Slot /\ n + 1 \in 0 .. MaxTeam
      /\ pool.team_treasury \in [Slot -> Key]
      /\ pool.treasury_rate \in [Slot -> U64]
  BY IntegersAssumption DEF PoolOK, GlobalPool, Slot
<1>2. t \in [Slot -> Key] /\ r \in [Slot -> U64] BY <1>1 DEF Key
<1>3. q = [super_admin |-> pool.super_admin,
           market_fee_sol |-> pool.market_fee_sol,
           team_count |-> n + 1, team_treasury |-> t, treasury_rate |-> r]
  <2>1. pool \in GlobalPool BY DEF PoolOK
  <2>2. n \in Nat BY <1>1
  <2> HIDE DEF n
  <2>3. q = [pool EXCEPT !.team_treasury = t, !.treasury_rate = r,
                         !.team_count = n + 1]
    BY <2>1, <2>2 DEF GlobalPool
  <2> HIDE DEF q, t, r
  <2> QED BY <2>1, <2>3 DEF GlobalPool
<1>4. q \in GlobalPool
  <2> HIDE DEF q, t, r
  <2> QED BY <1>1, <1>2, <1>3 DEF PoolOK, GlobalPool
<1>5. ActiveSlots(q) = S \cup {n} /\ n \notin S /\ S \subseteq Slot
      /\ S = ActiveSlots(pool)
  BY <1>1, <1>3, IntegersAssumption DEF ActiveSlots, Slot
<1>6. /\ t[n] = address /\ \A j \in S : t[j] = pool.team_treasury[j]
      /\ r[n] = rate /\ \A j \in S : r[j] = pool.treasury_rate[j]
  BY <1>1, <1>5
<1>7. RateSum(q) = rate + RateSum(pool)
  <2>1. IsFiniteSet(S) BY <1>1, FS_Interval
  <2>2. \A j \in S \cup {n} : r[j] \in Int BY <1>1, <1>2, <1>5 DEF U64
  <2> HIDE DEF S, r, n, t, q
  <2>3. Sum(S \cup {n}, r) = r[n] + Sum(S, r) BY <1>5, <2>1, <2>2, SumAdd
  <2>4. Sum(S, r) = Sum(S, pool.treasury_rate) BY <1>6, <2>1, SumEqual
  <2>5. q.treasury_rate = r BY <1>3
  <2> QED BY <1>5, <1>6, <2>3, <2>4, <2>5 DEF RateSum
<1> HIDE DEF q, t, r, S, n
<1>8. \A i, j \in ActiveSlots(q) :
         q.team_treasury[i] = q.team_treasury[j] => i = j
  BY <1>3, <1>5, <1>6 DEF PoolOK, TreasuryFits
<1>9. \A i \in ActiveSlots(q) : q.treasury_rate[i] > 0
  BY <1>3, <1>5, <1>6 DEF PoolOK, TreasuryFits
<1>10. RateSum(q) <= PERMYRIAD /\ q.market_fee_sol < PERMYRIAD
  BY <1>3, <1>7 DEF PoolOK, TreasuryFits
<1>11. PoolOK(q) BY <1>4, <1>8, <1>9, <1>10 DEF PoolOK
<1> QED BY <1>11 DEF q, n

\* Dropping a slot keeps the pool well formed.
LEMMA RemovalOK ==
  ASSUME NEW pool, PoolOK(pool), NEW i \in ActiveSlots(pool)
  PROVE  PoolOK(DropSlot(pool, i))
<1> DEFINE d == DropSlot(pool, i)
           last == pool.team_count - 1
           at(j) == IF j = i THEN last ELSE j
<1>1. /\ d \in GlobalPool
      /\ d.team_count = last
      /\ d.market_fee_sol = pool.market_fee_sol
      /\ \A j \in 0 .. last - 1 :
            /\ d.team_treasury[j] = pool.team_treasury[at(j)]
            /\ d.treasury_rate[j] = pool.treasury_rate[at(j)]
  BY DropSlotParts DEF PoolOK
<1>2. ActiveSlots(d) = 0 .. last - 1 BY <1>1 DEF ActiveSlots
<1>3. last \in Nat /\ \A j \in 0 .. last - 1 : at(j) \in ActiveSlots(pool)
  BY DEF PoolOK, GlobalPool, ActiveSlots
<1>4. \A j, k \in 0 .. last - 1 : at(j) = at(k) => j = k BY <1>3
<1>5. RateSum(d) = RateSum(pool) - pool.treasury_rate[i]
  BY DropSlotSum DEF PoolOK
<1>6. RateSum(pool) \in Int /\ pool.treasury_rate[i] > 0
      /\ pool.treasury_rate[i] \in Int
  <2> DEFINE S == ActiveSlots(pool)
             r == pool.treasury_rate
  <2>1. IsFiniteSet(S) BY <1>3, FS_Interval DEF ActiveSlots
  <2>2. \A j \in S : r[j] \in Int
    BY IntegersAssumption DEF PoolOK, GlobalPool, ActiveSlots, Slot, U64
  <2>3. Sum(S, r) \in Int
    <3> HIDE DEF S, r
    <3> QED BY <2>1, <2>2, SumInteger
  <2> QED BY <2>2, <2>3 DEF RateSum, PoolOK
<1> HIDE DEF d, last, at
<1>7. RateSum(d) <= PERMYRIAD BY <1>5, <1>6 DEF PoolOK, PERMYRIAD
<1>8. \A j, k \in ActiveSlots(d) :
         d.team_treasury[j] = d.team_treasury[k] => j = k
  <2> SUFFICES ASSUME NEW j \in 0 .. last - 1, NEW k \in 0 .. last - 1,
                      d.team_treasury[j] = d.team_treasury[k]
               PROVE  j = k
    BY <1>2
  <2>1. pool.team_treasury[at(j)] = pool.team_treasury[at(k)] BY <1>1
  <2>2. at(j) \in ActiveSlots(pool) /\ at(k) \in ActiveSlots(pool) BY <1>3
  <2>3. at(j) = at(k)
    <3>1. \A x, y \in ActiveSlots(pool) :
             pool.team_treasury[x] = pool.team_treasury[y] => x = y
      BY DEF PoolOK
    <3> QED BY <2>1, <2>2, <3>1
  <2> QED BY <1>4, <2>3
<1>9. \A j \in ActiveSlots(d) : d.treasury_rate[j] > 0
  BY <1>1, <1>2, <1>3 DEF PoolOK
<1>10. PoolOK(d) BY <1>1, <1>7, <1>8, <1>9 DEF PoolOK
<1> QED BY <1>10 DEF d

\* The administration keeps the pool well formed.
LEMMA TreasuryStep ==
  ASSUME PoolOK(global_authority), TreasuryNext
  PROVE  PoolOK(global_authority')
<1> DEFINE pool == global_authority
<1>1. PICK admin \in User :
         \/ Initialize(admin)
         \/ \E fee \in FeeInput : UpdateFee(admin, fee)
         \/ \E address \in Wallet, rate \in RateInput :
               AddTeamTreasury(admin, address, rate)
         \/ \E address \in Wallet : RemoveTeamTreasury(admin, address)
  BY DEF TreasuryNext
<1>2. CASE Initialize(admin)
  BY <1>2, EmptyPoolOK, KeysAssumption DEF Initialize, Key
<1>3. ASSUME NEW fee \in FeeInput, UpdateFee(admin, fee)
      PROVE  PoolOK(global_authority')
  <2>1. fee \in U64 /\ fee < PERMYRIAD
        /\ pool' = [pool EXCEPT !.market_fee_sol = fee]
    BY <1>3, TreasuryInputAssumption DEF UpdateFee
  <2>2. /\ pool' \in GlobalPool /\ pool'.market_fee_sol = fee
        /\ ActiveSlots(pool') = ActiveSlots(pool)
        /\ RateSum(pool') = RateSum(pool)
        /\ pool'.team_treasury = pool.team_treasury
        /\ pool'.treasury_rate = pool.treasury_rate
    BY <2>1 DEF PoolOK, GlobalPool, ActiveSlots, RateSum
  <2> QED BY <2>1, <2>2 DEF PoolOK
<1>4. ASSUME NEW address \in Wallet, NEW rate \in RateInput,
             AddTeamTreasury(admin, address, rate)
      PROVE  PoolOK(global_authority')
  <2>1. rate \in U64 BY TreasuryInputAssumption
  <2>2. /\ pool.team_count < MaxTeam /\ TreasuryFits(pool, address, rate)
        /\ pool' = [pool EXCEPT !.team_treasury[pool.team_count] = address,
                                !.treasury_rate[pool.team_count] = rate,
                                !.team_count = pool.team_count + 1]
    BY <1>4 DEF AddTeamTreasury
  <2> QED BY <2>1, <2>2, AdditionOK
<1>5. ASSUME NEW address \in Wallet, RemoveTeamTreasury(admin, address)
      PROVE  PoolOK(global_authority')
  <2>1. PICK i \in ActiveSlots(pool) : pool.team_treasury[i] = address
    BY <1>5 DEF RemoveTeamTreasury
  <2>2. pool' = RemovalLoop(pool, address) BY <1>5 DEF RemoveTeamTreasury
  <2>3. RemovalLoop(pool, address) = DropSlot(pool, i)
    BY <2>1, RemovalDropsOne DEF PoolOK
  <2>4. PoolOK(DropSlot(pool, i)) BY RemovalOK
  <2> QED BY <2>2, <2>3, <2>4
<1> QED BY <1>1, <1>2, <1>3, <1>4, <1>5

\* The inductive invariant: before initialize the pool is empty.
TreasuryInv ==
    /\ PoolOK(global_authority)
    /\ ~GlobalExists => /\ global_authority.team_count = 0
                        /\ global_authority.market_fee_sol = 0

\* Every administrative step needs the pool or creates it.
LEMMA PoolStays ==
  ASSUME PoolOK(global_authority), TreasuryNext
  PROVE  GlobalExists'
<1> DEFINE pool == global_authority
<1>1. CASE \E admin \in User : Initialize(admin)
  BY <1>1, KeysAssumption DEF Initialize, GlobalExists, NoGlobalPool
<1>2. CASE \E admin \in User, fee \in FeeInput : UpdateFee(admin, fee)
  BY <1>2 DEF UpdateFee, SetTreshold, GlobalExists, PoolOK, GlobalPool
<1>3. CASE \E admin \in User, address \in Wallet, rate \in RateInput :
              AddTeamTreasury(admin, address, rate)
  BY <1>3 DEF AddTeamTreasury, AddTreasury, GlobalExists, PoolOK, GlobalPool
<1>4. CASE \E admin \in User, address \in Wallet :
              RemoveTeamTreasury(admin, address)
  <2>1. PICK address \in Wallet :
           /\ GlobalExists
           /\ \E i \in ActiveSlots(pool) : pool.team_treasury[i] = address
           /\ pool' = RemovalLoop(pool, address)
    BY <1>4 DEF RemoveTeamTreasury, RemoveTreasury
  <2>2. PICK i \in ActiveSlots(pool) : pool.team_treasury[i] = address
    BY <2>1
  <2>3. pool' = DropSlot(pool, i) BY <2>1, <2>2, RemovalDropsOne DEF PoolOK
  <2>4. pool'.super_admin = pool.super_admin
    BY <2>3 DEF DropSlot, PoolOK, GlobalPool
  <2> QED BY <2>1, <2>4 DEF GlobalExists
<1> QED BY <1>1, <1>2, <1>3, <1>4 DEF TreasuryNext

\* The pool is well formed whatever its administrators do.
THEOREM TreasuryWellFormed == TreasurySpec => []TreasuryInv
<1>1. TreasuryInit => TreasuryInv
  <2>1. NoGlobalPool = [NoGlobalPool EXCEPT !.super_admin = Default]
    BY DEF NoGlobalPool
  <2>2. PoolOK(NoGlobalPool) BY <2>1, EmptyPoolOK DEF Key
  <2> QED BY <2>2 DEF TreasuryInit, TreasuryInv, NoGlobalPool
<1>2. TreasuryInv /\ [TreasuryNext]_global_authority => TreasuryInv'
  BY TreasuryStep, PoolStays DEF TreasuryInv, GlobalExists
<1> QED BY <1>1, <1>2, PTL DEF TreasurySpec

\* The layout and the fee bound of TreasuryTypeOK hold for every number of
\* slots, every set of wallets and all arguments.
THEOREM TreasuryTypeCorrect == TreasurySpec => []TreasuryTypeOK
<1>1. TreasuryInv => TreasuryTypeOK
  BY DEF TreasuryInv, PoolOK, TreasuryTypeOK
<1> QED BY <1>1, TreasuryWellFormed, PTL

\* No payee is in use twice.
THEOREM PayeesStayDistinct == TreasurySpec => []PayeesDistinct
<1>1. TreasuryInv => PayeesDistinct
  BY DEF TreasuryInv, PoolOK, PayeesDistinct
<1> QED BY <1>1, TreasuryWellFormed, PTL

\* The rates in use never exceed one whole: what one sale's market fee is
\* split into is at most that fee.
THEOREM RatesStayWithinWhole == TreasurySpec => []RatesWithinWhole
<1>1. TreasuryInv => RatesWithinWhole
  BY DEF TreasuryInv, PoolOK, RatesWithinWhole
<1> QED BY <1>1, TreasuryWellFormed, PTL

-----------------------------------------------------------------------------
\* Dropping a slot takes exactly that slot's payee off.
LEMMA DropSlotPayees ==
  ASSUME NEW pool, PoolOK(pool), NEW i \in ActiveSlots(pool)
  PROVE  \E p \in Payees(pool) : Payees(DropSlot(pool, i)) = Payees(pool) \ {p}
<1> DEFINE d == DropSlot(pool, i)
           last == pool.team_count - 1
           at(j) == IF j = i THEN last ELSE j
           entry(q, j) == <<q.team_treasury[j], q.treasury_rate[j]>>
           p == entry(pool, i)
<1>1. /\ d.team_count = last
      /\ \A j \in 0 .. last - 1 : entry(d, j) = entry(pool, at(j))
  BY DropSlotParts DEF PoolOK
<1>2. /\ last \in Nat /\ i \in 0 .. last
      /\ ActiveSlots(d) = 0 .. last - 1 /\ ActiveSlots(pool) = 0 .. last
  BY <1>1 DEF PoolOK, GlobalPool, ActiveSlots
<1>3. \A j, k \in 0 .. last : entry(pool, j) = entry(pool, k) => j = k
  BY <1>2 DEF PoolOK
<1>4. ASSUME NEW j \in 0 .. last - 1
      PROVE  entry(d, j) \in Payees(pool) \ {p}
  <2>1. at(j) \in 0 .. last /\ at(j) # i BY <1>2
  <2>2. entry(pool, at(j)) # entry(pool, i) BY <1>2, <1>3, <2>1
  <2>3. entry(pool, at(j)) \in Payees(pool) BY <1>2, <2>1 DEF Payees
  <2>4. entry(d, j) = entry(pool, at(j)) BY <1>1
  <2> QED BY <2>2, <2>3, <2>4
<1>5. ASSUME NEW e \in Payees(pool) \ {p} PROVE e \in Payees(d)
  <2>1. PICK k \in 0 .. last : e = entry(pool, k) BY <1>2 DEF Payees
  <2>2. k # i BY <2>1
  <2>3. CASE k = last
    <3>1. i \in 0 .. last - 1 /\ at(i) = k BY <1>2, <2>2, <2>3
    <3>2. entry(d, i) = e BY <1>1, <2>1, <3>1
    <3> QED BY <1>2, <3>1, <3>2 DEF Payees
  <2>4. CASE k # last
    <3>1. k \in 0 .. last - 1 /\ at(k) = k BY <1>2, <2>2, <2>4
    <3>2. entry(d, k) = e BY <1>1, <2>1, <3>1
    <3> QED BY <1>2, <3>1, <3>2 DEF Payees
  <2> QED BY <2>3, <2>4
<1>6. Payees(d) = {entry(d, j) : j \in 0 .. last - 1} BY <1>2 DEF Payees
<1>7. p \in Payees(pool) BY DEF Payees
<1> HIDE DEF d, p, entry, at
<1>8. Payees(d) = Payees(pool) \ {p} BY <1>4, <1>5, <1>6
<1> QED BY <1>7, <1>8 DEF d

\* Adding a treasury adds exactly its payee.
LEMMA AdditionPayees ==
  ASSUME NEW pool, PoolOK(pool), NEW address \in Wallet, NEW rate \in U64,
         pool.team_count < MaxTeam, TreasuryFits(pool, address, rate)
  PROVE  /\ <<address, rate>> \notin Payees(pool)
         /\ Payees([pool EXCEPT !.team_treasury[pool.team_count] = address,
                                !.treasury_rate[pool.team_count] = rate,
                                !.team_count = pool.team_count + 1])
               = Payees(pool) \cup {<<address, rate>>}
<1> DEFINE n == pool.team_count
           q == [pool EXCEPT !.team_treasury[n] = address,
                             !.treasury_rate[n] = rate,
                             !.team_count = n + 1]
           entry(z, j) == <<z.team_treasury[j], z.treasury_rate[j]>>
           p == <<address, rate>>
<1>1. /\ n \in Nat /\ n \in Slot /\ pool \in GlobalPool
      /\ pool.team_treasury \in [Slot -> Key]
      /\ pool.treasury_rate \in [Slot -> U64]
      /\ 0 .. n - 1 \subseteq Slot
  BY IntegersAssumption DEF PoolOK, GlobalPool, Slot
<1>2. /\ q.team_count = n + 1
      /\ q.team_treasury = [pool.team_treasury EXCEPT ![n] = address]
      /\ q.treasury_rate = [pool.treasury_rate EXCEPT ![n] = rate]
  BY <1>1 DEF GlobalPool
<1>3. /\ ActiveSlots(pool) = 0 .. n - 1
      /\ ActiveSlots(q) = (0 .. n - 1) \cup {n}
  BY <1>1, <1>2 DEF ActiveSlots
<1>4. /\ entry(q, n) = p
      /\ \A j \in 0 .. n - 1 : entry(q, j) = entry(pool, j)
  BY <1>1, <1>2
<1>5. \A j \in 0 .. n - 1 : entry(pool, j) # p
  BY <1>3 DEF TreasuryFits
<1>6. /\ Payees(pool) = {entry(pool, j) : j \in 0 .. n - 1}
      /\ Payees(q) = {entry(q, j) : j \in (0 .. n - 1) \cup {n}}
  BY <1>3 DEF Payees
<1> HIDE DEF n, entry, p, q
<1>7. Payees(q) = Payees(pool) \cup {p} /\ p \notin Payees(pool)
  BY <1>4, <1>5, <1>6
<1> QED BY <1>7 DEF n, p, q

\* A removal or an addition never disturbs another payee, for every number of
\* slots: the swap with the last slot moves entries but loses none.
THEOREM OneTreasuryAtATime == TreasurySpec => OnePayeeAtATime
<1> DEFINE pool == global_authority
           Step == \/ Payees(pool') = Payees(pool)
                   \/ \E p \in Payees(pool) : Payees(pool') = Payees(pool) \ {p}
                   \/ \E p \in Payees(pool') : Payees(pool) = Payees(pool') \ {p}
<1>1. ASSUME TreasuryInv, TreasuryNext PROVE Step
  <2>1. PICK admin \in User :
           \/ Initialize(admin)
           \/ \E fee \in FeeInput : UpdateFee(admin, fee)
           \/ \E address \in Wallet, rate \in RateInput :
                 AddTeamTreasury(admin, address, rate)
           \/ \E address \in Wallet : RemoveTeamTreasury(admin, address)
    BY <1>1 DEF TreasuryNext
  <2> USE <1>1 DEF TreasuryInv
  <2>2. CASE Initialize(admin)
    <3>1. pool.team_count = 0 BY <2>2 DEF Initialize
    <3>2. pool'.team_count = 0 BY <2>2 DEF Initialize, NoGlobalPool
    <3>3. Payees(pool) = {} /\ Payees(pool') = {}
      BY <3>1, <3>2 DEF Payees, ActiveSlots
    <3> QED BY <3>3
  <2>3. ASSUME NEW fee \in FeeInput, UpdateFee(admin, fee) PROVE Step
    <3>1. pool' = [pool EXCEPT !.market_fee_sol = fee]
      BY <2>3 DEF UpdateFee
    <3>2. Payees(pool') = Payees(pool)
      BY <3>1 DEF Payees, ActiveSlots, PoolOK, GlobalPool
    <3> QED BY <3>2
  <2>4. ASSUME NEW address \in Wallet, NEW rate \in RateInput,
               AddTeamTreasury(admin, address, rate)
        PROVE  Step
    <3>1. rate \in U64 BY TreasuryInputAssumption
    <3>2. /\ pool.team_count < MaxTeam /\ TreasuryFits(pool, address, rate)
          /\ pool' = [pool EXCEPT !.team_treasury[pool.team_count] = address,
                                  !.treasury_rate[pool.team_count] = rate,
                                  !.team_count = pool.team_count + 1]
      BY <2>4 DEF AddTeamTreasury
    <3>3. PoolOK(pool) OBVIOUS
    <3> HIDE <1>1 DEF TreasuryInv, Step
    <3>4. /\ <<address, rate>> \notin Payees(pool)
          /\ Payees(pool') = Payees(pool) \cup {<<address, rate>>}
      BY <3>1, <3>2, <3>3, AdditionPayees
    <3>5. <<address, rate>> \in Payees(pool')
          /\ Payees(pool) = Payees(pool') \ {<<address, rate>>}
      BY <3>4
    <3> QED BY <3>5 DEF Step
  <2>5. ASSUME NEW address \in Wallet, RemoveTeamTreasury(admin, address)
        PROVE  Step
    <3>1. PICK i \in ActiveSlots(pool) : pool.team_treasury[i] = address
      BY <2>5 DEF RemoveTeamTreasury
    <3>2. pool' = DropSlot(pool, i)
      <4>1. pool' = RemovalLoop(pool, address) BY <2>5 DEF RemoveTeamTreasury
      <4>2. RemovalLoop(pool, address) = DropSlot(pool, i)
        BY <3>1, RemovalDropsOne DEF PoolOK
      <4> QED BY <4>1, <4>2
    <3>3. \E p \in Payees(pool) : Payees(pool') = Payees(pool) \ {p}
      BY <3>2, DropSlotPayees
    <3> QED BY <3>3
  <2> QED BY <2>1, <2>2, <2>3, <2>4, <2>5
<1>2. TreasuryInv /\ [TreasuryNext]_global_authority
         => [Step]_global_authority
  BY <1>1
<1> QED BY <1>2, TreasuryWellFormed, PTL DEF TreasurySpec, OnePayeeAtATime

-----------------------------------------------------------------------------
\* Without the slots there are as many payees, and they get as much.
LEMMA PayeesCount ==
  ASSUME NEW pool, PoolOK(pool)
  PROVE  /\ Cardinality(Payees(pool)) = pool.team_count
         /\ Sum(Payees(pool), [entry \in Payees(pool) |-> entry[2]])
               = RateSum(pool)
<1> DEFINE S == ActiveSlots(pool)
           h == [i \in S |-> <<pool.team_treasury[i], pool.treasury_rate[i]>>]
           g == [entry \in Payees(pool) |-> entry[2]]
           r == pool.treasury_rate
<1>1. pool.team_count \in Nat /\ \A i \in S : r[i] \in Int
  BY IntegersAssumption DEF PoolOK, GlobalPool, ActiveSlots, Slot, U64
<1>2. IsFiniteSet(S) /\ Cardinality(S) = pool.team_count
  BY <1>1, FS_Interval DEF ActiveSlots
<1>3. Payees(pool) = {h[i] : i \in S} BY DEF Payees
<1>4. \A i \in S : g[h[i]] = r[i] BY DEF Payees
<1>5. \A i, j \in S : h[i] = h[j] => i = j BY DEF PoolOK
<1> HIDE DEF S, h, g, r
<1>6. /\ Cardinality({h[i] : i \in S}) = Cardinality(S)
      /\ Sum({h[i] : i \in S}, g) = Sum(S, r)
  BY <1>1, <1>2, <1>4, <1>5, SumImage
<1>7. Sum(S, r) = RateSum(pool) BY DEF RateSum, S, r
<1>8. Cardinality(Payees(pool)) = pool.team_count BY <1>2, <1>3, <1>6
<1>9. Sum(Payees(pool), g) = RateSum(pool) BY <1>3, <1>6, <1>7
<1> QED BY <1>8, <1>9 DEF g

\* The team's total is the sum over the slots in use.
LEMMA TeamAddsUp ==
  ASSUME PoolOK(global_authority)
  PROVE  Team!Total = RateSum(global_authority)
<1>1. \A S, f : Team!Sum(S, f) = Sum(S, f) BY DEF Sum, Team!Sum
<1> QED BY <1>1, PayeesCount DEF Team!Total

\* Every administrative step is one step of the team.
LEMMA TeamStep ==
  ASSUME TreasuryInv, TreasuryNext
  PROVE  Team!Next \/ UNCHANGED Team!teamShares
<1> DEFINE pool == global_authority
<1> USE DEF Team!teamShares, Team!Next
<1>1. PoolOK(pool) /\ pool \in GlobalPool BY DEF TreasuryInv, PoolOK
<1>2. PICK admin \in User :
         \/ Initialize(admin)
         \/ \E fee \in FeeInput : UpdateFee(admin, fee)
         \/ \E address \in Wallet, rate \in RateInput :
               AddTeamTreasury(admin, address, rate)
         \/ \E address \in Wallet : RemoveTeamTreasury(admin, address)
  BY DEF TreasuryNext
<1>3. CASE Initialize(admin)
  <2>1. /\ pool.super_admin = Default /\ pool.team_count = 0
        /\ pool' = [NoGlobalPool EXCEPT !.super_admin = admin]
    BY <1>3 DEF Initialize, TreasuryInv, GlobalExists
  <2>2. /\ pool'.super_admin = admin /\ pool'.market_fee_sol = 0
        /\ pool'.team_count = 0
    BY <2>1 DEF NoGlobalPool
  <2>3. Payees(pool) = {} /\ Payees(pool') = {}
    BY <2>1, <2>2 DEF Payees, ActiveSlots
  <2>4. pool.market_fee_sol = 0
    BY <2>1 DEF TreasuryInv, GlobalExists
  <2>5. Team!SetUp(admin) BY <2>1, <2>2, <2>3, <2>4 DEF Team!SetUp
  <2> QED BY <2>5
<1>4. ASSUME NEW part \in FeeInput, UpdateFee(admin, part)
      PROVE  Team!SetFee(part)
  <2>1. /\ pool.super_admin # Default /\ part < PERMYRIAD
        /\ pool' = [pool EXCEPT !.market_fee_sol = part]
    BY <1>4 DEF UpdateFee, SetTreshold, GlobalExists
  <2>2. /\ pool'.super_admin = pool.super_admin
        /\ pool'.market_fee_sol = part
        /\ Payees(pool') = Payees(pool)
    BY <1>1, <2>1 DEF GlobalPool, Payees, ActiveSlots
  <2> QED BY <2>1, <2>2 DEF Team!SetFee
<1>5. ASSUME NEW address \in Wallet, NEW rate \in RateInput,
             AddTeamTreasury(admin, address, rate)
      PROVE  Team!Admit(address, rate)
  <2>1. /\ pool.super_admin # Default /\ pool.team_count < MaxTeam
        /\ TreasuryFits(pool, address, rate)
        /\ pool' = [pool EXCEPT !.team_treasury[pool.team_count] = address,
                                !.treasury_rate[pool.team_count] = rate,
                                !.team_count = pool.team_count + 1]
    BY <1>5 DEF AddTeamTreasury, AddTreasury, GlobalExists
  <2>2. rate \in U64 BY TreasuryInputAssumption
  <2>3. Payees(pool') = Payees(pool) \cup {<<address, rate>>}
    BY <1>1, <2>1, <2>2, AdditionPayees
  <2>4. /\ pool'.super_admin = pool.super_admin
        /\ pool'.market_fee_sol = pool.market_fee_sol
    BY <1>1, <2>1 DEF GlobalPool
  <2>5. Team!Cardinality(Payees(pool)) < MaxTeam
    BY <1>1, <2>1, PayeesCount DEF Cardinality, Team!Cardinality
  <2>6. rate > 0 /\ Team!Total + rate <= PERMYRIAD
    <3>1. rate > 0 /\ rate + RateSum(pool) <= PERMYRIAD
      BY <2>1 DEF TreasuryFits
    <3>2. RateSum(pool) \in Int
      <4> DEFINE S == ActiveSlots(pool)
                 r == pool.treasury_rate
      <4>1. IsFiniteSet(S) BY <1>1, FS_Interval DEF GlobalPool, ActiveSlots
      <4>2. \A j \in S : r[j] \in Int
        BY <1>1, IntegersAssumption DEF GlobalPool, ActiveSlots, Slot, U64
      <4>3. Sum(S, r) \in Int
        <5> HIDE DEF S, r
        <5> QED BY <4>1, <4>2, SumInteger
      <4> QED BY <4>3 DEF RateSum
    <3>3. Team!Total = RateSum(pool) BY <1>1, TeamAddsUp
    <3>4. rate \in Int BY <2>2 DEF U64
    <3> HIDE DEF pool
    <3> QED BY <3>1, <3>2, <3>3, <3>4
  <2>7. \A entry \in Payees(pool) : entry[1] # address
    BY <2>1 DEF Payees, TreasuryFits
  <2> QED BY <2>1, <2>3, <2>4, <2>5, <2>6, <2>7 DEF Team!Admit
<1>6. ASSUME NEW address \in Wallet, RemoveTeamTreasury(admin, address)
      PROVE  \E entry \in Payees(pool) : Team!Dismiss(entry)
  <2>1. PICK i \in ActiveSlots(pool) : pool.team_treasury[i] = address
    BY <1>6 DEF RemoveTeamTreasury
  <2>2. pool' = DropSlot(pool, i)
    <3>1. pool' = RemovalLoop(pool, address) BY <1>6 DEF RemoveTeamTreasury
    <3>2. RemovalLoop(pool, address) = DropSlot(pool, i)
      BY <1>1, <2>1, RemovalDropsOne DEF PoolOK
    <3> QED BY <3>1, <3>2
  <2>3. PICK p \in Payees(pool) : Payees(pool') = Payees(pool) \ {p}
    BY <1>1, <2>2, DropSlotPayees
  <2>4. /\ pool'.super_admin = pool.super_admin
        /\ pool'.market_fee_sol = pool.market_fee_sol
    BY <1>1, <2>2 DEF DropSlot, GlobalPool
  <2>5. Team!Dismiss(p) BY <2>3, <2>4 DEF Team!Dismiss
  <2> QED BY <2>5
<1> QED BY <1>2, <1>3, <1>4, <1>5, <1>6

\* The array with its count, its search and its swap with the last slot is a
\* team without slots: nobody is admitted twice or beyond the whole, and a
\* removal takes exactly one member's share, for every number of slots.
THEOREM TreasuryImplementsTeam == TreasurySpec => TeamImplemented
<1>1. TreasuryInit => Team!Init
  <2>1. TreasuryInit => Payees(global_authority) = {}
    BY DEF TreasuryInit, NoGlobalPool, Payees, ActiveSlots
  <2> QED BY <2>1 DEF TreasuryInit, NoGlobalPool, Team!Init
<1>2. TreasuryInv /\ [TreasuryNext]_global_authority
         => [Team!Next]_Team!teamShares
  <2>1. UNCHANGED global_authority => UNCHANGED Team!teamShares
    BY DEF Team!teamShares, Payees, ActiveSlots
  <2> QED BY <2>1, TeamStep
<1> QED
  BY <1>1, <1>2, TreasuryWellFormed, PTL
  DEF TreasurySpec, TeamImplemented, Team!Spec
=============================================================================
