---------------------------- MODULE PaymentProofs ----------------------------
(***************************************************************************)
(* What the payments of a sale preserve: amounts and balances are never    *)
(* negative, whatever the fees, rates and royalties are.                   *)
(***************************************************************************)
EXTENDS Payments, TreasuryProofs, SequenceTheorems

\* The legs of a sale: who gets how much.
LegData == [to : Key, amount : Nat]

\* A sale in which each creator is named once, as the client names them.
SaleLegs(price, m, seller) ==
    SellerLeg(price, m, seller) \o TeamLegs(price) \o CreatorLegs(price, m)

\* What is stored in a u64 is one.
LEMMA WrappedU64 ==
  ASSUME NEW x \in Int
  PROVE  Wrapped(x) \in U64 /\ Wrapped(x) \in Nat
<1>1. MaxU64 \in Nat BY IntegersAssumption
<1> QED BY <1>1 DEF Wrapped, U64

\* A share of a u64 amount is a natural number.
LEMMA ShareNat ==
  ASSUME NEW x \in Nat, NEW y \in Nat, NEW d \in Nat \ {0}
  PROVE  Wrapped(x * y) \div d \in Nat
<1>1. x * y \in Int OBVIOUS
<1>2. Wrapped(x * y) \in Nat BY <1>1, WrappedU64
<1> HIDE DEF Wrapped
<1> QED BY <1>2

\* The fees of a sale are naturals.
LEMMA FeesNat ==
  ASSUME TreasuryTypeOK, NEW price \in U64, NEW m \in Mint
  PROVE  /\ MarketFee(price) \in Nat
         /\ RoyaltyFee(price, m) \in Nat
         /\ TotalFee(price, m) \in Nat
<1>1. /\ price \in Nat /\ global_authority.market_fee_sol \in Nat
      /\ PERMYRIAD \in Nat \ {0}
  BY IntegersAssumption DEF TreasuryTypeOK, GlobalPool, U64, PERMYRIAD
<1>2. Metadata[m].seller_fee_basis_points \in Nat
  BY <1>1, MetadataAssumption
<1>3. MarketFee(price) \in Nat BY <1>1, ShareNat DEF MarketFee
<1>4. RoyaltyFee(price, m) \in Nat BY <1>1, <1>2, ShareNat DEF RoyaltyFee
<1>5. TotalFee(price, m) \in Nat
  <2>1. RoyaltyFee(price, m) + MarketFee(price) \in Int BY <1>3, <1>4
  <2> QED BY <2>1, WrappedU64 DEF TotalFee
<1> QED BY <1>3, <1>4, <1>5

\* The legs of a sale are legs.
LEMMA SellerLegType ==
  ASSUME TreasuryTypeOK, NEW price \in U64, NEW m \in Mint, NEW seller \in Key
  PROVE  SellerLeg(price, m, seller) \in Seq(LegData)
<1>1. price - TotalFee(price, m) \in Int
  BY FeesNat, IntegersAssumption DEF U64
<1>2. Wrapped(price - TotalFee(price, m)) \in Nat BY <1>1, WrappedU64
<1>3. Leg(seller, Wrapped(price - TotalFee(price, m))) \in LegData
  BY <1>2 DEF Leg, LegData
<1> QED BY <1>3 DEF SellerLeg

LEMMA TeamLegsType ==
  ASSUME TreasuryTypeOK, NEW price \in U64, NEW m \in Mint
  PROVE  TeamLegs(price) \in Seq(LegData)
<1> DEFINE n == global_authority.team_count
<1>1. n \in Nat /\ n <= MaxTeam
  BY IntegersAssumption DEF TreasuryTypeOK, GlobalPool
<1>2. ASSUME NEW k \in 1 .. n
      PROVE  Leg(global_authority.team_treasury[k - 1],
                 Wrapped(MarketFee(price) * global_authority.treasury_rate[k - 1])
                    \div PERMYRIAD) \in LegData
  <2>1. k - 1 \in Slot BY <1>1, IntegersAssumption DEF Slot
  <2>2. /\ global_authority.team_treasury[k - 1] \in Key
        /\ global_authority.treasury_rate[k - 1] \in Nat
    BY <2>1, IntegersAssumption DEF TreasuryTypeOK, GlobalPool, U64
  <2>3. Wrapped(MarketFee(price) * global_authority.treasury_rate[k - 1])
           \div PERMYRIAD \in Nat
    BY <2>2, FeesNat, ShareNat DEF PERMYRIAD
  <2> QED BY <2>2, <2>3 DEF Leg, LegData
<1>3. TeamLegs(price) \in [1 .. n -> LegData] BY <1>2 DEF TeamLegs
<1> QED BY <1>1, <1>3

\* The creators of an NFT, by number.
LEMMA CreatorsKnown ==
  ASSUME NEW m \in Mint, HasCreators(m)
  PROVE  LET c == Metadata[m].creators
         IN  /\ Len(c) \in Nat /\ DOMAIN c = 1 .. Len(c)
             /\ \A k \in 1 .. Len(c) :
                   c[k].address \in Wallet /\ c[k].share \in Nat
<1> DEFINE c == Metadata[m].creators
<1>1. c \in Seq([address : Wallet, share : 0 .. 100])
  BY MetadataAssumption DEF HasCreators
<1>2. DOMAIN c = 1 .. Len(c) /\ Len(c) \in Nat BY <1>1
<1>3. ASSUME NEW k \in 1 .. Len(c)
      PROVE  c[k].address \in Wallet /\ c[k].share \in Nat
  <2>1. c[k] \in [address : Wallet, share : 0 .. 100]
    BY <1>1, <1>3, ElementOfSeq, Zenon
  <2>2. c[k].address \in Wallet /\ c[k].share \in 0 .. 100
    BY <2>1, Zenon
  <2>3. \A x \in 0 .. 100 : x \in Nat OBVIOUS
  <2> QED BY <2>2, <2>3, Zenon
<1> QED BY <1>2, <1>3

LEMMA CreatorLegsType ==
  ASSUME TreasuryTypeOK, NEW price \in U64, NEW m \in Mint, HasCreators(m)
  PROVE  CreatorLegs(price, m) \in Seq(LegData)
<1> DEFINE c == Metadata[m].creators
<1>1. /\ Len(c) \in Nat /\ DOMAIN c = 1 .. Len(c)
      /\ \A k \in 1 .. Len(c) : c[k].address \in Wallet /\ c[k].share \in Nat
  BY CreatorsKnown
<1>2. ASSUME NEW k \in 1 .. Len(c)
      PROVE  Leg(c[k].address, Wrapped(RoyaltyFee(price, m) * c[k].share)
                                  \div 100) \in LegData
  <2>1. c[k].address \in Key /\ c[k].share \in Nat BY <1>1, <1>2 DEF Key
  <2>2. Wrapped(RoyaltyFee(price, m) * c[k].share) \div 100 \in Nat
    BY <2>1, FeesNat, ShareNat
  <2> QED BY <2>1, <2>2 DEF Leg, LegData
<1>3. CreatorLegs(price, m) \in [1 .. Len(c) -> LegData]
  BY <1>1, <1>2 DEF CreatorLegs
<1> QED BY <1>1, <1>3

LEMMA SaleLegsType ==
  ASSUME TreasuryTypeOK, NEW price \in U64, NEW m \in Mint, HasCreators(m),
         NEW seller \in Key
  PROVE  SaleLegs(price, m, seller) \in Seq(LegData)
BY SellerLegType, TeamLegsType, CreatorLegsType, ConcatProperties DEF SaleLegs

-----------------------------------------------------------------------------
\* The intermediate balances of a sequence of payments, up to leg n.
Payments(g, balance, from, legs, n) ==
    /\ g = [k \in 0 .. n |-> g[k]]
    /\ g[0] = balance
    /\ \A k \in 1 .. n : g[k] = Pay(g[k - 1], from, legs[k].to, legs[k].amount)

LEMMA PaymentsExist ==
  ASSUME NEW balance, NEW from, NEW legs, NEW n \in Nat
  PROVE  \E g : Payments(g, balance, from, legs, n)
<1> DEFINE Done == {k \in Nat : \E g : Payments(g, balance, from, legs, k)}
           next(b, k) == Pay(b, from, legs[k].to, legs[k].amount)
<1>1. 0 \in Done
  <2> DEFINE g == [i \in 0 .. 0 |-> balance]
  <2>1. Payments(g, balance, from, legs, 0) BY DEF Payments
  <2>2. \E h : Payments(h, balance, from, legs, 0)
    <3> HIDE DEF g
    <3> QED BY <2>1
  <2> QED BY <2>2
<1>2. ASSUME NEW k \in Nat, k \in Done PROVE k + 1 \in Done
  <2>1. PICK g : Payments(g, balance, from, legs, k) BY <1>2
  <2> DEFINE h == [i \in 0 .. k + 1 |-> IF i <= k THEN g[i] ELSE next(g[k], i)]
  <2> HIDE DEF next
  <2>2. h[0] = balance BY <2>1 DEF Payments
  <2>3. ASSUME NEW i \in 1 .. k + 1 PROVE h[i] = next(h[i - 1], i)
    <3>1. h[i - 1] = g[i - 1] OBVIOUS
    <3>2. CASE i <= k
      <4>1. i \in 1 .. k BY <3>2
      <4>2. g[i] = next(g[i - 1], i) BY <4>1, <2>1 DEF Payments, next
      <4> QED BY <3>1, <3>2, <4>2
    <3>3. CASE ~(i <= k)
      <4>1. i = k + 1 /\ i - 1 = k BY <3>3
      <4> QED BY <3>1, <3>3, <4>1
    <3> QED BY <3>2, <3>3
  <2>4. h = [i \in 0 .. k + 1 |-> h[i]] OBVIOUS
  <2>5. \E f : Payments(f, balance, from, legs, k + 1)
    <3> HIDE DEF h
    <3> QED BY <2>2, <2>3, <2>4 DEF Payments, next
  <2> QED BY <2>5
<1> HIDE DEF Done
<1>3. \A k \in Nat : k \in Done BY <1>1, <1>2, NatSetInduction
<1> QED BY <1>3 DEF Done

\* PaidUpTo makes the payments.
LEMMA PaidUpToPayments ==
  ASSUME NEW balance, NEW from, NEW legs, Len(legs) \in Nat
  PROVE  Payments(PaidUpTo(balance, from, legs), balance, from, legs, Len(legs))
<1> DEFINE n == Len(legs)
           Body(g) == [k \in 0 .. n |->
                         IF k = 0 THEN balance
                         ELSE Pay(g[k - 1], from, legs[k].to, legs[k].amount)]
           after == CHOOSE g : g = Body(g)
<1>1. \E g : g = Body(g)
  <2>1. PICK g : Payments(g, balance, from, legs, n) BY PaymentsExist
  <2>2. ASSUME NEW k \in 0 .. n PROVE g[k] = Body(g)[k]
    BY <2>1 DEF Payments
  <2>3. g = [k \in 0 .. n |-> g[k]] BY <2>1 DEF Payments
  <2>4. g = Body(g) BY <2>2, <2>3
  <2> QED BY <2>4
<1>2. after = Body(after) BY <1>1
<1>3. Payments(after, balance, from, legs, n)
  <2> HIDE DEF after
  <2> QED BY <1>2 DEF Payments
<1>4. PaidUpTo(balance, from, legs) = after BY DEF PaidUpTo
<1> QED BY <1>3, <1>4

\* One payment that can be made keeps every balance a natural.
LEMMA PayType ==
  ASSUME NEW D, NEW balance \in [D -> Nat], NEW from \in D, NEW to,
         NEW amount \in Nat, CanPay(balance, from, amount)
  PROVE  Pay(balance, from, to, amount) \in [D -> Nat]
<1> DEFINE mid == [balance EXCEPT ![from] = @ - amount]
<1>1. mid \in [D -> Nat] BY DEF CanPay
<1>2. Pay(balance, from, to, amount) = [mid EXCEPT ![to] = @ + amount]
  BY DEF Pay
<1> HIDE DEF mid
<1>3. CASE to \in D BY <1>1, <1>2, <1>3
<1>4. CASE to \notin D BY <1>1, <1>2, <1>4
<1> QED BY <1>3, <1>4

\* Payments that can all be made keep every balance a natural: a sale never
\* overdraws its payer, not even half way through its transfers.
LEMMA PaidAllType ==
  ASSUME NEW D, NEW balance \in [D -> Nat], NEW from \in D,
         NEW legs \in Seq(LegData), CanPayAll(balance, from, legs)
  PROVE  PaidAll(balance, from, legs) \in [D -> Nat]
<1> DEFINE n == Len(legs)
           g == PaidUpTo(balance, from, legs)
           Done == {k \in Nat : k <= n => g[k] \in [D -> Nat]}
<1>1. n \in Nat /\ \A k \in 1 .. n : legs[k].amount \in Nat
  <2>1. n \in Nat BY LenProperties
  <2>2. ASSUME NEW k \in 1 .. n PROVE legs[k].amount \in Nat
    <3>1. legs[k] \in LegData BY <2>2, ElementOfSeq
    <3> QED BY <3>1 DEF LegData
  <2> QED BY <2>1, <2>2
<1>2. Payments(g, balance, from, legs, n) BY <1>1, PaidUpToPayments
<1> HIDE DEF g
<1>3. 0 \in Done BY <1>2 DEF Payments
<1>4. ASSUME NEW k \in Nat, k \in Done PROVE k + 1 \in Done
  <2> SUFFICES ASSUME k + 1 <= n PROVE g[k + 1] \in [D -> Nat] OBVIOUS
  <2>1. k + 1 \in 1 .. n /\ k <= n /\ (k + 1) - 1 = k BY <1>1
  <2>2. g[k] \in [D -> Nat] BY <1>4, <2>1
  <2>3. CanPay(g[k], from, legs[k + 1].amount)
    BY <2>1 DEF CanPayAll, g
  <2>4. g[k + 1] = Pay(g[k], from, legs[k + 1].to, legs[k + 1].amount)
    BY <1>2, <2>1 DEF Payments
  <2> QED BY <1>1, <2>1, <2>2, <2>3, <2>4, PayType
<1>5. n \in Done
  <2> HIDE DEF Done
  <2> QED BY <1>1, <1>3, <1>4, NatSetInduction
<1> QED BY <1>1, <1>5 DEF PaidAll, g
-----------------------------------------------------------------------------
(***************************************************************************)
(* What a sale pays out altogether.  Every share is rounded down by        *)
(* itself, so a share times what it is a share of never exceeds it.        *)
(***************************************************************************)
Amounts(legs) == [k \in DOMAIN legs |-> legs[k].amount]
LegTotal(legs) == Sum(DOMAIN legs, Amounts(legs))

LEMMA LegTotalNat ==
  ASSUME NEW legs \in Seq(LegData)
  PROVE  /\ Len(legs) \in Nat /\ DOMAIN legs = 1 .. Len(legs)
         /\ \A k \in 1 .. Len(legs) :
               Amounts(legs)[k] = legs[k].amount /\ legs[k].amount \in Nat
         /\ LegTotal(legs) \in Nat
<1>1. Len(legs) \in Nat /\ DOMAIN legs = 1 .. Len(legs) BY LenProperties
<1>2. ASSUME NEW k \in 1 .. Len(legs)
      PROVE  Amounts(legs)[k] = legs[k].amount /\ legs[k].amount \in Nat
  <2>1. legs[k] \in LegData BY <1>2, ElementOfSeq
  <2> QED BY <1>1, <2>1 DEF Amounts, LegData
<1>3. IsFiniteSet(1 .. Len(legs)) BY <1>1, FS_Interval
<1>4. \A k \in 1 .. Len(legs) : Amounts(legs)[k] \in Nat BY <1>2
<1>5. Sum(1 .. Len(legs), Amounts(legs)) \in Nat BY <1>3, <1>4, SumNatural
<1> QED BY <1>1, <1>2, <1>5 DEF LegTotal

\* Payments one after the other cost what they cost apart.
LEMMA LegTotalConcat ==
  ASSUME NEW s \in Seq(LegData), NEW t \in Seq(LegData)
  PROVE  /\ s \o t \in Seq(LegData)
         /\ LegTotal(s \o t) = LegTotal(s) + LegTotal(t)
<1> DEFINE p == Len(s)
           q == Len(t)
           st == s \o t
           f == Amounts(st)
<1>1. /\ st \in Seq(LegData) /\ Len(st) = p + q
      /\ \A k \in 1 .. p : st[k] = s[k]
      /\ \A k \in 1 .. q : st[p + k] = t[k]
  <2>1. p \in Nat /\ q \in Nat BY LenProperties
  <2>2. /\ st \in Seq(LegData) /\ Len(st) = p + q
        /\ \A i \in 1 .. Len(s) + Len(t) :
              st[i] = IF i <= Len(s) THEN s[i] ELSE t[i - Len(s)]
    BY ConcatProperties
  <2>3. ASSUME NEW k \in 1 .. p PROVE st[k] = s[k] BY <2>1, <2>2
  <2>4. ASSUME NEW k \in 1 .. q PROVE st[p + k] = t[k]
    <3> HIDE DEF st
    <3>1. p + k \in 1 .. Len(s) + Len(t) /\ ~(p + k <= Len(s)) BY <2>1
    <3>2. (p + k) - Len(s) = k BY <2>1
    <3> QED BY <2>2, <3>1, <3>2
  <2> QED BY <2>2, <2>3, <2>4
<1>2. /\ p \in Nat /\ DOMAIN s = 1 .. p
      /\ \A k \in 1 .. p : Amounts(s)[k] = s[k].amount /\ s[k].amount \in Nat
  BY LegTotalNat
<1>3. /\ q \in Nat /\ DOMAIN t = 1 .. q
      /\ \A k \in 1 .. q : Amounts(t)[k] = t[k].amount /\ t[k].amount \in Nat
  BY LegTotalNat
<1>4. /\ DOMAIN st = 1 .. (p + q)
      /\ \A k \in 1 .. (p + q) : f[k] = st[k].amount /\ st[k].amount \in Nat
  BY <1>1, LegTotalNat
<1> HIDE DEF st, f, p, q
<1>5. Sum(1 .. (p + q), f) = Sum(1 .. p, f) + Sum((p + 1) .. (p + q), f)
  <2>1. \A k \in 1 .. (p + q) : f[k] \in Int BY <1>4
  <2> QED BY <1>2, <1>3, <2>1, SumSplit
<1>6. Sum(1 .. p, f) = Sum(1 .. p, Amounts(s))
  <2>1. IsFiniteSet(1 .. p) BY <1>2, FS_Interval
  <2>2. \A k \in 1 .. p : f[k] = Amounts(s)[k] BY <1>1, <1>2, <1>3, <1>4
  <2> QED BY <2>1, <2>2, SumEqual
<1>7. Sum((p + 1) .. (p + q), f) = Sum(1 .. q, Amounts(t))
  <2>1. ASSUME NEW k \in 1 .. q
        PROVE  f[p + k] = Amounts(t)[k] /\ Amounts(t)[k] \in Int
    <3>1. p + k \in 1 .. (p + q) BY <1>2, <1>3
    <3> QED BY <1>1, <1>3, <1>4, <3>1
  <2> QED BY <1>2, <1>3, <2>1, SumToOne
<1> QED BY <1>1, <1>2, <1>3, <1>4, <1>5, <1>6, <1>7 DEF LegTotal, st, f

\* Storing a natural in a u64 never makes it larger.
LEMMA WrappedAtMost ==
  ASSUME NEW x \in Nat
  PROVE  Wrapped(x) <= x /\ (x <= MaxU64 => Wrapped(x) = x)
<1>1. MaxU64 \in Nat BY IntegersAssumption
<1> QED BY <1>1 DEF Wrapped

\* A number below zero is stored as a large one.
LEMMA WrappedBelow ==
  ASSUME NEW x \in Int, -MaxU64 <= x, x < 0
  PROVE  Wrapped(x) = x + MaxU64 + 1
<1>1. MaxU64 \in Nat BY IntegersAssumption
<1> QED BY <1>1 DEF Wrapped

\* A share of y parts in 10000, or in 100, taken from x.
LEMMA ShareAtMost ==
  ASSUME NEW x \in Nat, NEW y \in Nat
  PROVE  /\ PERMYRIAD * (Wrapped(x * y) \div PERMYRIAD) <= x * y
         /\ 100 * (Wrapped(x * y) \div 100) <= x * y
         /\ Wrapped(x * y) \div PERMYRIAD \in Nat
         /\ Wrapped(x * y) \div 100 \in Nat
<1> DEFINE z == x * y
           w == Wrapped(z)
<1>1. z \in Nat OBVIOUS
<1> HIDE DEF z
<1>2. w \in Nat /\ w <= z BY <1>1, WrappedU64, WrappedAtMost
<1> HIDE DEF w
<1>3. /\ 10000 * (w \div 10000) <= z /\ 100 * (w \div 100) <= z
      /\ w \div 10000 \in Nat /\ w \div 100 \in Nat
  BY <1>1, <1>2
<1> QED BY <1>3 DEF w, z, PERMYRIAD

\* The team's shares never add up to more than the market fee.
LEMMA TeamTotal ==
  ASSUME TreasuryTypeOK, PoolOK(global_authority), NEW price \in U64,
         NEW m \in Mint
  PROVE  LegTotal(TeamLegs(price)) <= MarketFee(price)
<1> DEFINE n == global_authority.team_count
           rate == global_authority.treasury_rate
           fee == MarketFee(price)
           legs == TeamLegs(price)
           f == Amounts(legs)
           g == [k \in 1 .. n |-> rate[k - 1]]
<1>1. /\ n \in Nat /\ fee \in Nat
      /\ \A k \in 1 .. n : rate[k - 1] \in Nat
  <2>1. n \in Nat /\ n <= MaxTeam
    BY IntegersAssumption DEF TreasuryTypeOK, GlobalPool
  <2>2. ASSUME NEW k \in 1 .. n PROVE rate[k - 1] \in Nat
    <3>1. k - 1 \in Slot BY <2>1, IntegersAssumption DEF Slot
    <3> QED BY <3>1, IntegersAssumption DEF TreasuryTypeOK, GlobalPool, U64
  <2> QED BY <2>1, <2>2, FeesNat
<1>2. legs \in Seq(LegData) BY TeamLegsType
<1>3. DOMAIN legs = 1 .. n /\ IsFiniteSet(1 .. n)
  BY <1>1, FS_Interval DEF TeamLegs
<1>4. ASSUME NEW k \in 1 .. n
      PROVE  /\ f[k] \in Nat /\ g[k] \in Nat
             /\ PERMYRIAD * f[k] <= fee * g[k]
  <2>1. f[k] = Wrapped(fee * rate[k - 1]) \div PERMYRIAD
    BY <1>3 DEF Amounts, TeamLegs, Leg
  <2>2. g[k] = rate[k - 1] OBVIOUS
  <2> HIDE DEF f, g, fee
  <2> QED BY <1>1, <2>1, <2>2, ShareAtMost
<1>5. PERMYRIAD * Sum(1 .. n, f) <= fee * Sum(1 .. n, g)
  <2>1. PERMYRIAD \in Nat BY DEF PERMYRIAD
  <2> HIDE DEF f, g, fee
  <2> QED BY <1>1, <1>3, <1>4, <2>1, SumScaled
<1>6. Sum(1 .. n, g) = RateSum(global_authority)
  <2>1. \A k \in 1 .. n : g[k] = rate[k - 1] /\ g[k] \in Int BY <1>1
  <2>2. Sum(1 .. n, g) = Sum(0 .. n - 1, rate)
    <3> HIDE DEF g
    <3> QED BY <1>1, <2>1, SumFromZero
  <2> QED BY <2>2 DEF RateSum, ActiveSlots
<1>7. Sum(1 .. n, f) \in Nat /\ Sum(1 .. n, g) \in Nat
  <2> HIDE DEF f, g, fee
  <2> QED BY <1>3, <1>4, SumNatural
<1>8. Sum(1 .. n, g) <= 10000 BY <1>6 DEF PoolOK, PERMYRIAD
<1>9. ASSUME NEW x \in Nat, NEW y \in Nat, y <= 10000,
             10000 * x <= fee * y
      PROVE  x <= fee
  <2>1. fee * y <= fee * 10000
    <3> HIDE DEF fee
    <3> QED BY <1>1, <1>9
  <2>2. fee * y \in Nat BY <1>1
  <2> HIDE DEF fee
  <2> QED BY <1>1, <1>9, <2>1, <2>2
<1>10. Sum(1 .. n, f) <= fee
  <2> HIDE DEF f, g, fee
  <2> QED BY <1>5, <1>7, <1>8, <1>9 DEF PERMYRIAD
<1> QED BY <1>3, <1>10 DEF LegTotal

\* The creators' shares never add up to more than the royalty.
LEMMA CreatorTotal ==
  ASSUME TreasuryTypeOK, NEW price \in U64, NEW m \in Mint, HasCreators(m)
  PROVE  LegTotal(CreatorLegs(price, m)) <= RoyaltyFee(price, m)
<1> DEFINE c == Metadata[m].creators
           n == Len(c)
           fee == RoyaltyFee(price, m)
           legs == CreatorLegs(price, m)
           f == Amounts(legs)
           g == [k \in DOMAIN c |-> c[k].share]
<1>1. /\ n \in Nat /\ DOMAIN c = 1 .. n /\ fee \in Nat
      /\ \A k \in 1 .. n : c[k].share \in Nat
  BY CreatorsKnown, FeesNat
<1>2. DOMAIN legs = 1 .. n /\ IsFiniteSet(1 .. n)
  <2>1. DOMAIN legs = DOMAIN c BY DEF CreatorLegs
  <2>2. DOMAIN legs = 1 .. n
    <3> HIDE DEF c, legs
    <3> QED BY <1>1, <2>1
  <2>3. IsFiniteSet(1 .. n)
    <3> HIDE DEF c
    <3> QED BY <1>1, FS_Interval
  <2> QED BY <2>2, <2>3
<1>3. ASSUME NEW k \in 1 .. n
      PROVE  f[k] \in Nat /\ g[k] \in Nat /\ 100 * f[k] <= fee * g[k]
  <2>1. f[k] = Wrapped(fee * c[k].share) \div 100
    BY <1>1, <1>2 DEF Amounts, CreatorLegs, Leg
  <2>2. g[k] = c[k].share BY <1>1
  <2> HIDE DEF f, g, fee, c
  <2> QED BY <1>1, <2>1, <2>2, ShareAtMost
<1>4. 100 * Sum(1 .. n, f) <= fee * Sum(1 .. n, g)
  <2> HIDE DEF f, g, fee, c
  <2> QED BY <1>1, <1>2, <1>3, SumScaled
<1>5. Sum(1 .. n, f) \in Nat /\ Sum(1 .. n, g) \in Nat
  <2> HIDE DEF f, g, fee, c
  <2> QED BY <1>2, <1>3, SumNatural
<1>6. Sum(1 .. n, g) <= 100 BY <1>1, SharesAssumption DEF HasCreators
<1>7. ASSUME NEW x \in Nat, NEW y \in Nat, y <= 100, 100 * x <= fee * y
      PROVE  x <= fee
  <2>1. fee * y <= fee * 100
    <3> HIDE DEF fee
    <3> QED BY <1>1, <1>7
  <2>2. fee * y \in Nat BY <1>1
  <2> HIDE DEF fee
  <2> QED BY <1>1, <1>7, <2>1, <2>2
<1>8. Sum(1 .. n, f) <= fee
  <2> HIDE DEF f, g, fee, c
  <2> QED BY <1>4, <1>5, <1>6, <1>7
<1> QED BY <1>2, <1>8 DEF LegTotal

\* One payment, seen by each of its parties and by anybody else.
Paid(paid, balance, D, from, to, amount) ==
    /\ paid[from] = balance[from] - amount
    /\ to \in D => paid[to] = balance[to] + amount
    /\ \A k \in D \ {from, to} : paid[k] = balance[k]

LEMMA PayParts ==
  ASSUME NEW D, NEW balance \in [D -> Nat], NEW from \in D, NEW to,
         NEW amount \in Nat, to # from
  PROVE  Paid(Pay(balance, from, to, amount), balance, D, from, to, amount)
<1> DEFINE mid == [balance EXCEPT ![from] = @ - amount]
           paid == Pay(balance, from, to, amount)
<1>1. /\ mid[from] = balance[from] - amount
      /\ \A k \in D \ {from} : mid[k] = balance[k]
      /\ DOMAIN mid = D
  OBVIOUS
<1>2. paid = [mid EXCEPT ![to] = @ + amount] BY DEF Pay
<1> HIDE DEF mid, paid
<1>3. paid[from] = mid[from] /\ \A k \in D \ {to} : paid[k] = mid[k]
  BY <1>1, <1>2
<1>4. to \in D => paid[to] = mid[to] + amount BY <1>1, <1>2
<1>5. Paid(paid, balance, D, from, to, amount)
  BY <1>1, <1>3, <1>4 DEF Paid
<1> QED BY <1>5 DEF paid

LEMMA PayAside ==
  ASSUME NEW D, NEW balance \in [D -> Nat], NEW from, NEW to, NEW amount,
         NEW k \in D \ {from, to}
  PROVE  Pay(balance, from, to, amount)[k] = balance[k]
<1> DEFINE mid == [balance EXCEPT ![from] = @ - amount]
<1>1. mid[k] = balance[k] /\ DOMAIN mid = D OBVIOUS
<1>2. Pay(balance, from, to, amount) = [mid EXCEPT ![to] = @ + amount]
  BY DEF Pay
<1> HIDE DEF mid
<1> QED BY <1>1, <1>2

\* The payments of a sale leave alone whoever neither pays nor is paid.
LEMMA PaidAllAside ==
  ASSUME NEW D, NEW balance \in [D -> Nat], NEW from \in D,
         NEW legs \in Seq(LegData), CanPayAll(balance, from, legs),
         NEW x \in D \ {from}, \A i \in 1 .. Len(legs) : legs[i].to # x
  PROVE  PaidAll(balance, from, legs)[x] = balance[x]
<1> DEFINE n == Len(legs)
           f == Amounts(legs)
           g == PaidUpTo(balance, from, legs)
           Done == {k \in Nat : k <= n =>
                       g[k] \in [D -> Nat] /\ g[k][x] = balance[x]}
<1>1. /\ n \in Nat /\ DOMAIN legs = 1 .. n
      /\ \A k \in 1 .. n : f[k] = legs[k].amount /\ f[k] \in Nat
  BY LegTotalNat
<1>2. Payments(g, balance, from, legs, n) BY <1>1, PaidUpToPayments
<1> HIDE DEF g, n, f
<1>3. 0 \in Done BY <1>2 DEF Payments
<1>4. ASSUME NEW k \in Nat, k \in Done PROVE k + 1 \in Done
  <2> SUFFICES ASSUME k + 1 <= n
               PROVE  g[k + 1] \in [D -> Nat] /\ g[k + 1][x] = balance[x]
    OBVIOUS
  <2>1. k + 1 \in 1 .. n /\ k <= n /\ (k + 1) - 1 = k BY <1>1
  <2>2. g[k] \in [D -> Nat] /\ g[k][x] = balance[x] BY <1>4, <2>1
  <2>3. CanPay(g[k], from, f[k + 1]) BY <1>1, <2>1 DEF CanPayAll, g, n
  <2>4. g[k + 1] = Pay(g[k], from, legs[k + 1].to, f[k + 1])
    BY <1>1, <1>2, <2>1 DEF Payments
  <2>5. x \in D \ {from, legs[k + 1].to} /\ f[k + 1] \in Nat
    BY <1>1, <2>1 DEF n
  <2>6. g[k + 1] \in [D -> Nat] BY <2>2, <2>3, <2>4, <2>5, PayType
  <2>7. g[k + 1][x] = g[k][x] BY <2>2, <2>4, <2>5, PayAside
  <2> QED BY <2>2, <2>6, <2>7
<1>5. n \in Done
  <2> HIDE DEF Done
  <2> QED BY <1>1, <1>3, <1>4, NatSetInduction
<1> QED BY <1>1, <1>5 DEF PaidAll, g, n

\* The payments of a sale cost their payer the sum of them, if none of them
\* is to himself.
LEMMA PaidAllPayer ==
  ASSUME NEW D, NEW balance \in [D -> Nat], NEW from \in D,
         NEW legs \in Seq(LegData), CanPayAll(balance, from, legs),
         \A i \in 1 .. Len(legs) : legs[i].to # from
  PROVE  PaidAll(balance, from, legs)[from] = balance[from] - LegTotal(legs)
<1> DEFINE n == Len(legs)
           f == Amounts(legs)
           g == PaidUpTo(balance, from, legs)
           Done == {k \in Nat : k <= n =>
                       /\ g[k] \in [D -> Nat]
                       /\ g[k][from] = balance[from] - Sum(1 .. k, f)}
<1>1. /\ n \in Nat /\ DOMAIN legs = 1 .. n
      /\ \A k \in 1 .. n : f[k] = legs[k].amount /\ f[k] \in Nat
  BY LegTotalNat
<1>2. Payments(g, balance, from, legs, n) BY <1>1, PaidUpToPayments
<1> HIDE DEF g, n, f
<1>3. 0 \in Done
  <2>1. g[0] = balance BY <1>2 DEF Payments
  <2>2. 1 .. 0 = {} OBVIOUS
  <2>3. Sum(1 .. 0, f) = 0 BY <2>2, SumEmpty
  <2> QED BY <2>1, <2>3
<1>4. ASSUME NEW k \in Nat, k \in Done PROVE k + 1 \in Done
  <2> SUFFICES ASSUME k + 1 <= n
               PROVE  /\ g[k + 1] \in [D -> Nat]
                      /\ g[k + 1][from] = balance[from] - Sum(1 .. k + 1, f)
    OBVIOUS
  <2>1. k + 1 \in 1 .. n /\ k <= n /\ (k + 1) - 1 = k BY <1>1
  <2>2. /\ g[k] \in [D -> Nat]
        /\ g[k][from] = balance[from] - Sum(1 .. k, f)
    BY <1>4, <2>1
  <2>3. CanPay(g[k], from, f[k + 1])
    BY <1>1, <2>1 DEF CanPayAll, g, n
  <2>4. g[k + 1] = Pay(g[k], from, legs[k + 1].to, f[k + 1])
    BY <1>1, <1>2, <2>1 DEF Payments
  <2>5. legs[k + 1].to # from /\ f[k + 1] \in Nat BY <1>1, <2>1 DEF n
  <2>6. g[k + 1] \in [D -> Nat] BY <2>2, <2>3, <2>4, <2>5, PayType
  <2>7. g[k + 1][from] = g[k][from] - f[k + 1]
    <3>1. Paid(g[k + 1], g[k], D, from, legs[k + 1].to, f[k + 1])
      BY <2>2, <2>4, <2>5, PayParts
    <3> QED BY <3>1 DEF Paid
  <2>8. Sum(1 .. k + 1, f) = f[k + 1] + Sum(1 .. k, f)
    <3>1. 1 .. k + 1 = (1 .. k) \cup {k + 1} /\ k + 1 \notin 1 .. k OBVIOUS
    <3>2. \A i \in (1 .. k) \cup {k + 1} : f[i] \in Int BY <1>1, <2>1
    <3>3. IsFiniteSet(1 .. k) BY FS_Interval
    <3>4. Sum((1 .. k) \cup {k + 1}, f) = f[k + 1] + Sum(1 .. k, f)
      <4> HIDE DEF Done
      <4> QED BY <3>1, <3>2, <3>3, SumAdd
    <3> QED BY <3>1, <3>4
  <2>9. Sum(1 .. k, f) \in Nat
    <3>1. \A i \in 1 .. k : f[i] \in Nat BY <1>1, <2>1
    <3>2. IsFiniteSet(1 .. k) BY FS_Interval
    <3> QED BY <3>1, <3>2, SumNatural
  <2>10. g[k + 1][from] = balance[from] - Sum(1 .. k + 1, f)
    <3>1. balance[from] \in Nat OBVIOUS
    <3> QED BY <2>2, <2>5, <2>7, <2>8, <2>9, <3>1
  <2> QED BY <2>6, <2>10
<1>5. n \in Done
  <2> HIDE DEF Done
  <2> QED BY <1>1, <1>3, <1>4, NatSetInduction
<1>6. LegTotal(legs) = Sum(1 .. n, f) BY <1>1 DEF LegTotal, f
<1>7. PaidAll(balance, from, legs) = g[n] BY DEF PaidAll, g, n
<1> QED BY <1>1, <1>5, <1>6, <1>7 DEF n

\* A checked build refuses the sale in which the fees exceed the price.
LEMMA SaleComputesFits ==
  ASSUME TreasuryTypeOK, OverflowChecks, NEW price \in U64, NEW m \in Mint,
         SaleComputes(price, m)
  PROVE  RoyaltyFee(price, m) + MarketFee(price) <= price
<1> DEFINE R == RoyaltyFee(price, m)
           M == MarketFee(price)
<1>1. R \in Nat /\ M \in Nat BY FeesNat
<1>2. R + M \in U64 /\ price - TotalFee(price, m) \in U64
  BY DEF SaleComputes, Computes
<1>3. TotalFee(price, m) = R + M
  <2>1. R + M \in Nat /\ R + M <= MaxU64
    BY <1>1, <1>2, IntegersAssumption DEF U64
  <2> HIDE DEF R, M
  <2>2. Wrapped(R + M) = R + M BY <2>1, WrappedAtMost
  <2> QED BY <2>2 DEF TotalFee, R, M
<1> HIDE DEF R, M
<1>4. R + M <= price BY <1>1, <1>2, <1>3, IntegersAssumption DEF U64
<1> QED BY <1>4 DEF R, M

-----------------------------------------------------------------------------
(***************************************************************************)
(* A sale whose transaction names the accounts to pay, as the client does. *)
(***************************************************************************)
\* A creator who is named is paid his own share.
LEMMA CreatorPaid ==
  ASSUME TreasuryTypeOK, NEW price \in U64, NEW m \in Mint, HasCreators(m),
         NEW k \in DOMAIN Metadata[m].creators
  PROVE  CreatorAmount(price, m, Metadata[m].creators[k].address)
            = CreatorLegs(price, m)[k].amount
<1> DEFINE c == Metadata[m].creators
           f == [j \in DOMAIN c |-> CreatorLegs(price, m)[j].amount]
           S == {j \in DOMAIN c : c[j].address = c[k].address}
<1>1. S = {k} BY CreatorsAssumption DEF HasCreators
<1>2. IsFiniteSet(S) BY <1>1, FS_Singleton
<1>3. f[k] \in Int
  <2>1. CreatorLegs(price, m) \in Seq(LegData) BY CreatorLegsType
  <2>2. DOMAIN CreatorLegs(price, m) = DOMAIN c BY DEF CreatorLegs
  <2>3. CreatorLegs(price, m)[k] \in LegData
    BY <2>1, <2>2, ElementOfSeq, CreatorsKnown
  <2>4. CreatorLegs(price, m)[k].amount \in Nat BY <2>3 DEF LegData
  <2> QED BY <2>4
<1>4. Sum(S, f) = f[k]
  <2>1. S \ {k} = {} BY <1>1
  <2>2. Sum(S, f) = f[k] + Sum(S \ {k}, f)
    <3> HIDE DEF f, S
    <3> QED BY <1>1, <1>2, <1>3, SumRemove
  <2>3. Sum(S \ {k}, f) = 0 BY <2>1, SumEmpty
  <2> HIDE DEF f, S
  <2> QED BY <1>3, <2>2, <2>3
<1> QED BY <1>4 DEF CreatorAmount

\* r is s with t behind it.
Joined(r, s, t) ==
    /\ Len(r) = Len(s) + Len(t) /\ DOMAIN r = 1 .. Len(s) + Len(t)
    /\ \A k \in 1 .. Len(s) + Len(t) :
          r[k] = IF k <= Len(s) THEN s[k] ELSE t[k - Len(s)]

LEMMA ConcatJoins ==
  ASSUME NEW S, NEW s \in Seq(S), NEW t \in Seq(S)
  PROVE  s \o t \in Seq(S) /\ Joined(s \o t, s, t)
<1>1. s \o t \in Seq(S) /\ Len(s \o t) = Len(s) + Len(t)
  BY ConcatProperties, Zenon
<1>2. DOMAIN (s \o t) = 1 .. Len(s \o t) BY <1>1, LenProperties, Zenon
<1>3. \A k \in 1 .. Len(s) + Len(t) :
         (s \o t)[k] = IF k <= Len(s) THEN s[k] ELSE t[k - Len(s)]
  BY ConcatProperties, Zenon
<1> QED BY <1>1, <1>2, <1>3, Zenon DEF Joined

\* However long ago the treasuries were read: if the program takes the
\* transaction, it pays what a sale of now pays, in the same order.
THEOREM SettlementIsSale ==
  ASSUME TreasuryTypeOK, NEW price \in U64, NEW m \in Mint, HasCreators(m),
         NEW seller \in Key, NEW treasuries \in Seq(Key),
         RemainingFit(NamedPayees(m, treasuries), m)
  PROVE  SettlementLegs(price, m, seller, NamedPayees(m, treasuries))
            = SaleLegs(price, m, seller)
<1> DEFINE c == Metadata[m].creators
           n == global_authority.team_count
           remaining == NamedPayees(m, treasuries)
           named == [k \in DOMAIN c |-> c[k].address]
           legs == [k \in DOMAIN remaining |->
                      IF k <= n THEN TeamLegs(price)[k]
                      ELSE Leg(remaining[k], CreatorAmount(price, m, remaining[k]))]
<1>1. /\ Len(c) \in Nat /\ DOMAIN c = 1 .. Len(c)
      /\ \A k \in 1 .. Len(c) : c[k].address \in Wallet
  BY CreatorsKnown
<1>2. n \in Nat BY IntegersAssumption DEF TreasuryTypeOK, GlobalPool
<1>3. named \in Seq(Key) /\ Len(named) = Len(c)
  <2>1. named \in [1 .. Len(c) -> Key] BY <1>1 DEF Key
  <2> QED BY <1>1, <2>1
<1>4. Joined(remaining, treasuries, named)
  <2> HIDE DEF named
  <2>1. remaining = treasuries \o named BY DEF NamedPayees, named
  <2> QED BY <1>3, <2>1, ConcatJoins, Zenon
<1>5. Len(treasuries) = n
  BY <1>1, <1>2, <1>3, <1>4, LenProperties DEF RemainingFit, Joined
<1>6. /\ DOMAIN TeamLegs(price) = 1 .. n /\ DOMAIN CreatorLegs(price, m) = 1 .. Len(c)
      /\ TeamLegs(price) \in Seq(LegData) /\ CreatorLegs(price, m) \in Seq(LegData)
  BY <1>1, TeamLegsType, CreatorLegsType DEF TeamLegs, CreatorLegs
<1>7. Len(TeamLegs(price)) = n /\ Len(CreatorLegs(price, m)) = Len(c)
  BY <1>1, <1>2, <1>6, LenProperties
<1>8. ASSUME NEW k \in 1 .. n + Len(c)
      PROVE  legs[k] = IF k <= n THEN TeamLegs(price)[k]
                       ELSE CreatorLegs(price, m)[k - n]
  <2>1. k \in DOMAIN remaining BY <1>3, <1>4, <1>5 DEF Joined
  <2>2. CASE k <= n BY <2>1, <2>2
  <2>3. CASE ~(k <= n)
    <3>1. k - n \in DOMAIN c BY <1>1, <1>2, <2>3
    <3>2. remaining[k] = c[k - n].address 
      <4> HIDE DEF remaining
      <4>1. remaining[k] = named[k - n] BY <1>3, <1>4, <1>5, <2>3 DEF Joined
      <4> QED BY <3>1, <4>1
    <3>3. CreatorAmount(price, m, c[k - n].address)
             = CreatorLegs(price, m)[k - n].amount
      BY <3>1, CreatorPaid
    <3>4. CreatorLegs(price, m)[k - n]
             = Leg(c[k - n].address, CreatorLegs(price, m)[k - n].amount)
      BY <3>1 DEF CreatorLegs, Leg
    <3> HIDE DEF remaining
    <3> QED BY <2>1, <2>3, <3>2, <3>3, <3>4
  <2> QED BY <2>2, <2>3
<1>9. legs = TeamLegs(price) \o CreatorLegs(price, m)
  <2> DEFINE sale == TeamLegs(price) \o CreatorLegs(price, m)
  <2>1. sale \in Seq(LegData) /\ Joined(sale, TeamLegs(price), CreatorLegs(price, m))
    BY <1>6, ConcatJoins, Zenon
  <2> HIDE DEF legs, sale, n, c
  <2>2. /\ sale = [k \in 1 .. n + Len(c) |-> sale[k]]
        /\ \A k \in 1 .. n + Len(c) :
              sale[k] = IF k <= n THEN TeamLegs(price)[k]
                        ELSE CreatorLegs(price, m)[k - n]
    BY <1>7, <2>1, LenProperties DEF Joined
  <2>3. legs = [k \in 1 .. n + Len(c) |-> legs[k]]
    BY <1>3, <1>4, <1>5 DEF legs, Joined
  <2> QED BY <1>8, <2>2, <2>3 DEF sale
<1>10. SellerLeg(price, m, seller) \o (TeamLegs(price) \o CreatorLegs(price, m))
          = SaleLegs(price, m, seller)
  <2> DEFINE own == SellerLeg(price, m, seller)
             team == TeamLegs(price)
             royalty == CreatorLegs(price, m)
  <2>1. own \in Seq(LegData) /\ team \in Seq(LegData) /\ royalty \in Seq(LegData)
    BY <1>6, SellerLegType
  <2> HIDE DEF own, team, royalty
  <2>2. \A r, s, t \in Seq(LegData) : (r \o s) \o t = r \o (s \o t)
    BY ConcatAssociative
  <2>3. (own \o team) \o royalty = own \o (team \o royalty) BY <2>1, <2>2
  <2> QED BY <2>3 DEF SaleLegs, own, team, royalty
<1> QED BY <1>9, <1>10 DEF SettlementLegs

-----------------------------------------------------------------------------
(***************************************************************************)
(* Whatever accounts fit: who is paid how much, and how much altogether.   *)
(***************************************************************************)
\* Every list that a transaction can carry fits, and names accounts.
LEMMA ListsFit ==
  ASSUME TreasuryTypeOK, NEW m \in Mint, HasCreators(m),
         NEW remaining \in RemainingLists(m)
  PROVE  /\ remaining \in Seq(Key) /\ RemainingFit(remaining, m)
         /\ global_authority.team_count \in Nat
         /\ Len(Metadata[m].creators) \in Nat
         /\ DOMAIN remaining = 1 .. global_authority.team_count
                                        + Len(Metadata[m].creators)
<1> DEFINE L == Len(Metadata[m].creators)
           n == global_authority.team_count
           treasuries == TreasuriesInUse
<1>1. L \in Nat BY CreatorsKnown
<1>2. n \in Nat /\ n <= MaxTeam
  BY IntegersAssumption DEF TreasuryTypeOK, GlobalPool
<1>3. PICK named \in [1 .. L -> Wallet] : remaining = treasuries \o named
  BY DEF RemainingLists
<1>4. named \in Seq(Key) /\ Len(named) = L
  <2>1. named \in [1 .. L -> Key] BY <1>3 DEF Key
  <2> QED BY <1>1, <2>1
<1>5. /\ treasuries \in Seq(Key) /\ Len(treasuries) = n
      /\ \A k \in 1 .. n : treasuries[k] = global_authority.team_treasury[k - 1]
  <2>1. ASSUME NEW k \in 1 .. n PROVE global_authority.team_treasury[k - 1] \in Key
    <3>1. k - 1 \in Slot BY <1>2, IntegersAssumption DEF Slot
    <3> QED BY <3>1 DEF TreasuryTypeOK, GlobalPool
  <2>2. treasuries \in [1 .. n -> Key] BY <2>1 DEF TreasuriesInUse
  <2>3. \A k \in 1 .. n : treasuries[k] = global_authority.team_treasury[k - 1]
    BY DEF TreasuriesInUse
  <2>4. treasuries \in Seq(Key) /\ Len(treasuries) = n
    <3> HIDE DEF treasuries, n
    <3> QED BY <1>2, <2>2
  <2> QED BY <2>3, <2>4
<1>6. remaining \in Seq(Key) /\ Joined(remaining, treasuries, named)
  <2> HIDE DEF treasuries
  <2> QED BY <1>3, <1>4, <1>5, ConcatJoins, Zenon
<1>7. /\ DOMAIN remaining = 1 .. n + L /\ Len(remaining) = n + L
      /\ \A k \in 1 .. n : remaining[k] = treasuries[k]
  <2> HIDE DEF treasuries, L, n
  <2> QED BY <1>1, <1>2, <1>4, <1>5, <1>6 DEF Joined
<1>8. RemainingFit(remaining, m) BY <1>5, <1>7 DEF RemainingFit
<1> QED BY <1>1, <1>2, <1>6, <1>7, <1>8

\* The client's list is one of them, if it fits.
LEMMA ClientListFits ==
  ASSUME TreasuryTypeOK, NEW m \in Mint, HasCreators(m),
         NEW treasuries \in Seq(Key),
         RemainingFit(NamedPayees(m, treasuries), m)
  PROVE  /\ treasuries = TreasuriesInUse
         /\ NamedPayees(m, treasuries) \in RemainingLists(m)
<1> DEFINE c == Metadata[m].creators
           n == global_authority.team_count
           named == [k \in DOMAIN c |-> c[k].address]
           remaining == NamedPayees(m, treasuries)
<1>1. /\ Len(c) \in Nat /\ DOMAIN c = 1 .. Len(c)
      /\ \A k \in 1 .. Len(c) : c[k].address \in Wallet
  BY CreatorsKnown
<1>2. n \in Nat BY IntegersAssumption DEF TreasuryTypeOK, GlobalPool
<1>3. named \in [1 .. Len(c) -> Wallet] /\ named \in Seq(Key) /\ Len(named) = Len(c)
  <2>1. named \in [1 .. Len(c) -> Wallet] BY <1>1
  <2>2. named \in [1 .. Len(c) -> Key] BY <1>1 DEF Key
  <2> QED BY <1>1, <2>1, <2>2
<1>4. Joined(remaining, treasuries, named)
  <2> HIDE DEF named
  <2>1. remaining = treasuries \o named BY DEF NamedPayees, named
  <2> QED BY <1>3, <2>1, ConcatJoins, Zenon
<1>5. Len(treasuries) \in Nat /\ treasuries = [k \in 1 .. Len(treasuries) |-> treasuries[k]]
  BY LenProperties
<1>6. Len(treasuries) = n
  BY <1>1, <1>2, <1>3, <1>4, <1>5 DEF RemainingFit, Joined
<1>7. ASSUME NEW k \in 1 .. n
      PROVE  treasuries[k] = global_authority.team_treasury[k - 1]
  <2> HIDE DEF remaining, named, c
  <2>1. remaining[k] = treasuries[k] BY <1>1, <1>2, <1>3, <1>4, <1>6 DEF Joined
  <2>2. remaining[k] = global_authority.team_treasury[k - 1]
    BY DEF RemainingFit, remaining
  <2> QED BY <2>1, <2>2
<1>8. treasuries = TreasuriesInUse BY <1>5, <1>6, <1>7 DEF TreasuriesInUse
<1> QED BY <1>3, <1>8 DEF RemainingLists, NamedPayees

\* A creator is paid his share, and anybody else nothing.
LEMMA CreatorAmountNat ==
  ASSUME TreasuryTypeOK, NEW price \in U64, NEW m \in Mint, HasCreators(m),
         NEW key
  PROVE  /\ CreatorAmount(price, m, key) \in Nat
         /\ key \notin {Metadata[m].creators[k].address :
                           k \in DOMAIN Metadata[m].creators}
               => CreatorAmount(price, m, key) = 0
<1> DEFINE c == Metadata[m].creators
           S == {k \in DOMAIN c : c[k].address = key}
           f == [k \in DOMAIN c |-> CreatorLegs(price, m)[k].amount]
<1>1. /\ Len(c) \in Nat /\ DOMAIN c = 1 .. Len(c) BY CreatorsKnown
<1>2. ASSUME NEW k \in DOMAIN c PROVE f[k] \in Nat
  <2>1. CreatorLegs(price, m) \in Seq(LegData) BY CreatorLegsType
  <2>2. DOMAIN CreatorLegs(price, m) = DOMAIN c BY DEF CreatorLegs
  <2>3. CreatorLegs(price, m)[k] \in LegData
    BY <1>1, <2>1, <2>2, ElementOfSeq
  <2>4. CreatorLegs(price, m)[k].amount \in Nat BY <2>3 DEF LegData
  <2> QED BY <2>4
<1>3. IsFiniteSet(S)
  <2>1. IsFiniteSet(DOMAIN c) BY <1>1, FS_Interval
  <2> QED BY <2>1, FS_Subset
<1>4. \A k \in S : f[k] \in Nat BY <1>2
<1>5. Sum(S, f) \in Nat
  <2> HIDE DEF S, f
  <2> QED BY <1>3, <1>4, SumNatural
<1>6. key \notin {c[k].address : k \in DOMAIN c} => Sum(S, f) = 0
  <2>1. key \notin {c[k].address : k \in DOMAIN c} => S = {} OBVIOUS
  <2> HIDE DEF S, f
  <2> QED BY <2>1, SumEmpty
<1> QED BY <1>5, <1>6 DEF CreatorAmount

\* The payments behind the seller's.
TailLegs(price, m, remaining) ==
    [k \in DOMAIN remaining |->
        IF k <= global_authority.team_count THEN TeamLegs(price)[k]
        ELSE Leg(remaining[k], CreatorAmount(price, m, remaining[k]))]

LEMMA TailLegsType ==
  ASSUME TreasuryTypeOK, NEW price \in U64, NEW m \in Mint, HasCreators(m),
         NEW remaining \in Seq(Key), RemainingFit(remaining, m)
  PROVE  TailLegs(price, m, remaining) \in Seq(LegData)
<1> DEFINE n == global_authority.team_count
<1>1. /\ Len(remaining) \in Nat /\ DOMAIN remaining = 1 .. Len(remaining)
      /\ n \in Nat
  BY LenProperties, IntegersAssumption DEF TreasuryTypeOK, GlobalPool
<1>2. ASSUME NEW k \in 1 .. Len(remaining)
      PROVE  TailLegs(price, m, remaining)[k] \in LegData
  <2>1. CASE k <= n
    <3>1. TeamLegs(price) \in Seq(LegData) /\ DOMAIN TeamLegs(price) = 1 .. n
      BY TeamLegsType DEF TeamLegs
    <3>2. TeamLegs(price)[k] \in LegData
      BY <1>1, <2>1, <3>1, ElementOfSeq
    <3> QED BY <1>1, <2>1, <3>2 DEF TailLegs
  <2>2. CASE ~(k <= n)
    <3>1. remaining[k] \in Key BY ElementOfSeq
    <3>2. CreatorAmount(price, m, remaining[k]) \in Nat BY CreatorAmountNat
    <3>3. Leg(remaining[k], CreatorAmount(price, m, remaining[k])) \in LegData
      BY <3>1, <3>2 DEF Leg, LegData
    <3> QED BY <1>1, <2>2, <3>3 DEF TailLegs
  <2> QED BY <2>1, <2>2
<1>3. TailLegs(price, m, remaining) \in [1 .. Len(remaining) -> LegData]
  <2>1. TailLegs(price, m, remaining)
           = [k \in 1 .. Len(remaining) |-> TailLegs(price, m, remaining)[k]]
    BY <1>1 DEF TailLegs
  <2> QED BY <1>2, <2>1
<1> QED BY <1>1, <1>3

LEMMA SettlementLegsType ==
  ASSUME TreasuryTypeOK, NEW price \in U64, NEW m \in Mint, HasCreators(m),
         NEW seller \in Key, NEW remaining \in Seq(Key),
         RemainingFit(remaining, m)
  PROVE  /\ SettlementLegs(price, m, seller, remaining)
              = SellerLeg(price, m, seller) \o TailLegs(price, m, remaining)
         /\ SettlementLegs(price, m, seller, remaining) \in Seq(LegData)
<1>1. SettlementLegs(price, m, seller, remaining)
         = SellerLeg(price, m, seller) \o TailLegs(price, m, remaining)
  BY DEF SettlementLegs, TailLegs
<1> QED BY <1>1, SellerLegType, TailLegsType, ConcatProperties

\* Wherever the creators stand among the named, and whoever is missing: if
\* none stands there twice, they are not paid more than the royalty.
LEMMA NamedTotal ==
  ASSUME TreasuryTypeOK, NEW price \in U64, NEW m \in Mint, HasCreators(m),
         NEW n \in Nat, NEW L \in Nat, NEW remaining, NEW f,
         \A k \in n + 1 .. n + L :
            f[k] = CreatorAmount(price, m, remaining[k]),
         LET creators == {Metadata[m].creators[k].address :
                             k \in DOMAIN Metadata[m].creators}
         IN  \A i, j \in n + 1 .. n + L :
                remaining[i] = remaining[j] /\ remaining[i] \in creators => i = j
  PROVE  Sum(n + 1 .. n + L, f) <= RoyaltyFee(price, m)
<1> DEFINE c == Metadata[m].creators
           creators == {c[k].address : k \in DOMAIN c}
           g == Amounts(CreatorLegs(price, m))
           S == n + 1 .. n + L
           P == {k \in S : remaining[k] \in creators}
           h == [k \in P |-> CHOOSE j \in DOMAIN c : c[j].address = remaining[k]]
           Image == {h[k] : k \in P}
<1>1. IsFiniteSet(S) /\ IsFiniteSet(P) /\ P \in SUBSET S
  <2>1. IsFiniteSet(S)
    <3>1. n + 1 \in Int /\ n + L \in Int OBVIOUS
    <3> QED BY <3>1, FS_Interval
  <2>2. P \in SUBSET S OBVIOUS
  <2> HIDE DEF S, P
  <2> QED BY <2>1, <2>2, FS_Subset
<1>2. /\ IsFiniteSet(DOMAIN c)
      /\ \A j \in DOMAIN c : g[j] = CreatorLegs(price, m)[j].amount /\ g[j] \in Nat
      /\ DOMAIN c = DOMAIN CreatorLegs(price, m)
  <2>1. Len(c) \in Nat /\ DOMAIN c = 1 .. Len(c) BY CreatorsKnown
  <2>2. DOMAIN CreatorLegs(price, m) = DOMAIN c BY DEF CreatorLegs
  <2>3. CreatorLegs(price, m) \in Seq(LegData) BY CreatorLegsType
  <2>4. \A k \in DOMAIN CreatorLegs(price, m) :
           g[k] = CreatorLegs(price, m)[k].amount /\ g[k] \in Nat
    BY <2>3, LegTotalNat
  <2>5. IsFiniteSet(DOMAIN c)
    <3>1. 1 \in Int /\ Len(c) \in Int BY <2>1
    <3>2. IsFiniteSet(1 .. Len(c)) BY <3>1, FS_Interval
    <3> QED BY <2>1, <3>2
  <2> QED BY <2>2, <2>4, <2>5
<1>3. ASSUME NEW k \in P
      PROVE  /\ h[k] \in DOMAIN c /\ c[h[k]].address = remaining[k]
             /\ g[h[k]] = f[k]
  <2>1. \E j \in DOMAIN c : c[j].address = remaining[k] OBVIOUS
  <2>2. h[k] \in DOMAIN c /\ c[h[k]].address = remaining[k] BY <2>1
  <2> DEFINE j == h[k]
  <2> HIDE DEF j, h
  <2>3. j \in DOMAIN c /\ c[j].address = remaining[k] BY <2>2 DEF j
  <2>4. CreatorAmount(price, m, c[j].address) = CreatorLegs(price, m)[j].amount
    BY <2>3, CreatorPaid
  <2>5. g[j] = f[k] BY <1>2, <2>3, <2>4
  <2> QED BY <2>2, <2>5 DEF j
<1>4. \A k \in S : f[k] \in Nat /\ (k \notin P => f[k] = 0) BY CreatorAmountNat
<1>5. \A i, j \in P : h[i] = h[j] => i = j
  <2> SUFFICES ASSUME NEW i \in P, NEW j \in P, h[i] = h[j] PROVE i = j OBVIOUS
  <2>1. remaining[i] = remaining[j]
    <3> HIDE DEF h
    <3> QED BY <1>3
  <2> QED BY <2>1
<1>6. Image \in SUBSET DOMAIN c
  <2> HIDE DEF h, P
  <2> QED BY <1>3
<1>7. Sum(Image, g) = Sum(P, f)
  <2>1. P \in SUBSET S OBVIOUS
  <2> HIDE DEF P, S, g, h
  <2>2. \A k \in P : f[k] \in Int /\ g[h[k]] = f[k] BY <1>3, <1>4, <2>1
  <2>3. Sum({h[k] : k \in P}, g) = Sum(P, f)
    <3> HIDE DEF Image
    <3> QED BY <1>1, <1>5, <2>2, SumImage
  <2> QED BY <2>3
<1>8. Sum(S, f) = Sum(P, f)
  <2> HIDE DEF P, S
  <2>1. \A k \in S : f[k] \in Int BY <1>4
  <2>2. Sum(S, f) = Sum(P, f) + Sum(S \ P, f) BY <1>1, <2>1, SumParts
  <2>3. Sum(S \ P, f) = 0
    <3>1. IsFiniteSet(S \ P) BY <1>1, FS_Subset
    <3> QED BY <1>4, <3>1, SumZero
  <2>4. Sum(P, f) \in Int BY <1>1, <2>1, SumInteger
  <2> QED BY <2>2, <2>3, <2>4
<1>9. Sum(Image, g) <= Sum(DOMAIN c, g)
  <2> HIDE DEF Image, g, c
  <2>1. \A j \in DOMAIN c : g[j] \in Int BY <1>2
  <2>2. Sum(DOMAIN c, g) = Sum(Image, g) + Sum(DOMAIN c \ Image, g)
    BY <1>2, <1>6, <2>1, SumParts
  <2>3. Sum(DOMAIN c \ Image, g) \in Nat
    <3>1. IsFiniteSet(DOMAIN c \ Image) BY <1>2, FS_Subset
    <3> QED BY <1>2, <3>1, SumNatural
  <2>4. Sum(Image, g) \in Nat
    <3>1. IsFiniteSet(Image) BY <1>2, <1>6, FS_Subset
    <3> QED BY <1>2, <1>6, <3>1, SumNatural
  <2> QED BY <2>2, <2>3, <2>4
<1>10. Sum(DOMAIN c, g) <= RoyaltyFee(price, m)
  BY <1>2, CreatorTotal DEF LegTotal
<1>11. Sum(DOMAIN c, g) \in Nat /\ Sum(Image, g) \in Nat /\ RoyaltyFee(price, m) \in Nat
  <2>1. IsFiniteSet(Image) BY <1>2, <1>6, FS_Subset
  <2> HIDE DEF g, Image, c
  <2> QED BY <1>2, <1>6, <2>1, SumNatural, FeesNat
<1> HIDE DEF g, Image, c, S, P
<1>12. Sum(S, f) <= RoyaltyFee(price, m) BY <1>7, <1>8, <1>9, <1>10, <1>11
<1> QED BY <1>12 DEF S

\* What is left for the seller.
LEMMA SellerTotal ==
  ASSUME TreasuryTypeOK, NEW price \in U64, NEW m \in Mint, NEW seller \in Key,
         RoyaltyFee(price, m) + MarketFee(price) <= price
  PROVE  LegTotal(SellerLeg(price, m, seller))
            = price - (RoyaltyFee(price, m) + MarketFee(price))
<1> DEFINE R == RoyaltyFee(price, m)
           M == MarketFee(price)
           head == SellerLeg(price, m, seller)
<1>1. R \in Nat /\ M \in Nat /\ price \in Nat /\ price <= MaxU64
      /\ MaxU64 \in Nat
  BY FeesNat, IntegersAssumption DEF U64
<1>2. TotalFee(price, m) = R + M
  <2>1. R + M \in Nat /\ R + M <= MaxU64 BY <1>1
  <2> HIDE DEF R, M
  <2>2. Wrapped(R + M) = R + M BY <2>1, WrappedAtMost
  <2> QED BY <2>2 DEF TotalFee, R, M
<1>3. price - (R + M) \in Nat /\ price - (R + M) <= MaxU64 BY <1>1
<1>4. Wrapped(price - (R + M)) = price - (R + M)
  <2> HIDE DEF R, M
  <2> QED BY <1>3, WrappedAtMost
<1>5. head = <<Leg(seller, price - (R + M))>> BY <1>2, <1>4 DEF SellerLeg
<1>6. DOMAIN head = {1} /\ Amounts(head)[1] = price - (R + M)
  BY <1>5 DEF Amounts, Leg
<1>7. Sum({1}, Amounts(head)) = Amounts(head)[1] + Sum({}, Amounts(head))
  <2>1. IsFiniteSet({1}) /\ {1} \ {1} = {} BY FS_Singleton
  <2>2. \A y \in {1} : Amounts(head)[y] \in Int BY <1>3, <1>6
  <2> HIDE DEF head
  <2>3. Sum({1}, Amounts(head)) = Amounts(head)[1] + Sum({1} \ {1}, Amounts(head))
    BY <2>1, <2>2, SumRemove
  <2> QED BY <2>1, <2>3
<1> HIDE DEF head, R, M
<1>8. LegTotal(head) = price - (R + M) BY <1>3, <1>6, <1>7, SumEmpty DEF LegTotal
<1> QED BY <1>8 DEF head, R, M

\* As long as royalty and market fee together stay within the price, and no
\* creator is named twice, so does all that a sale pays out; this needs no
\* overflow check.
LEMMA PayoutFits ==
  ASSUME TreasuryTypeOK, PoolOK(global_authority), NEW price \in U64,
         NEW m \in Mint, HasCreators(m), NEW seller \in Key,
         NEW remaining \in RemainingLists(m),
         LET n == global_authority.team_count
             creators == {Metadata[m].creators[k].address :
                             k \in DOMAIN Metadata[m].creators}
         IN  \A i, j \in n + 1 .. Len(remaining) :
                remaining[i] = remaining[j] /\ remaining[i] \in creators => i = j,
         RoyaltyFee(price, m) + MarketFee(price) <= price
  PROVE  LegTotal(SettlementLegs(price, m, seller, remaining)) <= price
<1> DEFINE R == RoyaltyFee(price, m)
           M == MarketFee(price)
           n == global_authority.team_count
           L == Len(Metadata[m].creators)
           head == SellerLeg(price, m, seller)
           tail == TailLegs(price, m, remaining)
           f == Amounts(tail)
<1>1. /\ remaining \in Seq(Key) /\ RemainingFit(remaining, m)
      /\ n \in Nat /\ L \in Nat /\ DOMAIN remaining = 1 .. n + L
      /\ Len(remaining) = n + L
  BY ListsFit DEF RemainingFit
<1>2. /\ head \in Seq(LegData) /\ tail \in Seq(LegData)
      /\ SettlementLegs(price, m, seller, remaining) = head \o tail
  BY <1>1, SellerLegType, TailLegsType, SettlementLegsType
<1>3. DOMAIN tail = 1 .. n + L BY <1>1 DEF TailLegs
<1>4. \A k \in 1 .. n + L : f[k] = tail[k].amount /\ f[k] \in Nat
  BY <1>2, <1>3, LegTotalNat
<1>5. Sum(1 .. (n + L), f) = Sum(1 .. n, f) + Sum((n + 1) .. (n + L), f)
  <2>1. \A k \in 1 .. (n + L) : f[k] \in Int BY <1>4
  <2> HIDE DEF f, n, L
  <2> QED BY <1>1, <2>1, SumSplit
<1>6. Sum(1 .. n, f) <= M
  <2> DEFINE team == TeamLegs(price)
  <2>1. team \in Seq(LegData) /\ DOMAIN team = 1 .. n
    BY TeamLegsType DEF TeamLegs
  <2>2. ASSUME NEW k \in 1 .. n PROVE f[k] = Amounts(team)[k]
    <3>1. k \in 1 .. n + L /\ k <= n BY <1>1
    <3>2. tail[k] = team[k] BY <1>1, <3>1 DEF TailLegs
    <3>3. Amounts(team)[k] = team[k].amount BY <2>1 DEF Amounts
    <3>4. f[k] = tail[k].amount BY <1>4, <3>1
    <3> QED BY <3>2, <3>3, <3>4
  <2>3. IsFiniteSet(1 .. n)
    <3> HIDE DEF n
    <3> QED BY <1>1, FS_Interval
  <2>4. Sum(1 .. n, f) = Sum(1 .. n, Amounts(team))
    <3> HIDE DEF f, team, n
    <3> QED BY <2>2, <2>3, SumEqual
  <2>5. LegTotal(team) <= M BY TeamTotal
  <2> QED BY <2>1, <2>4, <2>5 DEF LegTotal
<1>7. Sum((n + 1) .. (n + L), f) <= R
  <2>1. ASSUME NEW k \in n + 1 .. n + L
        PROVE  f[k] = CreatorAmount(price, m, remaining[k])
    <3>1. k \in 1 .. n + L /\ ~(k <= n) BY <1>1
    <3>2. tail[k] = Leg(remaining[k], CreatorAmount(price, m, remaining[k]))
      BY <1>1, <3>1 DEF TailLegs
    <3>3. f[k] = tail[k].amount BY <1>4, <3>1
    <3> QED BY <3>2, <3>3 DEF Leg
  <2> HIDE DEF f, tail
  <2> QED BY <1>1, <2>1, NamedTotal
<1>8. LegTotal(tail) = Sum(1 .. (n + L), f) BY <1>3 DEF LegTotal
<1>9. LegTotal(head \o tail) = LegTotal(head) + LegTotal(tail)
  BY <1>2, LegTotalConcat
<1>10. LegTotal(head) = price - (R + M) BY SellerTotal
<1>11. /\ Sum(1 .. n, f) \in Int /\ Sum((n + 1) .. (n + L), f) \in Int
       /\ R \in Nat /\ M \in Nat /\ price \in Nat
  <2>1. IsFiniteSet(1 .. n) /\ IsFiniteSet((n + 1) .. (n + L))
    <3> HIDE DEF n, L
    <3>1. 1 \in Int /\ n \in Int /\ n + 1 \in Int /\ n + L \in Int BY <1>1
    <3> QED BY <3>1, FS_Interval
  <2>2. /\ \A k \in 1 .. n : f[k] \in Int
        /\ \A k \in (n + 1) .. (n + L) : f[k] \in Int
    BY <1>1, <1>4
  <2> HIDE DEF f, n, L
  <2>3. Sum(1 .. n, f) \in Int /\ Sum((n + 1) .. (n + L), f) \in Int
    BY <2>1, <2>2, SumInteger
  <2> QED BY <2>3, FeesNat, IntegersAssumption DEF U64
<1> HIDE DEF R, M, head, tail, f, n, L
<1>12. LegTotal(head \o tail) <= price
  BY <1>5, <1>6, <1>7, <1>8, <1>9, <1>10, <1>11
<1> QED BY <1>2, <1>12
=============================================================================
