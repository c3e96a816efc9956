----------------------------- MODULE SumTheorems -----------------------------
(***************************************************************************)
(* Induction over the naturals in a form whose parameter is a set, and     *)
(* with it facts about Sum, by induction on the size of the set.           *)
(***************************************************************************)
EXTENDS Sums, FiniteSetTheorems, WellFoundedInduction, NaturalsInduction, TLAPS

LEMMA LessThanWellFounded ==
  IsWellFoundedOn({ss \in Nat \X Nat : ss[1] < ss[2]}, Nat)
BY NatLessThanWellFounded DEF OpToRel

\* A nonempty set of naturals has a least element.
LEMMA NatLeast ==
  ASSUME NEW S, S \subseteq Nat, S # {}
  PROVE  \E x \in S : \A y \in S : x <= y
<1> DEFINE R == {ss \in Nat \X Nat : ss[1] < ss[2]}
<1>1. \E x \in S : \A y \in S : ~ (<<y, x>> \in R)
  <2>1. IsWellFoundedOn(R, Nat) BY LessThanWellFounded
  <2> HIDE DEF R
  <2> QED BY <2>1, WFMin
<1>2. PICK x \in S : \A y \in S : ~ (<<y, x>> \in R)
  BY <1>1
<1>3. \A y \in S : x <= y
  <2> TAKE y \in S
  <2>1. <<y, x>> \in Nat \X Nat OBVIOUS
  <2>2. ~(y < x) BY <1>2, <2>1
  <2> QED BY <2>2
<1> QED BY <1>3

\* A set that contains 0 and is closed under successor contains every natural.
THEOREM NatSetInduction ==
  ASSUME NEW S, 0 \in S, \A n \in Nat : n \in S => n + 1 \in S
  PROVE  \A n \in Nat : n \in S
<1> DEFINE Missing == Nat \ S
<1>1. SUFFICES ASSUME Missing # {} PROVE FALSE
  OBVIOUS
<1>2. PICK x \in Missing : \A y \in Missing : x <= y
  BY <1>1, NatLeast
<1>3. x # 0 /\ x - 1 \in Nat /\ x - 1 \notin Missing
  BY <1>2
<1>4. (x - 1) + 1 \in S
  BY <1>3
<1> QED BY <1>2, <1>4

-----------------------------------------------------------------------------
\* The element a sum over T takes off first.
Pick(T) == CHOOSE y \in T : TRUE

LEMMA PickElement ==
  ASSUME NEW T, T # {}
  PROVE  Pick(T) \in T
BY DEF Pick

\* The equation that the function inside Sum solves, on one subset.
SolvesAt(g, f, T) == g[T] = IF T = {} THEN 0 ELSE f[Pick(T)] + g[T \ {Pick(T)}]

LEMMA SmallerSubset ==
  ASSUME NEW S, IsFiniteSet(S), NEW T \in SUBSET S, T # {}
  PROVE  /\ IsFiniteSet(T) /\ Cardinality(T) \in Nat
         /\ T \ {Pick(T)} \in SUBSET S
         /\ Cardinality(T \ {Pick(T)}) = Cardinality(T) - 1
<1>1. IsFiniteSet(T) /\ Cardinality(T) \in Nat
  BY FS_Subset, FS_CardinalityType
<1>2. Cardinality(T \ {Pick(T)}) = Cardinality(T) - 1
  BY <1>1, PickElement, FS_RemoveElement
<1> QED BY <1>1, <1>2

\* Two solutions on a family of sets closed under taking the picked element
\* off agree on it.
LEMMA SolutionsAgree ==
  ASSUME NEW S, IsFiniteSet(S), NEW f, NEW g, NEW h,
         \A T \in SUBSET S : SolvesAt(g, f, T) /\ SolvesAt(h, f, T)
  PROVE  g[S] = h[S]
<1> DEFINE Agree == {n \in Nat : \A T \in SUBSET S :
                        Cardinality(T) = n => g[T] = h[T]}
<1>1. 0 \in Agree
  <2> SUFFICES ASSUME NEW T \in SUBSET S, Cardinality(T) = 0 PROVE g[T] = h[T]
    OBVIOUS
  <2>1. T = {} BY FS_Subset, FS_EmptySet
  <2> QED BY <2>1 DEF SolvesAt
<1>2. ASSUME NEW n \in Nat, n \in Agree PROVE n + 1 \in Agree
  <2> SUFFICES ASSUME NEW T \in SUBSET S, Cardinality(T) = n + 1
               PROVE  g[T] = h[T]
    OBVIOUS
  <2>1. T # {} BY FS_EmptySet
  <2>2. T \ {Pick(T)} \in SUBSET S /\ Cardinality(T \ {Pick(T)}) = n
    <3>1. /\ T \ {Pick(T)} \in SUBSET S
          /\ Cardinality(T \ {Pick(T)}) = Cardinality(T) - 1
      BY <2>1, SmallerSubset, Zenon
    <3> QED BY <3>1
  <2>3. g[T \ {Pick(T)}] = h[T \ {Pick(T)}] BY <1>2, <2>2
  <2>4. SolvesAt(g, f, T) /\ SolvesAt(h, f, T) OBVIOUS
  <2> QED BY <2>1, <2>3, <2>4 DEF SolvesAt
<1>3. \A n \in Nat : n \in Agree
  <2> HIDE DEF Agree
  <2> QED BY <1>1, <1>2, NatSetInduction
<1>4. Cardinality(S) \in Nat BY FS_CardinalityType
<1> QED BY <1>3, <1>4

\* A solution exists: the function inside Sum is well defined.
LEMMA SolutionExists ==
  ASSUME NEW S, IsFiniteSet(S), NEW f
  PROVE  \E g : /\ g = [T \in SUBSET S |-> g[T]]
                /\ \A T \in SUBSET S : SolvesAt(g, f, T)
<1> DEFINE UpTo(g, n) == /\ g = [T \in SUBSET S |-> g[T]]
                         /\ \A T \in SUBSET S :
                               Cardinality(T) <= n => SolvesAt(g, f, T)
           Solved == {n \in Nat : \E g : UpTo(g, n)}
<1>1. 0 \in Solved
  <2> DEFINE g == [T \in SUBSET S |-> 0]
  <2>1. ASSUME NEW T \in SUBSET S, Cardinality(T) <= 0 PROVE SolvesAt(g, f, T)
    <3>1. IsFiniteSet(T) /\ Cardinality(T) \in Nat
      BY FS_Subset, FS_CardinalityType
    <3>2. T = {} BY <2>1, <3>1, FS_EmptySet
    <3> QED BY <3>2 DEF SolvesAt
  <2>2. g = [T \in SUBSET S |-> g[T]] OBVIOUS
  <2>3. UpTo(g, 0) BY <2>1, <2>2
  <2> QED BY <2>3
<1>2. ASSUME NEW n \in Nat, n \in Solved PROVE n + 1 \in Solved
  <2>1. PICK g : UpTo(g, n) BY <1>2
  <2> DEFINE h == [T \in SUBSET S |->
                     IF Cardinality(T) <= n THEN g[T]
                     ELSE f[Pick(T)] + g[T \ {Pick(T)}]]
  <2>2. ASSUME NEW T \in SUBSET S, Cardinality(T) <= n + 1
        PROVE  SolvesAt(h, f, T)
    <3>1. CASE T = {}
      <4>1. Cardinality(T) = 0 BY <3>1, FS_EmptySet
      <4>2. Cardinality(T) <= n BY <4>1
      <4>3. h[T] = g[T] BY <4>2
      <4>4. SolvesAt(g, f, T) BY <4>2, <2>1
      <4> QED BY <3>1, <4>3, <4>4 DEF SolvesAt
    <3>2. CASE T # {}
      <4>1. /\ Cardinality(T) \in Nat
            /\ T \ {Pick(T)} \in SUBSET S
            /\ Cardinality(T \ {Pick(T)}) = Cardinality(T) - 1
        BY <3>2, SmallerSubset
      <4>2. h[T \ {Pick(T)}] = g[T \ {Pick(T)}]
        <5>1. Cardinality(T \ {Pick(T)}) <= n BY <4>1, <2>2
        <5> QED BY <5>1, <4>1
      <4>3. h[T] = f[Pick(T)] + g[T \ {Pick(T)}]
        <5>1. CASE Cardinality(T) <= n
          <6>1. h[T] = g[T] /\ SolvesAt(g, f, T) BY <5>1, <2>1
          <6> QED BY <6>1, <3>2 DEF SolvesAt
        <5>2. CASE ~(Cardinality(T) <= n) BY <5>2
        <5> QED BY <5>1, <5>2
      <4> QED BY <3>2, <4>2, <4>3 DEF SolvesAt
    <3> QED BY <3>1, <3>2
  <2>3. h = [T \in SUBSET S |-> h[T]] OBVIOUS
  <2>4. UpTo(h, n + 1)
    <3> HIDE DEF h
    <3> QED BY <2>2, <2>3
  <2>5. \E k : UpTo(k, n + 1)
    <3> HIDE DEF h, UpTo
    <3> QED BY <2>4
  <2>6. n + 1 \in Nat OBVIOUS
  <2> QED
    <3> HIDE DEF h, UpTo
    <3> QED BY <2>5, <2>6
<1>3. Cardinality(S) \in Nat BY FS_CardinalityType
<1>4. Cardinality(S) \in Solved
  <2>1. \A n \in Nat : n \in Solved
    <3> HIDE DEF Solved
    <3> QED BY <1>1, <1>2, NatSetInduction
  <2> QED BY <2>1, <1>3
<1>5. PICK g : UpTo(g, Cardinality(S)) BY <1>4
<1>6. ASSUME NEW T \in SUBSET S PROVE SolvesAt(g, f, T)
  <2>1. Cardinality(T) <= Cardinality(S) BY FS_Subset
  <2> QED BY <2>1, <1>5
<1> QED BY <1>5, <1>6

-----------------------------------------------------------------------------
\* Sum is some solution of its equation.
LEMMA SumIsSolution ==
  ASSUME NEW S, IsFiniteSet(S), NEW f
  PROVE  \E g : g[S] = Sum(S, f) /\ \A T \in SUBSET S : SolvesAt(g, f, T)
<1> DEFINE Body(g) == [T \in SUBSET S |->
                         IF T = {} THEN 0
                         ELSE LET x == CHOOSE y \in T : TRUE
                              IN  f[x] + g[T \ {x}]]
           total == CHOOSE g : g = Body(g)
<1>1. \E g : g = Body(g)
  <2>1. PICK g : /\ g = [T \in SUBSET S |-> g[T]]
                 /\ \A T \in SUBSET S : SolvesAt(g, f, T)
    BY SolutionExists
  <2>2. g = Body(g) BY <2>1 DEF SolvesAt, Pick
  <2> QED BY <2>2
<1>2. total = Body(total) BY <1>1
<1>3. \A T \in SUBSET S : SolvesAt(total, f, T)
  <2> HIDE DEF total
  <2> QED BY <1>2 DEF SolvesAt, Pick
<1>4. Sum(S, f) = total[S] BY DEF Sum
<1> QED BY <1>3, <1>4

\* A sum is 0, or one picked value and the sum of the rest.
LEMMA SumUnfold ==
  ASSUME NEW S, IsFiniteSet(S), NEW f
  PROVE  Sum(S, f) = IF S = {} THEN 0
                     ELSE f[Pick(S)] + Sum(S \ {Pick(S)}, f)
<1>1. PICK g : g[S] = Sum(S, f) /\ \A T \in SUBSET S : SolvesAt(g, f, T)
  BY SumIsSolution
<1>2. CASE S = {} BY <1>1, <1>2 DEF SolvesAt
<1>3. CASE S # {}
  <2> DEFINE R == S \ {Pick(S)}
  <2>1. IsFiniteSet(R) BY FS_Subset
  <2>2. PICK h : h[R] = Sum(R, f) /\ \A T \in SUBSET R : SolvesAt(h, f, T)
    BY <2>1, SumIsSolution
  <2>3. \A T \in SUBSET R : SolvesAt(g, f, T) BY <1>1
  <2>4. g[R] = h[R]
    <3> HIDE DEF R
    <3> QED BY <2>1, <2>2, <2>3, SolutionsAgree
  <2>5. SolvesAt(g, f, S) BY <1>1
  <2> QED BY <1>1, <1>3, <2>2, <2>4, <2>5 DEF SolvesAt
<1> QED BY <1>2, <1>3

\* The empty sum.
THEOREM SumEmpty == ASSUME NEW f PROVE Sum({}, f) = 0
BY SumUnfold, FS_EmptySet

\* A sum of integers is an integer.
THEOREM SumInteger ==
  ASSUME NEW S, IsFiniteSet(S), NEW f, \A x \in S : f[x] \in Int
  PROVE  Sum(S, f) \in Int
<1> DEFINE Good == {n \in Nat : \A T \in SUBSET S :
                       Cardinality(T) = n => Sum(T, f) \in Int}
<1>1. 0 \in Good
  <2> SUFFICES ASSUME NEW T \in SUBSET S, Cardinality(T) = 0
               PROVE  Sum(T, f) \in Int
    OBVIOUS
  <2>1. T = {} BY FS_Subset, FS_EmptySet
  <2> QED BY <2>1, SumEmpty
<1>2. ASSUME NEW n \in Nat, n \in Good PROVE n + 1 \in Good
  <2> SUFFICES ASSUME NEW T \in SUBSET S, Cardinality(T) = n + 1
               PROVE  Sum(T, f) \in Int
    OBVIOUS
  <2>1. T # {} BY FS_EmptySet
  <2>2. /\ IsFiniteSet(T)
        /\ T \ {Pick(T)} \in SUBSET S
        /\ Cardinality(T \ {Pick(T)}) = Cardinality(T) - 1
    BY <2>1, SmallerSubset, Zenon
  <2>3. Cardinality(T \ {Pick(T)}) = n BY <2>2
  <2>4. Sum(T \ {Pick(T)}, f) \in Int BY <1>2, <2>2, <2>3
  <2>5. f[Pick(T)] \in Int BY <2>1, PickElement
  <2>6. Sum(T, f) = f[Pick(T)] + Sum(T \ {Pick(T)}, f)
    BY <2>1, <2>2, SumUnfold
  <2> QED BY <2>4, <2>5, <2>6
<1>3. \A n \in Nat : n \in Good
  <2> HIDE DEF Good
  <2> QED BY <1>1, <1>2, NatSetInduction
<1> QED BY <1>3, FS_CardinalityType

\* Any element can be taken off first: the order of a sum does not matter.
THEOREM SumRemove ==
  ASSUME NEW S, IsFiniteSet(S), NEW f, \A y \in S : f[y] \in Int,
         NEW x \in S
  PROVE  Sum(S, f) = f[x] + Sum(S \ {x}, f)
<1> DEFINE Good == {n \in Nat : \A T \in SUBSET S : Cardinality(T) = n =>
                       \A z \in T : Sum(T, f) = f[z] + Sum(T \ {z}, f)}
<1>1. 0 \in Good
  <2> SUFFICES ASSUME NEW T \in SUBSET S, Cardinality(T) = 0, NEW z \in T
               PROVE  FALSE
    OBVIOUS
  <2> QED BY FS_Subset, FS_EmptySet
<1>2. ASSUME NEW n \in Nat, n \in Good PROVE n + 1 \in Good
  <2> SUFFICES ASSUME NEW T \in SUBSET S, Cardinality(T) = n + 1, NEW z \in T
               PROVE  Sum(T, f) = f[z] + Sum(T \ {z}, f)
    OBVIOUS
  <2> DEFINE p == Pick(T)
             R == T \ {p}
             Q == T \ {z}
             W == R \ {z}
  <2>1. T # {} /\ p \in T BY PickElement
  <2>2. IsFiniteSet(T) /\ IsFiniteSet(R) /\ IsFiniteSet(Q) /\ IsFiniteSet(W)
    BY FS_Subset
  <2>3. Sum(T, f) = f[p] + Sum(R, f) BY <2>1, <2>2, SumUnfold
  <2>4. CASE z = p BY <2>3, <2>4
  <2>5. CASE z # p
    <3>1. Cardinality(R) = n /\ Cardinality(Q) = n
      <4>1. Cardinality(R) = Cardinality(T) - 1
        BY <2>1, <2>2, FS_RemoveElement, Zenon
      <4>2. Cardinality(Q) = Cardinality(T) - 1
        BY <2>1, <2>2, FS_RemoveElement, Zenon
      <4> QED BY <4>1, <4>2
    <3>2. z \in R /\ p \in Q /\ W = Q \ {p} BY <2>1, <2>5
    <3>3. Sum(R, f) = f[z] + Sum(W, f) BY <1>2, <3>1, <3>2
    <3>4. Sum(Q, f) = f[p] + Sum(W, f) BY <1>2, <3>1, <3>2
    <3>5. f[z] \in Int /\ f[p] \in Int BY <2>1
    <3>6. Sum(W, f) \in Int BY <2>2, SumInteger
    <3> HIDE DEF p, R, Q, W
    <3>7. Sum(T, f) = f[z] + Sum(Q, f) BY <2>3, <3>3, <3>4, <3>5, <3>6
    <3> QED BY <3>7 DEF Q
  <2> QED BY <2>4, <2>5
<1>3. \A n \in Nat : n \in Good
  <2> HIDE DEF Good
  <2> QED BY <1>1, <1>2, NatSetInduction
<1> QED BY <1>3, FS_CardinalityType

\* Sums of functions that agree on the set are equal.
THEOREM SumEqual ==
  ASSUME NEW S, IsFiniteSet(S), NEW f, NEW g, \A x \in S : f[x] = g[x]
  PROVE  Sum(S, f) = Sum(S, g)
<1> DEFINE Good == {n \in Nat : \A T \in SUBSET S :
                       Cardinality(T) = n => Sum(T, f) = Sum(T, g)}
<1>1. 0 \in Good
  <2> SUFFICES ASSUME NEW T \in SUBSET S, Cardinality(T) = 0
               PROVE  Sum(T, f) = Sum(T, g)
    OBVIOUS
  <2>1. T = {} BY FS_Subset, FS_EmptySet
  <2> QED BY <2>1, SumEmpty
<1>2. ASSUME NEW n \in Nat, n \in Good PROVE n + 1 \in Good
  <2> SUFFICES ASSUME NEW T \in SUBSET S, Cardinality(T) = n + 1
               PROVE  Sum(T, f) = Sum(T, g)
    OBVIOUS
  <2>1. T # {} BY FS_EmptySet
  <2>2. /\ IsFiniteSet(T)
        /\ T \ {Pick(T)} \in SUBSET S
        /\ Cardinality(T \ {Pick(T)}) = Cardinality(T) - 1
    BY <2>1, SmallerSubset, Zenon
  <2>3. Cardinality(T \ {Pick(T)}) = n BY <2>2
  <2>4. Sum(T \ {Pick(T)}, f) = Sum(T \ {Pick(T)}, g) BY <1>2, <2>2, <2>3
  <2>5. f[Pick(T)] = g[Pick(T)] BY <2>1, PickElement
  <2>6. /\ Sum(T, f) = f[Pick(T)] + Sum(T \ {Pick(T)}, f)
        /\ Sum(T, g) = g[Pick(T)] + Sum(T \ {Pick(T)}, g)
    BY <2>1, <2>2, SumUnfold
  <2> QED BY <2>4, <2>5, <2>6
<1>3. \A n \in Nat : n \in Good
  <2> HIDE DEF Good
  <2> QED BY <1>1, <1>2, NatSetInduction
<1> QED BY <1>3, FS_CardinalityType

\* Adding an element adds its value.
THEOREM SumAdd ==
  ASSUME NEW S, IsFiniteSet(S), NEW x, x \notin S, NEW f,
         \A y \in S \cup {x} : f[y] \in Int
  PROVE  Sum(S \cup {x}, f) = f[x] + Sum(S, f)
<1>1. IsFiniteSet(S \cup {x}) BY FS_AddElement
<1>2. (S \cup {x}) \ {x} = S OBVIOUS
<1>3. Sum(S \cup {x}, f) = f[x] + Sum((S \cup {x}) \ {x}, f)
  BY <1>1, SumRemove
<1> QED BY <1>2, <1>3

\* Changing the value at one element changes the sum by as much.
THEOREM SumUpdate ==
  ASSUME NEW S, IsFiniteSet(S), NEW x \in S, NEW f, NEW g,
         \A y \in S : f[y] \in Int /\ g[y] \in Int,
         \A y \in S \ {x} : f[y] = g[y]
  PROVE  Sum(S, g) = Sum(S, f) - f[x] + g[x]
<1> DEFINE R == S \ {x}
<1>1. IsFiniteSet(R) BY FS_Subset
<1>2. Sum(S, f) = f[x] + Sum(R, f) /\ Sum(S, g) = g[x] + Sum(R, g)
  BY SumRemove
<1>3. Sum(R, f) = Sum(R, g) /\ Sum(R, f) \in Int
  <2> HIDE DEF R
  <2>1. \A y \in R : f[y] = g[y] /\ f[y] \in Int BY DEF R
  <2> QED BY <1>1, <2>1, SumEqual, SumInteger
<1> QED BY <1>2, <1>3

\* A sum of naturals is a natural, at least as large as each of its parts.
THEOREM SumNatural ==
  ASSUME NEW S, IsFiniteSet(S), NEW f, \A x \in S : f[x] \in Nat
  PROVE  Sum(S, f) \in Nat /\ \A x \in S : f[x] <= Sum(S, f)
<1> DEFINE Good == {n \in Nat : \A T \in SUBSET S :
                       Cardinality(T) = n => Sum(T, f) \in Nat}
<1>1. 0 \in Good
  <2> SUFFICES ASSUME NEW T \in SUBSET S, Cardinality(T) = 0
               PROVE  Sum(T, f) \in Nat
    OBVIOUS
  <2>1. T = {} BY FS_Subset, FS_EmptySet
  <2> QED BY <2>1, SumEmpty
<1>2. ASSUME NEW n \in Nat, n \in Good PROVE n + 1 \in Good
  <2> SUFFICES ASSUME NEW T \in SUBSET S, Cardinality(T) = n + 1
               PROVE  Sum(T, f) \in Nat
    OBVIOUS
  <2>1. T # {} BY FS_EmptySet
  <2>2. /\ IsFiniteSet(T)
        /\ T \ {Pick(T)} \in SUBSET S
        /\ Cardinality(T \ {Pick(T)}) = Cardinality(T) - 1
    BY <2>1, SmallerSubset, Zenon
  <2>3. Cardinality(T \ {Pick(T)}) = n BY <2>2
  <2>4. Sum(T \ {Pick(T)}, f) \in Nat BY <1>2, <2>2, <2>3
  <2>5. f[Pick(T)] \in Nat BY <2>1, PickElement
  <2>6. Sum(T, f) = f[Pick(T)] + Sum(T \ {Pick(T)}, f)
    BY <2>1, <2>2, SumUnfold
  <2> QED BY <2>4, <2>5, <2>6
<1>3. \A n \in Nat : n \in Good
  <2> HIDE DEF Good
  <2> QED BY <1>1, <1>2, NatSetInduction
<1>4. \A T \in SUBSET S : Sum(T, f) \in Nat
  BY <1>3, FS_Subset, FS_CardinalityType
<1>5. ASSUME NEW x \in S PROVE f[x] <= Sum(S, f)
  <2>1. Sum(S, f) = f[x] + Sum(S \ {x}, f) BY SumRemove
  <2>2. Sum(S \ {x}, f) \in Nat BY <1>4
  <2> QED BY <2>1, <2>2
<1> QED BY <1>4, <1>5
-----------------------------------------------------------------------------
(***************************************************************************)
(* Sums over intervals: the payments of a sale are numbered.               *)
(***************************************************************************)
\* One more number adds its value.
LEMMA SumNext ==
  ASSUME NEW a \in Int, NEW k \in Nat, NEW f,
         \A i \in (a + 1) .. (a + (k + 1)) : f[i] \in Int
  PROVE  Sum((a + 1) .. (a + (k + 1)), f)
            = Sum((a + 1) .. (a + k), f) + f[a + (k + 1)]
<1> DEFINE S == (a + 1) .. (a + k)
           x == a + (k + 1)
<1>1. IsFiniteSet(S) /\ x \notin S BY FS_Interval
<1>2. (a + 1) .. (a + (k + 1)) = S \cup {x} OBVIOUS
<1>3. \A y \in S \cup {x} : f[y] \in Int BY <1>2
<1>4. Sum(S, f) \in Int
  <2> HIDE DEF S, x
  <2> QED BY <1>1, <1>3, SumInteger
<1>5. Sum(S \cup {x}, f) = f[x] + Sum(S, f)
  <2> HIDE DEF S, x
  <2> QED BY <1>1, <1>3, SumAdd
<1>6. f[x] \in Int BY <1>3
<1>7. Sum(S \cup {x}, f) = Sum(S, f) + f[x]
  <2> HIDE DEF S, x
  <2> QED BY <1>4, <1>5, <1>6
<1> QED BY <1>2, <1>7

\* The sum of n values of f, those after number a; and f read after a is g
\* read after b.
SumAfter(a, n, f) == Sum((a + 1) .. (a + n), f)

SameAfter(a, b, n, f, g) ==
    \A k \in 1 .. n : f[a + k] = g[b + k] /\ f[a + k] \in Int

\* Numbering the values from elsewhere leaves their sum as it is.
THEOREM SumShift ==
  ASSUME NEW a \in Int, NEW b \in Int, NEW n \in Nat, NEW f, NEW g,
         SameAfter(a, b, n, f, g)
  PROVE  SumAfter(a, n, f) = SumAfter(b, n, g)
<1> USE DEF SameAfter
<1> DEFINE Good == {k \in Nat : k <= n =>
                       Sum((a + 1) .. (a + k), f) = Sum((b + 1) .. (b + k), g)}
<1>1. 0 \in Good
  <2>1. (a + 1) .. (a + 0) = {} /\ (b + 1) .. (b + 0) = {} OBVIOUS
  <2> QED BY <2>1, SumEmpty
<1>2. ASSUME NEW k \in Nat, k \in Good PROVE k + 1 \in Good
  <2> SUFFICES ASSUME k + 1 <= n
               PROVE  Sum((a + 1) .. (a + (k + 1)), f)
                         = Sum((b + 1) .. (b + (k + 1)), g)
    OBVIOUS
  <2>1. ASSUME NEW i \in (a + 1) .. (a + (k + 1)) PROVE f[i] \in Int
    <3>1. i - a \in 1 .. n /\ a + (i - a) = i OBVIOUS
    <3> QED BY <3>1
  <2>2. ASSUME NEW i \in (b + 1) .. (b + (k + 1)) PROVE g[i] \in Int
    <3>1. i - b \in 1 .. n /\ b + (i - b) = i OBVIOUS
    <3>2. f[a + (i - b)] = g[b + (i - b)] /\ f[a + (i - b)] \in Int BY <3>1
    <3> QED BY <3>1, <3>2
  <2>3. Sum((a + 1) .. (a + (k + 1)), f)
           = Sum((a + 1) .. (a + k), f) + f[a + (k + 1)]
    BY <2>1, SumNext
  <2>4. Sum((b + 1) .. (b + (k + 1)), g)
           = Sum((b + 1) .. (b + k), g) + g[b + (k + 1)]
    BY <2>2, SumNext
  <2>5. Sum((a + 1) .. (a + k), f) = Sum((b + 1) .. (b + k), g) BY <1>2
  <2>6. f[a + (k + 1)] = g[b + (k + 1)]
    <3>1. k + 1 \in 1 .. n OBVIOUS
    <3> QED BY <3>1
  <2> QED BY <2>3, <2>4, <2>5, <2>6
<1>3. \A k \in Nat : k \in Good
  <2> HIDE DEF Good
  <2> QED BY <1>1, <1>2, NatSetInduction
<1> QED BY <1>3 DEF SumAfter

\* The two ways the payments of a sale are renumbered.
LEMMA SumFromZero ==
  ASSUME NEW n \in Nat, NEW f, NEW g,
         \A k \in 1 .. n : f[k] = g[k - 1] /\ f[k] \in Int
  PROVE  Sum(1 .. n, f) = Sum(0 .. n - 1, g)
<1>1. SameAfter(0, -1, n, f, g)
  <2> SUFFICES ASSUME NEW k \in 1 .. n
               PROVE  f[0 + k] = g[-1 + k] /\ f[0 + k] \in Int
    BY DEF SameAfter
  <2>1. 0 + k = k /\ -1 + k = k - 1 OBVIOUS
  <2> QED BY <2>1
<1>2. 0 \in Int /\ -1 \in Int OBVIOUS
<1>3. SumAfter(0, n, f) = SumAfter(-1, n, g) BY <1>1, <1>2, SumShift
<1>4. (0 + 1) .. (0 + n) = 1 .. n /\ (-1 + 1) .. (-1 + n) = 0 .. n - 1
  OBVIOUS
<1> QED BY <1>3, <1>4 DEF SumAfter

LEMMA SumToOne ==
  ASSUME NEW p \in Nat, NEW n \in Nat, NEW f, NEW g,
         \A k \in 1 .. n : f[p + k] = g[k] /\ g[k] \in Int
  PROVE  Sum((p + 1) .. (p + n), f) = Sum(1 .. n, g)
<1>1. SameAfter(p, 0, n, f, g)
  <2> SUFFICES ASSUME NEW k \in 1 .. n
               PROVE  f[p + k] = g[0 + k] /\ f[p + k] \in Int
    BY DEF SameAfter
  <2>1. 0 + k = k OBVIOUS
  <2> QED BY <2>1
<1>2. p \in Int /\ 0 \in Int OBVIOUS
<1>3. SumAfter(p, n, f) = SumAfter(0, n, g) BY <1>1, <1>2, SumShift
<1>4. (0 + 1) .. (0 + n) = 1 .. n OBVIOUS
<1> QED BY <1>3, <1>4 DEF SumAfter

\* The sum of the first numbers and the sum of the others make the whole.
THEOREM SumSplit ==
  ASSUME NEW p \in Nat, NEW q \in Nat, NEW f,
         \A i \in 1 .. (p + q) : f[i] \in Int
  PROVE  Sum(1 .. (p + q), f) = Sum(1 .. p, f) + Sum((p + 1) .. (p + q), f)
<1> DEFINE Good == {k \in Nat : k <= q =>
                       Sum(1 .. (p + k), f)
                          = Sum(1 .. p, f) + Sum((p + 1) .. (p + k), f)}
<1>1. ASSUME NEW k \in Nat, k <= q
      PROVE  /\ Sum(1 .. (p + k), f) \in Int
             /\ Sum((p + 1) .. (p + k), f) \in Int
  <2>1. /\ \A i \in 1 .. (p + k) : f[i] \in Int
        /\ \A i \in (p + 1) .. (p + k) : f[i] \in Int
        /\ IsFiniteSet(1 .. (p + k)) /\ IsFiniteSet((p + 1) .. (p + k))
    BY <1>1, FS_Interval
  <2> QED BY <2>1, SumInteger
<1>2. 0 \in Good
  <2>1. (p + 1) .. (p + 0) = {} /\ p + 0 = p OBVIOUS
  <2>2. Sum((p + 1) .. (p + 0), f) = 0 BY <2>1, SumEmpty
  <2>3. Sum(1 .. (p + 0), f) \in Int
    <3>1. 0 \in Nat /\ 0 <= q OBVIOUS
    <3> HIDE DEF Good
    <3> QED BY <1>1, <3>1, Zenon
  <2> QED BY <2>1, <2>2, <2>3
<1>3. ASSUME NEW k \in Nat, k \in Good PROVE k + 1 \in Good
  <2> SUFFICES ASSUME k + 1 <= q
               PROVE  Sum(1 .. (p + (k + 1)), f)
                         = Sum(1 .. p, f) + Sum((p + 1) .. (p + (k + 1)), f)
    OBVIOUS
  <2>1. Sum(1 .. (p + (k + 1)), f) = Sum(1 .. (p + k), f) + f[p + (k + 1)]
    <3>1. \A i \in (0 + 1) .. (0 + ((p + k) + 1)) : f[i] \in Int OBVIOUS
    <3>2. Sum((0 + 1) .. (0 + ((p + k) + 1)), f)
             = Sum((0 + 1) .. (0 + (p + k)), f) + f[0 + ((p + k) + 1)]
      <4>1. 0 \in Int /\ p + k \in Nat OBVIOUS
      <4> HIDE DEF Good
      <4> QED BY <3>1, <4>1, SumNext, Zenon
    <3>3. /\ (0 + 1) .. (0 + ((p + k) + 1)) = 1 .. (p + (k + 1))
          /\ (0 + 1) .. (0 + (p + k)) = 1 .. (p + k)
          /\ 0 + ((p + k) + 1) = p + (k + 1)
      OBVIOUS
    <3> QED BY <3>2, <3>3
  <2>2. Sum((p + 1) .. (p + (k + 1)), f)
           = Sum((p + 1) .. (p + k), f) + f[p + (k + 1)]
    <3>1. p \in Int OBVIOUS
    <3>2. \A i \in (p + 1) .. (p + (k + 1)) : f[i] \in Int OBVIOUS
    <3> HIDE DEF Good
    <3> QED BY <3>1, <3>2, SumNext
  <2>3. Sum(1 .. (p + k), f)
           = Sum(1 .. p, f) + Sum((p + 1) .. (p + k), f)
    BY <1>3
  <2>4. /\ Sum(1 .. p, f) \in Int /\ Sum((p + 1) .. (p + k), f) \in Int
        /\ f[p + (k + 1)] \in Int
    <3>1. p + 0 = p /\ k <= q /\ 0 <= q /\ p + (k + 1) \in 1 .. (p + q) OBVIOUS
    <3>2. Sum(1 .. (p + 0), f) \in Int BY <1>1, <3>1
    <3> QED BY <1>1, <3>1, <3>2
  <2> QED BY <2>1, <2>2, <2>3, <2>4
<1>4. \A k \in Nat : k \in Good
  <2> HIDE DEF Good
  <2> QED BY <1>2, <1>3, NatSetInduction
<1> QED BY <1>4

-----------------------------------------------------------------------------
\* Comparing each part, scaled, compares the sums: shares that each round
\* down add up to no more than the whole they are shares of.
THEOREM SumScaled ==
  ASSUME NEW S, IsFiniteSet(S), NEW f, NEW g, NEW c \in Nat, NEW d \in Nat,
         \A x \in S : f[x] \in Nat /\ g[x] \in Nat /\ d * f[x] <= c * g[x]
  PROVE  d * Sum(S, f) <= c * Sum(S, g)
<1> DEFINE Good == {n \in Nat : \A T \in SUBSET S :
                       Cardinality(T) = n => d * Sum(T, f) <= c * Sum(T, g)}
<1>1. 0 \in Good
  <2> SUFFICES ASSUME NEW T \in SUBSET S, Cardinality(T) = 0
               PROVE  d * Sum(T, f) <= c * Sum(T, g)
    OBVIOUS
  <2>1. T = {} BY FS_Subset, FS_EmptySet
  <2>2. Sum(T, f) = 0 /\ Sum(T, g) = 0 BY <2>1, SumEmpty
  <2> QED BY <2>2
<1>2. ASSUME NEW n \in Nat, n \in Good PROVE n + 1 \in Good
  <2> SUFFICES ASSUME NEW T \in SUBSET S, Cardinality(T) = n + 1
               PROVE  d * Sum(T, f) <= c * Sum(T, g)
    OBVIOUS
  <2> DEFINE x == Pick(T)
             R == T \ {x}
  <2>1. T # {} BY FS_EmptySet
  <2>2. IsFiniteSet(T) /\ R \in SUBSET S /\ Cardinality(R) = Cardinality(T) - 1
    BY <2>1, SmallerSubset, Zenon
  <2>3. Cardinality(R) = n BY <2>2
  <2>4. d * Sum(R, f) <= c * Sum(R, g) BY <1>2, <2>2, <2>3
  <2>5. f[x] \in Nat /\ g[x] \in Nat /\ d * f[x] <= c * g[x]
    BY <2>1, PickElement
  <2>6. Sum(R, f) \in Nat /\ Sum(R, g) \in Nat
    <3>1. IsFiniteSet(R) BY <2>2, FS_Subset
    <3> QED BY <2>2, <3>1, SumNatural
  <2>7. Sum(T, f) = f[x] + Sum(R, f) /\ Sum(T, g) = g[x] + Sum(R, g)
    BY <2>1, <2>2, SumUnfold
  <2>8. \A p, u, v \in Nat : p * (u + v) = p * u + p * v OBVIOUS
  <2>9. /\ d * (f[x] + Sum(R, f)) = d * f[x] + d * Sum(R, f)
        /\ c * (g[x] + Sum(R, g)) = c * g[x] + c * Sum(R, g)
    BY <2>5, <2>6, <2>8
  <2>10. /\ d * f[x] \in Nat /\ d * Sum(R, f) \in Nat
         /\ c * g[x] \in Nat /\ c * Sum(R, g) \in Nat
    BY <2>5, <2>6
  <2>11. d * f[x] + d * Sum(R, f) <= c * g[x] + c * Sum(R, g)
    BY <2>4, <2>5, <2>10
  <2> QED BY <2>7, <2>9, <2>11
<1>3. \A n \in Nat : n \in Good
  <2> HIDE DEF Good
  <2> QED BY <1>1, <1>2, NatSetInduction
<1> QED BY <1>3, FS_CardinalityType

\* Nothing adds up to nothing.
THEOREM SumZero ==
  ASSUME NEW S, IsFiniteSet(S), NEW f, \A x \in S : f[x] = 0
  PROVE  Sum(S, f) = 0
<1>1. \A x \in S : f[x] \in Nat /\ 1 * f[x] <= 0 * f[x] OBVIOUS
<1>2. Sum(S, f) \in Nat BY <1>1, SumNatural
<1>3. 1 * Sum(S, f) <= 0 * Sum(S, f)
  <2>1. 1 \in Nat /\ 0 \in Nat OBVIOUS
  <2> QED BY <1>1, <2>1, SumScaled
<1> QED BY <1>2, <1>3

\* A sum and a count do not change when each element is renamed.
THEOREM SumImage ==
  ASSUME NEW S, IsFiniteSet(S), NEW h, NEW f, NEW g,
         \A x \in S : f[x] \in Int /\ g[h[x]] = f[x],
         \A x, y \in S : h[x] = h[y] => x = y
  PROVE  /\ Cardinality({h[x] : x \in S}) = Cardinality(S)
         /\ Sum({h[x] : x \in S}, g) = Sum(S, f)
<1> DEFINE Image(T) == {h[x] : x \in T}
           Same(T) == /\ IsFiniteSet(Image(T))
                      /\ Cardinality(Image(T)) = Cardinality(T)
                      /\ Sum(Image(T), g) = Sum(T, f)
           Good == {n \in Nat : \A T \in SUBSET S :
                       Cardinality(T) = n => Same(T)}
<1>1. 0 \in Good
  <2> SUFFICES ASSUME NEW T \in SUBSET S, Cardinality(T) = 0 PROVE Same(T)
    OBVIOUS
  <2>1. T = {} BY FS_Subset, FS_EmptySet
  <2>2. Image(T) = {} BY <2>1
  <2> QED BY <2>1, <2>2, SumEmpty, FS_EmptySet
<1>2. ASSUME NEW n \in Nat, n \in Good PROVE n + 1 \in Good
  <2> SUFFICES ASSUME NEW T \in SUBSET S, Cardinality(T) = n + 1 PROVE Same(T)
    OBVIOUS
  <2> DEFINE x == Pick(T)
             R == T \ {x}
  <2>1. T # {} BY FS_EmptySet
  <2>2. /\ IsFiniteSet(T) /\ R \in SUBSET S
        /\ Cardinality(R) = Cardinality(T) - 1
    BY <2>1, SmallerSubset, Zenon
  <2>3. x \in T BY <2>1, PickElement
  <2>4. Cardinality(R) = n BY <2>2
  <2>5. Same(R) BY <1>2, <2>2, <2>4
  <2> DEFINE A == Image(T)
             B == Image(R)
             z == h[x]
  <2>6. T = R \cup {x} /\ x \notin R BY <2>3
  <2> HIDE DEF x, R
  <2>7. A = B \cup {z} BY <2>6
  <2>8. z \notin B BY <2>2, <2>3, <2>6
  <2>9. \A y \in B \cup {z} : g[y] \in Int BY <2>2, <2>3
  <2>10. g[z] = f[x] BY <2>3
  <2>11. /\ IsFiniteSet(B) /\ Cardinality(B) = Cardinality(R)
         /\ Sum(B, g) = Sum(R, f)
    BY <2>5
  <2>12. Sum(T, f) = f[x] + Sum(R, f)
    <3>1. \A y \in R \cup {x} : f[y] \in Int BY <2>6
    <3>2. IsFiniteSet(R) BY <2>2, FS_Subset
    <3> QED BY <2>6, <3>1, <3>2, SumAdd
  <2>13. IsFiniteSet(A) /\ Cardinality(A) = Cardinality(T)
         /\ Sum(A, g) = Sum(T, f)
    <3> HIDE DEF A, B, z
    <3>1. IsFiniteSet(A) /\ Cardinality(A) = Cardinality(B) + 1
      BY <2>7, <2>8, <2>11, FS_AddElement
    <3>2. Sum(A, g) = g[z] + Sum(B, g)
      BY <2>7, <2>8, <2>9, <2>11, SumAdd
    <3> QED BY <2>4, <2>10, <2>11, <2>12, <3>1, <3>2
  <2> QED BY <2>13
<1> HIDE DEF Same
<1>3. \A n \in Nat : n \in Good
  <2> HIDE DEF Good
  <2> QED BY <1>1, <1>2, NatSetInduction
<1>4. Same(S) BY <1>3, FS_CardinalityType
<1> QED BY <1>4 DEF Same

\* A sum is the sum over a part and over the rest.
THEOREM SumParts ==
  ASSUME NEW S, IsFiniteSet(S), NEW f, \A x \in S : f[x] \in Int,
         NEW T \in SUBSET S
  PROVE  Sum(S, f) = Sum(T, f) + Sum(S \ T, f)
<1> DEFINE Splits(R) == Sum(S, f) = Sum(R, f) + Sum(S \ R, f)
           Good == {n \in Nat : \A R \in SUBSET S :
                       Cardinality(R) = n => Splits(R)}
<1>1. 0 \in Good
  <2> SUFFICES ASSUME NEW R \in SUBSET S, Cardinality(R) = 0 PROVE Splits(R)
    OBVIOUS
  <2>1. R = {} /\ S \ {} = S BY FS_Subset, FS_EmptySet
  <2>2. Sum(R, f) = 0 BY <2>1, SumEmpty
  <2>3. Sum(S, f) \in Int BY SumInteger
  <2> QED BY <2>1, <2>2, <2>3
<1>2. ASSUME NEW n \in Nat, n \in Good PROVE n + 1 \in Good
  <2> SUFFICES ASSUME NEW R \in SUBSET S, Cardinality(R) = n + 1
               PROVE  Splits(R)
    OBVIOUS
  <2> DEFINE x == Pick(R)
             Q == R \ {x}
  <2>1. R # {} BY FS_EmptySet
  <2>2. /\ IsFiniteSet(R) /\ Q \in SUBSET S
        /\ Cardinality(Q) = Cardinality(R) - 1
    BY <2>1, SmallerSubset, Zenon
  <2>3. x \in R BY <2>1, PickElement
  <2>4. Cardinality(Q) = n BY <2>2
  <2>5. Splits(Q) BY <1>2, <2>2, <2>4
  <2>6. x \in S \ Q /\ (S \ Q) \ {x} = S \ R /\ R \ {x} = Q BY <2>3
  <2> HIDE DEF x, Q
  <2>7. Sum(R, f) = f[x] + Sum(Q, f) BY <2>2, <2>3, <2>6, SumRemove
  <2>8. Sum(S \ Q, f) = f[x] + Sum(S \ R, f)
    <3>1. IsFiniteSet(S \ Q) BY FS_Subset
    <3> QED BY <2>6, <3>1, SumRemove
  <2>9. /\ f[x] \in Int /\ Sum(Q, f) \in Int /\ Sum(S \ R, f) \in Int
    <3>1. IsFiniteSet(S \ R) /\ IsFiniteSet(Q) BY <2>2, FS_Subset
    <3>2. \A y \in S \ R : f[y] \in Int OBVIOUS
    <3>3. \A y \in Q : f[y] \in Int BY <2>2
    <3> QED BY <2>3, <3>1, <3>2, <3>3, SumInteger
  <2> QED BY <2>5, <2>7, <2>8, <2>9
<1> HIDE DEF Splits
<1>3. \A n \in Nat : n \in Good
  <2> HIDE DEF Good
  <2> QED BY <1>1, <1>2, NatSetInduction
<1>4. Splits(T) BY <1>3, FS_Subset, FS_CardinalityType
<1> QED BY <1>4 DEF Splits
=============================================================================
