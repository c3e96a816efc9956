-------------------------------- MODULE Sums --------------------------------
(***************************************************************************)
(* The sum of an integer-valued function over a finite set.                *)
(***************************************************************************)
EXTENDS Integers, FiniteSets

Sum(S, f) ==
    LET total[T \in SUBSET S] ==
          IF T = {} THEN 0
          ELSE LET x == CHOOSE y \in T : TRUE
               IN  f[x] + total[T \ {x}]
    IN  total[S]
=============================================================================
