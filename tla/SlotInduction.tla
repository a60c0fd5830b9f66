--------------------------- MODULE SlotInduction ---------------------------
(***************************************************************************)
(* Induction over the numbers of an interval, the slots of a horizon or    *)
(* the cells of a ring, for proofs about what a loop over them computes.   *)
(***************************************************************************)
EXTENDS Integers, TLAPS, WellFoundedInduction

(* What holds of the first and passes from each to the next holds of all.  *)
LEMMA StepByStep ==
  ASSUME NEW a \in Int, NEW b \in Int, NEW P, a \in P,
         \A i \in a + 1 .. b : i - 1 \in P => i \in P
  PROVE  \A i \in a..b : i \in P
<1> DEFINE missed == {n \in Nat : a + n <= b /\ a + n \notin P}
<1>1. missed = {}
  <2> SUFFICES ASSUME missed # {} PROVE FALSE
    OBVIOUS
  <2>1. \E x \in missed : \A y \in missed : ~(<< y, x >> \in OpToRel(<, Nat))
    BY NatLessThanWellFounded, WFMin
  <2>2. \A x, y \in Nat : y < x => << y, x >> \in OpToRel(<, Nat)
    BY Zenon DEF OpToRel
  <2>3. PICK x \in missed : \A y \in missed : ~(y < x)
    BY <2>1, <2>2, Zenon
  <2>4. x \in Nat /\ a + x <= b /\ a + x \notin P
    OBVIOUS
  <2>5. x # 0
    BY <2>4
  <2>6. x - 1 \in Nat /\ x - 1 < x /\ a + (x - 1) <= b /\ a + (x - 1) = (a + x) - 1
    BY <2>4, <2>5
  <2>7. (a + x) - 1 \in P
    BY <2>3, <2>6
  <2>8. a + x \in a + 1 .. b
    BY <2>4, <2>5
  <2> QED
    BY <2>4, <2>7, <2>8
<1>2. ASSUME NEW i \in a..b PROVE i \in P
  <2> PICK n : n = i - a
    OBVIOUS
  <2>1. n \in Nat /\ a + n = i /\ a + n <= b
    OBVIOUS
  <2>2. n \notin missed
    BY <1>1
  <2> QED
    BY <2>1, <2>2
<1> QED
  BY <1>2

(* There is a function with the values that the recursion asks for.        *)
Unrolled(a, b, S, x0, step) ==
  {f \in [a..b -> S] : f[a] = x0 /\ \A i \in a + 1 .. b : f[i] = step[i][f[i - 1]]}

LEMMA RecursionWorks ==
  ASSUME NEW a \in Int, NEW b \in Int, a <= b, NEW S, NEW x0 \in S,
         NEW step \in [a + 1 .. b -> [S -> S]]
  PROVE  \E f : f \in Unrolled(a, b, S, x0, step)
<1> DEFINE Runs(f, n) == f[a] = x0 /\ \A i \in a + 1 .. n : f[i] = step[i][f[i - 1]]
           P == {n \in a..b : \E f \in [a..n -> S] : Runs(f, n)}
<1>1. a \in P
  <2> DEFINE f0 == [i \in a..a |-> x0]
  <2>1. f0 \in [a..a -> S] /\ f0[a] = x0 /\ \A i \in a + 1 .. a : f0[i] = step[i][f0[i - 1]]
    OBVIOUS
  <2> HIDE DEF f0
  <2>2. \E f \in [a..a -> S] : Runs(f, a)
    BY <2>1, Zenon
  <2>3. a \in a..b
    OBVIOUS
  <2> QED
    BY <2>2, <2>3, Zenon
<1>2. ASSUME NEW n \in a + 1 .. b, n - 1 \in P PROVE n \in P
  <2>1. PICK f \in [a..n - 1 -> S] : Runs(f, n - 1)
    BY <1>2
  <2> DEFINE g == [i \in a..n |-> IF i = n THEN step[n][f[n - 1]] ELSE f[i]]
  <2>2. n - 1 \in a..n - 1 /\ step[n][f[n - 1]] \in S
    OBVIOUS
  <2>3. g \in [a..n -> S]
    BY <2>2
  <2>4. g[a] = x0
    BY <2>1
  <2>5. ASSUME NEW i \in a + 1 .. n PROVE g[i] = step[i][g[i - 1]]
    <3>1. i - 1 \in a..n - 1 /\ i - 1 # n /\ i \in a..n
      OBVIOUS
    <3>2. g[i - 1] = f[i - 1]
      BY <3>1
    <3>3. CASE i = n
      BY <3>2, <3>3
    <3>4. CASE i # n
      <4>1. i \in a + 1 .. n - 1
        BY <3>4
      <4>2. g[i] = f[i]
        BY <3>1, <3>4
      <4> QED
        BY <2>1, <3>2, <4>1, <4>2
    <3> QED
      BY <3>3, <3>4
  <2> HIDE DEF g
  <2>6. n \in a..b
    OBVIOUS
  <2> QED
    BY <2>3, <2>4, <2>5, <2>6
<1> HIDE DEF P
<1>3. \A i \in a..b : i \in P
  BY <1>1, <1>2, StepByStep
<1>4. b \in P
  BY <1>3
<1> QED
  BY <1>4 DEF P, Unrolled
=============================================================================
