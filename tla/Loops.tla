-------------------------------- MODULE Loops --------------------------------
(***************************************************************************)
(* What the proofs need of loops: a recursive function over 0..n exists,   *)
(* and what each turn keeps holds at the end.  Both follow from the least  *)
(* element of a set of naturals, which finite sets have by inclusion.      *)
(***************************************************************************)
EXTENDS Integers, FiniteSetsExt, FiniteSetTheorems, WellFoundedInduction, TLAPS

\* Whatever set of places there is has a first one.
LEMMA FirstExists ==
    ASSUME NEW n \in Nat, NEW S, S \subseteq 0..n, S # {}
    PROVE  \E m \in S : \A k \in S : m <= k
<1> DEFINE UpTo(k) == {i \in S : i <= k}
           T == {UpTo(k) : k \in S}
<1>1. IsFiniteSet(S)
  <2>1. IsFiniteSet(0..n) BY FS_Interval
  <2> QED BY <2>1, FS_Subset
<1>2. T \subseteq FiniteSubsetsOf(S) /\ T # {}
  <2>1. SUBSET S = FiniteSubsetsOf(S) BY <1>1, FS_FiniteSubsetsOfFinite
  <2>2. \A k \in S : UpTo(k) \in SUBSET S OBVIOUS
  <2> HIDE DEF UpTo
  <2>3. \A B \in T : B \in SUBSET S BY <2>2
  <2>4. T # {} OBVIOUS
  <2> QED BY <2>1, <2>3, <2>4
<1>3. IsWellFoundedOn(StrictSubsetOrdering(S), FiniteSubsetsOf(S))
  BY FS_StrictSubsetOrderingWellFounded
<1> HIDE DEF T
<1>4. PICK B \in T : \A C \in T : <<C, B>> \notin StrictSubsetOrdering(S)
  BY <1>2, <1>3, WFMin
<1>5. PICK m \in S : B = UpTo(m) BY DEF T
<1>6. ASSUME NEW k \in S, k < m PROVE FALSE
  <2>1. UpTo(k) \in T BY DEF T
  <2>2. m \in Int /\ k \in Int /\ S \subseteq Int OBVIOUS
  <2>3. m \in UpTo(m) /\ m \notin UpTo(k) BY <1>6, <2>2
  <2>4. ASSUME NEW j \in UpTo(k) PROVE j \in UpTo(m)
    <3>1. j \in S /\ j \in Int /\ j <= k BY <2>2
    <3>2. j <= m BY <1>6, <2>2, <3>1
    <3> QED BY <3>1, <3>2
  <2>5. UpTo(k) \in SUBSET S /\ UpTo(m) \in SUBSET S /\ UpTo(k) # UpTo(m) BY <2>3
  <2> HIDE DEF UpTo
  <2>6. <<UpTo(k), B>> \in StrictSubsetOrdering(S) BY <1>5, <2>4, <2>5 DEF StrictSubsetOrdering
  <2> QED BY <1>4, <2>1, <2>6
<1>7. \A k \in S : m <= k
  <2>1. S \subseteq Int OBVIOUS
  <2> QED BY <1>6, <2>1
<1> QED BY <1>7

\* What holds before a loop, and after each turn of it, holds when it ends.
LEMMA LoopKeeps ==
    ASSUME NEW n \in Nat, NEW S, 0 \in S, \A i \in 1..n : i - 1 \in S => i \in S
    PROVE  0..n \subseteq S
<1> DEFINE Left == (0..n) \ S
<1>1. CASE Left = {} BY <1>1
<1>2. CASE Left # {}
  <2>1. Left \subseteq 0..n OBVIOUS
  <2> HIDE DEF Left
  <2>2. PICK m \in Left : \A k \in Left : m <= k BY <1>2, <2>1, FirstExists
  <2>3. m \in 0..n /\ m \notin S BY DEF Left
  <2>4. m \in 1..n /\ m - 1 \in 0..n BY <2>3
  <2>5. m - 1 \notin Left BY <2>2, <2>4
  <2>6. m - 1 \in S BY <2>4, <2>5 DEF Left
  <2> QED BY <2>3, <2>4, <2>6
<1> QED BY <1>1, <1>2

\* f is what a loop of n turns leaves after each, from v on.
Ran(f, n, X, v, step) ==
    f \in [0..n -> X] /\ f[0] = v /\ \A i \in 1..n : f[i] = step[i][f[i - 1]]

\* What the state after each step of a loop is.
LEMMA LoopRuns ==
    ASSUME NEW n \in Nat, NEW X, NEW v \in X, NEW step \in [1..n -> [X -> X]]
    PROVE  \E f : Ran(f, n, X, v, step)
<1> DEFINE S == {m \in 0..n : \E f : Ran(f, m, X, v, step)}
<1>1. 0 \in S
  <2>1. Ran([i \in 0..0 |-> v], 0, X, v, step) BY DEF Ran
  <2> QED BY <2>1
<1>2. ASSUME NEW m \in 1..n, m - 1 \in S PROVE m \in S
  <2>1. PICK f : Ran(f, m - 1, X, v, step) BY <1>2
  <2> DEFINE g == [i \in 0..m |-> IF i = m THEN step[m][f[m - 1]] ELSE f[i]]
  <2>2. m \in Int /\ m >= 1 /\ f[m - 1] \in X BY <2>1 DEF Ran
  <2>3. step[m][f[m - 1]] \in X BY <2>2
  <2>4. g \in [0..m -> X] BY <2>1, <2>2, <2>3 DEF Ran
  <2>5. g[0] = v BY <2>1, <2>2 DEF Ran
  <2>6. ASSUME NEW i \in 1..m PROVE g[i] = step[i][g[i - 1]]
    <3>1. CASE i = m BY <2>2, <3>1
    <3>2. CASE i # m
      <4>1. i \in 1..(m - 1) /\ i - 1 \in 0..m /\ i \in 0..m /\ i - 1 # m BY <2>2, <3>2
      <4>2. f[i] = step[i][f[i - 1]] BY <2>1, <4>1 DEF Ran
      <4> QED BY <3>2, <4>1, <4>2
    <3> QED BY <3>1, <3>2
  <2> HIDE DEF g
  <2>7. Ran(g, m, X, v, step) BY <2>4, <2>5, <2>6 DEF Ran
  <2>8. m \in 0..n OBVIOUS
  <2> QED BY <2>7, <2>8
<1> HIDE DEF S
<1>3. 0..n \subseteq S BY <1>1, <1>2, LoopKeeps
<1>4. n \in S BY <1>3
<1> QED BY <1>4 DEF S
-----------------------------------------------------------------------------
\* Max is the greatest of its numbers.
LEMMA GreatestIs ==
    ASSUME NEW a \in Int, NEW b \in Int, NEW S, S \subseteq a..b, S # {}
    PROVE  Max(S) \in S /\ \A k \in S : k <= Max(S)
<1> DEFINE R == {b - k : k \in S}
<1>1. b - a \in Nat /\ R \subseteq 0..(b - a) /\ R # {}
  <2>1. \A k \in S : k \in a..b /\ b - k \in 0..(b - a) OBVIOUS
  <2>2. PICK k \in S : k \in a..b OBVIOUS
  <2>3. b - a \in Nat BY <2>2
  <2> QED BY <2>1, <2>3
<1> HIDE DEF R
<1>2. PICK r \in R : \A k \in R : r <= k BY <1>1, FirstExists
<1>3. PICK m \in S : r = b - m BY DEF R
<1>4. \A k \in S : b - k \in R BY DEF R
<1>5. \A k \in S : m >= k
  <2>1. S \subseteq Int OBVIOUS
  <2> QED BY <1>2, <1>3, <1>4, <2>1
<1> QED BY <1>5 DEF Max

\* And Min the least.
LEMMA LowestIs ==
    ASSUME NEW a \in Int, NEW b \in Int, NEW S, S \subseteq a..b, S # {}
    PROVE  Min(S) \in S /\ \A k \in S : Min(S) <= k
<1> DEFINE R == {k - a : k \in S}
<1>1. b - a \in Nat /\ R \subseteq 0..(b - a) /\ R # {}
  <2>1. \A k \in S : k \in a..b /\ k - a \in 0..(b - a) OBVIOUS
  <2>2. PICK k \in S : k \in a..b OBVIOUS
  <2>3. b - a \in Nat BY <2>2
  <2> QED BY <2>1, <2>3
<1> HIDE DEF R
<1>2. PICK r \in R : \A k \in R : r <= k BY <1>1, FirstExists
<1>3. PICK m \in S : r = m - a BY DEF R
<1>4. \A k \in S : k - a \in R BY DEF R
<1>5. \A k \in S : m <= k
  <2>1. S \subseteq Int OBVIOUS
  <2> QED BY <1>2, <1>3, <1>4, <2>1
<1> QED BY <1>5 DEF Min

\* Min of whatever naturals there are.
LEMMA LeastIs ==
    ASSUME NEW S, S \subseteq Nat, S # {}
    PROVE  Min(S) \in S /\ \A k \in S : Min(S) <= k
<1>1. PICK n \in S : TRUE OBVIOUS
<1> DEFINE R == S \cap (0..n)
<1>2. n \in Nat /\ R \subseteq 0..n /\ n \in R BY <1>1
<1> HIDE DEF R
<1>3. PICK m \in R : \A k \in R : m <= k BY <1>2, FirstExists
<1>4. \A k \in S : k >= m
  <2> SUFFICES ASSUME NEW k \in S PROVE k >= m OBVIOUS
  <2>1. CASE k \in R BY <1>2, <1>3, <2>1
  <2>2. CASE k \notin R BY <1>2, <1>3, <2>2 DEF R
  <2> QED BY <2>1, <2>2
<1>5. m \in S BY <1>3 DEF R
<1> QED BY <1>4, <1>5 DEF Min

-----------------------------------------------------------------------------
\* R puts S in an order, a place for each.
Orders(R, S) ==
    \A i, j, k \in S :
      /\ <<i, i>> \notin R
      /\ i # j => <<i, j>> \in R \/ <<j, i>> \in R
      /\ <<i, j>> \in R /\ <<j, k>> \in R => <<i, k>> \in R
Preceding(R, S, i) == {j \in S : <<j, i>> \in R}
Rank(R, S) == [i \in S |-> Cardinality(Preceding(R, S, i)) + 1]

\* To count who comes before is to sort: each has a place of its own, and no place
\* is empty.
LEMMA RanksSort ==
    ASSUME NEW S, IsFiniteSet(S), NEW R, Orders(R, S)
    PROVE  /\ Cardinality(S) \in Nat
           /\ \A i \in S : Rank(R, S)[i] \in 1..Cardinality(S)
           /\ \A k \in 1..Cardinality(S) : \E i \in S : Rank(R, S)[i] = k
           /\ \A i, j \in S : Rank(R, S)[i] = Rank(R, S)[j] => i = j
           /\ \A i, j \in S : <<i, j>> \in R => Rank(R, S)[i] < Rank(R, S)[j]
<1> DEFINE n == Cardinality(S)  r == Rank(R, S)
<1>1. n \in Nat BY FS_CardinalityType
<1>2. ASSUME NEW i \in S
      PROVE  IsFiniteSet(Preceding(R, S, i)) /\ Cardinality(Preceding(R, S, i)) \in Nat
  <2>1. Preceding(R, S, i) \in SUBSET S BY DEF Preceding
  <2>2. IsFiniteSet(Preceding(R, S, i)) BY <2>1, FS_Subset
  <2> QED BY <2>2, FS_CardinalityType
<1>3. ASSUME NEW i \in S PROVE r[i] \in 1..n /\ r[i] = Cardinality(Preceding(R, S, i)) + 1
  <2>1. Preceding(R, S, i) \in SUBSET S /\ i \notin Preceding(R, S, i) BY DEF Preceding, Orders
  <2>2. Preceding(R, S, i) # S BY <2>1
  <2>3. Cardinality(Preceding(R, S, i)) <= n /\ Cardinality(Preceding(R, S, i)) # n
    BY <2>1, <2>2, FS_Subset
  <2> QED BY <1>1, <1>2, <2>3 DEF Rank
<1>4. ASSUME NEW i \in S, NEW j \in S, <<i, j>> \in R PROVE r[i] < r[j]
  <2>1. Preceding(R, S, i) \in SUBSET Preceding(R, S, j) /\ i \in Preceding(R, S, j) /\ i \notin Preceding(R, S, i)
    BY <1>4 DEF Preceding, Orders
  <2>2. Preceding(R, S, i) # Preceding(R, S, j) BY <2>1
  <2>3. Cardinality(Preceding(R, S, i)) <= Cardinality(Preceding(R, S, j))
        /\ Cardinality(Preceding(R, S, i)) # Cardinality(Preceding(R, S, j))
    BY <1>2, <2>1, <2>2, FS_Subset
  <2> QED BY <1>2, <1>3, <2>3
<1>5. ASSUME NEW i \in S, NEW j \in S, r[i] = r[j] PROVE i = j
  <2>1. r[i] \in Int /\ r[j] \in Int BY <1>1, <1>3
  <2>2. <<i, j>> \notin R /\ <<j, i>> \notin R BY <1>4, <1>5, <2>1
  <2> QED BY <2>2 DEF Orders
<1>6. r \in Injection(S, 1..n)
  <2>1. r \in [S -> 1..n] BY <1>3 DEF Rank
  <2> HIDE DEF r
  <2> QED BY <1>5, <2>1 DEF Injection, IsInjective
<1>7. IsFiniteSet(1..n) /\ Cardinality(1..n) = n BY <1>1, FS_Interval
<1>8. r \in Surjection(S, 1..n) BY <1>6, <1>7, FS_Injection
<1>9. \A k \in 1..n : \E i \in S : r[i] = k
  <2> HIDE DEF r
  <2> QED BY <1>8 DEF Surjection
<1> QED BY <1>1, <1>3, <1>4, <1>5, <1>9
=============================================================================
