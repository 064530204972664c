------------------------------ MODULE Recursion -----------------------------
(***************************************************************************)
(* Induction and recursion over the natural numbers: what the proofs about *)
(* the other modules need to follow a function from one number to the next.*)
(***************************************************************************)
EXTENDS Integers, FiniteSetsExt, WellFoundedInduction, TLAPS

LEMMA InductionOverNat ==
    ASSUME NEW P \in SUBSET Nat, 0 \in P, \A n \in P : n + 1 \in P
    PROVE  P = Nat
  <1> SUFFICES ASSUME Nat \ P # {} PROVE FALSE
    OBVIOUS
  <1> DEFINE R == OpToRel(<, Nat)
  <1>1. \A x, y \in Nat : x < y => <<x, y>> \in R
    BY DEF OpToRel
  <1>2. PICK n \in Nat \ P : \A k \in Nat \ P : ~(<<k, n>> \in R)
    <2> HIDE DEF R
    <2>1. IsWellFoundedOn(R, Nat)
      BY NatLessThanWellFounded DEF R
    <2>2. Nat \ P \subseteq Nat
      OBVIOUS
    <2>3. QED
      BY <2>1, <2>2, WFMin
  <1> HIDE DEF R
  <1>3. n # 0 /\ n - 1 \in Nat
    BY <1>2
  <1>4. n - 1 \in P
    <2>1. <<n - 1, n>> \in R
      BY <1>1, <1>3
    <2>2. QED
      BY <1>2, <1>3, <2>1
  <1>5. (n - 1) + 1 = n
    BY <1>2
  <1>6. QED
    BY <1>2, <1>4, <1>5

\* A function that is given for 0, and for every number from the number before, exists.
RunExists(S, first, n, F) ==
    \E g \in [0 .. n -> S] : g[0] = first /\ \A i \in 1 .. n : g[i] = F[<<i, g[i - 1]>>]

LEMMA RecursionExists ==
    ASSUME NEW S, NEW first \in S, NEW n \in Nat, NEW F \in [(1 .. n) \X S -> S]
    PROVE  RunExists(S, first, n, F)
  <1> DEFINE Upto(k) == \E g \in [0 .. k -> S] : g[0] = first /\ \A i \in 1 .. k : g[i] = F[<<i, g[i - 1]>>]
             P == {k \in Nat : k <= n => Upto(k)}
  <1>1. 0 \in P
    <2> DEFINE g == [i \in 0 .. 0 |-> first]
    <2>1. g \in [0 .. 0 -> S] /\ g[0] = first /\ 1 .. 0 = {}
      OBVIOUS
    <2>2. QED
      BY <2>1
  <1>2. ASSUME NEW k \in P PROVE k + 1 \in P
    <2> SUFFICES ASSUME k + 1 <= n PROVE Upto(k + 1)
      OBVIOUS
    <2>1. k \in Nat /\ k <= n /\ k + 1 \in 1 .. n
      OBVIOUS
    <2>2. PICK g \in [0 .. k -> S] : g[0] = first /\ \A i \in 1 .. k : g[i] = F[<<i, g[i - 1]>>]
      BY <2>1
    <2> DEFINE h == [i \in 0 .. k + 1 |-> IF i = k + 1 THEN F[<<k + 1, g[k]>>] ELSE g[i]]
    <2>3. g[k] \in S
      BY <2>1
    <2>4. F[<<k + 1, g[k]>>] \in S
      BY <2>1, <2>3
    <2>5. h \in [0 .. k + 1 -> S]
      BY <2>1, <2>4
    <2>6. h[0] = first
      BY <2>1, <2>2
    <2>7. ASSUME NEW i \in 1 .. k + 1 PROVE h[i] = F[<<i, h[i - 1]>>]
      <3>1. CASE i = k + 1
        <4>1. i - 1 = k /\ h[i - 1] = g[k]
          BY <2>1, <3>1
        <4>2. h[i] = F[<<k + 1, g[k]>>]
          BY <2>1, <3>1
        <4> HIDE DEF h
        <4>3. QED
          BY <3>1, <4>1, <4>2
      <3>2. CASE i # k + 1
        <4>1. i \in 1 .. k /\ i - 1 \in 0 .. k /\ i - 1 # k + 1
          BY <2>1, <3>2
        <4>2. h[i] = g[i] /\ h[i - 1] = g[i - 1]
          BY <2>1, <3>2, <4>1
        <4>3. QED
          BY <2>2, <4>1, <4>2
      <3>3. QED
        BY <3>1, <3>2
    <2> HIDE DEF h
    <2>8. QED
      BY <2>5, <2>6, <2>7
  <1>3. P = Nat
    <2>1. P \in SUBSET Nat
      OBVIOUS
    <2> HIDE DEF P
    <2>2. QED
      BY <1>1, <1>2, <2>1, InductionOverNat
  <1>4. Upto(n)
    <2>1. n \in P
      <3> HIDE DEF P
      <3>1. QED
        BY <1>3
    <2> HIDE DEF Upto
    <2>2. n \in Nat /\ (n <= n => Upto(n))
      BY <2>1
    <2>3. QED
      BY <2>2
  <1> HIDE DEF P
  <1>5. QED
    BY <1>4 DEF RunExists

\* Two functions that start alike and go on alike are alike.
LEMMA SameRun ==
    ASSUME NEW n \in Nat, NEW f, NEW a, f[0] = a[0],
           \A i \in 1 .. n : f[i - 1] = a[i - 1] => f[i] = a[i]
    PROVE  \A i \in 0 .. n : f[i] = a[i]
  <1> DEFINE P == {k \in Nat : k <= n => f[k] = a[k]}
  <1>1. 0 \in P
    OBVIOUS
  <1>2. ASSUME NEW k \in P PROVE k + 1 \in P
    <2> SUFFICES ASSUME k + 1 <= n PROVE f[k + 1] = a[k + 1]
      OBVIOUS
    <2>1. k \in Nat /\ k <= n /\ k + 1 \in 1 .. n /\ (k + 1) - 1 = k
      OBVIOUS
    <2>2. f[k] = a[k]
      BY <2>1
    <2>3. QED
      BY <2>1, <2>2
  <1>3. P \in SUBSET Nat
    OBVIOUS
  <1> HIDE DEF P
  <1>4. P = Nat
    BY <1>1, <1>2, <1>3, InductionOverNat
  <1>5. QED
    BY <1>4 DEF P

\* A set of numbers with an element has a least.
LEMMA LeastNumber ==
    ASSUME NEW S \in SUBSET Nat, S # {} PROVE \E n \in S : \A k \in S : ~(k < n)
  <1> DEFINE R == OpToRel(<, Nat)
  <1>1. \A x, y \in Nat : x < y => <<x, y>> \in R
    BY DEF OpToRel
  <1>2. PICK n \in S : \A k \in S : ~(<<k, n>> \in R)
    <2> HIDE DEF R
    <2>1. IsWellFoundedOn(R, Nat)
      BY NatLessThanWellFounded DEF R
    <2>2. QED
      BY <2>1, WFMin
  <1> HIDE DEF R
  <1>3. QED
    BY <1>1, <1>2

\* A bounded set of integers with an element has a greatest.
LEMMA GreatestExists ==
    ASSUME NEW S \in SUBSET Int, S # {}, NEW bound \in Int, \A x \in S : x <= bound
    PROVE  Max(S) \in S /\ \A x \in S : Max(S) >= x
  <1> DEFINE D == {bound - x : x \in S}
  <1>1. D \in SUBSET Nat /\ D # {}
    <2>1. \A x \in S : bound - x \in Nat
      OBVIOUS
    <2>2. QED
      BY <2>1
  <1>2. PICK d \in D : \A k \in D : ~(k < d)
    <2> HIDE DEF D
    <2>1. QED
      BY <1>1, LeastNumber
  <1>3. PICK m \in S : d = bound - m
    OBVIOUS
  <1>4. ASSUME NEW x \in S PROVE m >= x
    <2>1. bound - x \in D /\ ~(bound - x < bound - m)
      BY <1>2, <1>3
    <2>2. QED
      BY <2>1
  <1>5. QED
    BY <1>4 DEF Max
=============================================================================
