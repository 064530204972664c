---------------------------- MODULE SolverProofs ---------------------------
(***************************************************************************)
(* Proofs about module Solver, for problems of any size: no variable is    *)
(* ever lost from the decision order, so that the model found is total and *)
(* satisfies what was asked; what is learnt follows from the clauses,      *)
(* reasons are supported, and the answer is the one Satisfiability         *)
(* promises.  At the end about module Solve, for databases and requests of *)
(* any size: the solutions of the problem posed are the consistent         *)
(* selections, and the engine is told of one if there is one.              *)
(***************************************************************************)
EXTENDS Solve, ResolveProofs

(***************************************************************************)
(* The invariant: NoneForgotten, strengthened by the types that the steps  *)
(* need to put back what they take off the trail.                          *)
(***************************************************************************)
ClausesTyped == clauses \subseteq SUBSET Literals /\ learnts \subseteq SUBSET Literals

\* The marks of the levels lie on the trail, one behind the other.
LevelsTyped ==
    /\ trail_lim \in Seq(Nat)
    /\ \A i \in DOMAIN trail_lim : trail_lim[i] <= Len(trail)
    /\ \A i, j \in DOMAIN trail_lim : i < j => trail_lim[i] <= trail_lim[j]

TrailTyped ==
    /\ trail \in Seq(Literals)
    /\ LevelsTyped
    /\ level \in [Variables -> Int] /\ \E n \in Int : \A v \in Variables : level[v] <= n
    /\ reason \in [Variables -> SUBSET Literals]
    /\ order \in Seq(Variables)

SolverInv ==
    /\ problem \in Problems
    /\ added \in Nat
    /\ ClausesTyped
    /\ TrailTyped
    /\ NoneForgotten

LEMMA ProblemTyped ==
    ASSUME problem \in Problems
    PROVE  /\ problem.vars \in Nat
           /\ problem.clauses \in Seq(SUBSET Literals)
           /\ problem.assumptions \in Seq(Literals)
           /\ RootLevel \in Nat
           /\ problem.preferences \in Seq(Variables)
           /\ ToSet(problem.preferences) = Variables
  <1>1. ProblemShape(problem)
    BY SolverAssumption
  <1>2. QED
    BY <1>1 DEF ProblemShape, Literals, Variables, RootLevel

LEMMA LiteralFacts ==
    ASSUME problem \in Problems
    PROVE  /\ \A l \in Literals : Var(l) \in Variables /\ -l \in Literals
           /\ \A v \in Variables : v \in Literals /\ -v \in Literals /\ Var(v) = v /\ Var(-v) = v
  BY ProblemTyped DEF Literals, Variables, Var

LEMMA ElementsOf ==
    ASSUME NEW s, NEW x
    PROVE  x \in ToSet(s) <=> \E i \in DOMAIN s : s[i] = x
  BY DEF ToSet

(***************************************************************************)
(* What cancelUntil leaves and undoes.                                     *)
(***************************************************************************)
LEMMA KeptIsPrefix ==
    ASSUME TrailTyped, NEW b \in Nat
    PROVE  /\ Kept(b) \in Seq(Literals)
           /\ Len(Kept(b)) <= Len(trail)
           /\ \A i \in 1 .. Len(Kept(b)) : Kept(b)[i] = trail[i]
           /\ b < DecisionLevel => Len(Kept(b)) = trail_lim[b + 1]
  <1>1. trail \in Seq(Literals) /\ DecisionLevel \in Nat
    BY DEF TrailTyped, LevelsTyped, DecisionLevel
  <1>2. CASE b < DecisionLevel
    <2>1. b + 1 \in DOMAIN trail_lim
      BY <1>1, <1>2 DEF TrailTyped, LevelsTyped, DecisionLevel
    <2>2. trail_lim[b + 1] \in Nat /\ trail_lim[b + 1] <= Len(trail)
      BY <2>1 DEF TrailTyped, LevelsTyped
    <2>3. Kept(b) = SubSeq(trail, 1, trail_lim[b + 1])
      BY <1>2 DEF Kept
    <2>4. QED
      BY <1>1, <2>2, <2>3
  <1>3. CASE ~(b < DecisionLevel)
    <2>1. Kept(b) = trail
      BY <1>3 DEF Kept
    <2>2. QED
      BY <1>1, <1>3, <2>1
  <1>4. QED
    BY <1>2, <1>3

LEMMA KeptLevelsTyped ==
    ASSUME TrailTyped, NEW b \in Nat
    PROVE  /\ KeptLevels(b) \in Seq(Nat)
           /\ \A i \in DOMAIN KeptLevels(b) : KeptLevels(b)[i] <= Len(Kept(b))
           /\ \A i, j \in DOMAIN KeptLevels(b) : i < j => KeptLevels(b)[i] <= KeptLevels(b)[j]
  <1>1. trail_lim \in Seq(Nat) /\ DecisionLevel = Len(trail_lim)
    BY DEF TrailTyped, LevelsTyped, DecisionLevel
  <1>2. CASE b < DecisionLevel
    <2>1. KeptLevels(b) = SubSeq(trail_lim, 1, b)
      BY <1>2 DEF KeptLevels
    <2>2. /\ KeptLevels(b) \in Seq(Nat) /\ DOMAIN KeptLevels(b) = 1 .. b
          /\ \A i \in 1 .. b : KeptLevels(b)[i] = trail_lim[i]
      BY <1>1, <1>2, <2>1
    <2>3. Len(Kept(b)) = trail_lim[b + 1]
      BY <1>2, KeptIsPrefix
    <2>4. b < Len(trail_lim) /\ Len(trail_lim) \in Nat
      BY <1>1, <1>2
    <2>5. b + 1 \in DOMAIN trail_lim
      BY <1>1, <2>4
    <2>6. \A i \in 1 .. b : i \in DOMAIN trail_lim /\ i < b + 1
      BY <1>1, <2>4
    <2>7. QED
      BY <2>2, <2>3, <2>5, <2>6 DEF TrailTyped, LevelsTyped
  <1>3. CASE ~(b < DecisionLevel)
    <2>1. KeptLevels(b) = trail_lim
      BY <1>1, <1>3 DEF KeptLevels
    <2>2. Kept(b) = trail
      BY <1>3 DEF Kept
    <2>3. QED
      BY <1>1, <2>1, <2>2 DEF TrailTyped, LevelsTyped
  <1>4. QED
    BY <1>2, <1>3

\* Every literal of the trail is kept, or its variable is undone.
LEMMA UndoneIsRest ==
    ASSUME problem \in Problems, TrailTyped, NEW b \in Nat
    PROVE  /\ Undone(b) \in Seq(Variables)
           /\ \A l \in ToSet(trail) : l \in ToSet(Kept(b)) \/ Var(l) \in ToSet(Undone(b))
           /\ ToSet(Kept(b)) \subseteq ToSet(trail)
  <1> DEFINE n == Len(trail)
             m == Len(Kept(b))
  <1>1. /\ trail \in Seq(Literals) /\ n \in Nat /\ m \in Nat /\ m <= n
        /\ Kept(b) \in Seq(Literals) /\ \A i \in 1 .. m : Kept(b)[i] = trail[i]
    <2>1. trail \in Seq(Literals)
      BY DEF TrailTyped
    <2>2. Kept(b) \in Seq(Literals) /\ m <= n /\ \A i \in 1 .. m : Kept(b)[i] = trail[i]
      BY KeptIsPrefix
    <2>3. n \in Nat /\ m \in Nat
      BY <2>1, <2>2
    <2>4. QED
      BY <2>1, <2>2, <2>3
  <1>2. Undone(b) = [i \in 1 .. n - m |-> Var(trail[n + 1 - i])]
    BY DEF Undone
  <1>3. \A i \in 1 .. n - m : n + 1 - i \in 1 .. n
    BY <1>1
  <1>4. \A i \in 1 .. n : trail[i] \in Literals
    BY <1>1
  <1>5. \A i \in 1 .. n - m : Var(trail[n + 1 - i]) \in Variables
    BY <1>3, <1>4, LiteralFacts
  <1>6. Undone(b) \in Seq(Variables) /\ DOMAIN Undone(b) = 1 .. n - m
    BY <1>1, <1>2, <1>5
  <1>7. ASSUME NEW l \in ToSet(trail)
        PROVE  l \in ToSet(Kept(b)) \/ Var(l) \in ToSet(Undone(b))
    <2>1. PICK i \in 1 .. n : trail[i] = l
      BY <1>1, ElementsOf
    <2>2. CASE i <= m
      <3>1. i \in DOMAIN Kept(b) /\ Kept(b)[i] = l
        BY <1>1, <2>1, <2>2
      <3>2. QED
        BY <3>1, ElementsOf
    <2>3. CASE m < i
      <3>1. n + 1 - i \in 1 .. n - m /\ n + 1 - (n + 1 - i) = i
        BY <1>1, <2>3
      <3>2. Undone(b)[n + 1 - i] = Var(l)
        BY <1>2, <2>1, <3>1
      <3>3. QED
        BY <1>6, <3>1, <3>2, ElementsOf
    <2>4. QED
      BY <1>1, <2>2, <2>3
  <1>8. ToSet(Kept(b)) \subseteq ToSet(trail)
    <2>1. ASSUME NEW l \in ToSet(Kept(b)) PROVE l \in ToSet(trail)
      <3>1. PICK i \in 1 .. m : Kept(b)[i] = l
        BY <1>1, ElementsOf
      <3>2. i \in DOMAIN trail /\ trail[i] = l
        BY <1>1, <3>1
      <3>3. QED
        BY <3>2, ElementsOf
    <2>2. QED
      BY <2>1
  <1>9. QED
    BY <1>6, <1>7, <1>8

LEMMA KeptReasonsTyped ==
    ASSUME TrailTyped, NEW b \in Nat
    PROVE  KeptReasons(b) \in [Variables -> SUBSET Literals]
  BY DEF KeptReasons, TrailTyped

(***************************************************************************)
(* What is learnt from a conflict.                                         *)
(***************************************************************************)
\* The step of FirstUIP at the i-th literal from the end of the trail.
Resolved(i, c) ==
    LET p == trail[Len(trail) + 1 - i]
    IN IF -p \notin c \/ Cardinality(AtCurrentLevel(c)) = 1 THEN c
       ELSE (c \ {-p}) \cup AboveRoot(reason[Var(p)] \ {p})

LEMMA FirstUIPRuns ==
    ASSUME problem \in Problems, TrailTyped, NEW confl \in SUBSET Literals
    PROVE  \E back \in [0 .. Len(trail) -> SUBSET Literals] :
              /\ back[0] = AboveRoot(confl)
              /\ \A i \in 1 .. Len(trail) : back[i] = Resolved(i, back[i - 1])
              /\ FirstUIP(confl) = back[Len(trail)]
  <1> DEFINE n == Len(trail)
             F == [x \in (1 .. n) \X SUBSET Literals |-> Resolved(x[1], x[2])]
             back[i \in 0 .. n] == IF i = 0 THEN AboveRoot(confl) ELSE Resolved(i, back[i - 1])
             Defines(g) == g = [i \in 0 .. n |-> IF i = 0 THEN AboveRoot(confl) ELSE Resolved(i, g[i - 1])]
  <1>1. n \in Nat /\ AboveRoot(confl) \in SUBSET Literals
    BY DEF TrailTyped, AboveRoot
  <1>2. ASSUME NEW i \in 1 .. n, NEW c \in SUBSET Literals
        PROVE  Resolved(i, c) \in SUBSET Literals
    <2>1. n + 1 - i \in 1 .. n
      BY <1>1
    <2>2. trail[n + 1 - i] \in Literals
      BY <2>1 DEF TrailTyped
    <2>3. reason[Var(trail[n + 1 - i])] \in SUBSET Literals
      BY <2>2, LiteralFacts DEF TrailTyped
    <2>4. AboveRoot(reason[Var(trail[n + 1 - i])] \ {trail[n + 1 - i]}) \in SUBSET Literals
      BY <2>3 DEF AboveRoot
    <2>5. QED
      BY <2>4 DEF Resolved
  <1>3. F \in [(1 .. n) \X SUBSET Literals -> SUBSET Literals]
    BY <1>2
  <1>4. \A i \in 1 .. n : \A c \in SUBSET Literals : F[<<i, c>>] = Resolved(i, c)
    OBVIOUS
  <1> HIDE DEF F
  <1>5. \E g : Defines(g)
    <2>1. PICK g \in [0 .. n -> SUBSET Literals] :
              g[0] = AboveRoot(confl) /\ \A i \in 1 .. n : g[i] = F[<<i, g[i - 1]>>]
      <3> DEFINE S == SUBSET Literals
                 first == AboveRoot(confl)
      <3>1. n \in Nat /\ first \in S /\ F \in [(1 .. n) \X S -> S]
        BY <1>1, <1>3
      <3> HIDE DEF n, S, first
      <3>2. RunExists(S, first, n, F)
        BY <3>1, RecursionExists
      <3>3. QED
        BY <3>2 DEF RunExists, S, first
    <2>2. ASSUME NEW i \in 0 .. n
          PROVE  g[i] = IF i = 0 THEN AboveRoot(confl) ELSE Resolved(i, g[i - 1])
      <3>1. CASE i = 0
        BY <2>1, <3>1
      <3>2. CASE i # 0
        <4>1. i \in 1 .. n /\ i - 1 \in 0 .. n
          BY <1>1, <3>2
        <4>2. g[i - 1] \in SUBSET Literals
          BY <2>1, <4>1
        <4>3. g[i] = F[<<i, g[i - 1]>>]
          BY <2>1, <4>1
        <4>4. F[<<i, g[i - 1]>>] = Resolved(i, g[i - 1])
          BY <1>4, <4>1, <4>2
        <4>5. QED
          BY <3>2, <4>3, <4>4
      <3>3. QED
        BY <3>1, <3>2
    <2>3. Defines(g)
      BY <2>2
    <2>4. QED
      BY <2>3
  <1>6. back = CHOOSE g : Defines(g)
    BY DEF Resolved
  <1> HIDE DEF back
  <1>7. Defines(back)
    BY <1>5, <1>6
  <1>8. \A i \in 0 .. n : back[i] \in SUBSET Literals
    <2> DEFINE P == {k \in Nat : k <= n => back[k] \in SUBSET Literals}
    <2>1. 0 \in P
      BY <1>1, <1>7
    <2>2. ASSUME NEW k \in P PROVE k + 1 \in P
      <3> SUFFICES ASSUME k + 1 <= n PROVE back[k + 1] \in SUBSET Literals
        OBVIOUS
      <3>1. k \in Nat /\ k <= n /\ k + 1 \in 1 .. n /\ k + 1 \in 0 .. n /\ k + 1 # 0 /\ (k + 1) - 1 = k
        BY <1>1
      <3>2. back[k] \in SUBSET Literals
        BY <3>1
      <3>3. back[k + 1] = Resolved(k + 1, back[k])
        BY <1>7, <3>1
      <3>4. QED
        BY <1>2, <3>1, <3>2, <3>3
    <2>3. P \in SUBSET Nat
      OBVIOUS
    <2> HIDE DEF P
    <2>4. P = Nat
      BY <2>1, <2>2, <2>3, InductionOverNat
    <2>5. QED
      BY <2>4, <1>1 DEF P
  <1>9. FirstUIP(confl) = back[n]
    BY DEF FirstUIP, back, Resolved
  <1>10. back \in [0 .. n -> SUBSET Literals]
    BY <1>7, <1>8
  <1>11. back[0] = AboveRoot(confl) /\ \A i \in 1 .. n : back[i] = Resolved(i, back[i - 1])
    BY <1>1, <1>7
  <1>12. QED
    BY <1>9, <1>10, <1>11

LEMMA FirstUIPTyped ==
    ASSUME problem \in Problems, TrailTyped, NEW confl \in SUBSET Literals
    PROVE  FirstUIP(confl) \in SUBSET Literals
  <1>1. PICK back \in [0 .. Len(trail) -> SUBSET Literals] : FirstUIP(confl) = back[Len(trail)]
    BY FirstUIPRuns
  <1>2. Len(trail) \in 0 .. Len(trail)
    BY DEF TrailTyped
  <1>3. QED
    BY <1>1, <1>2

LEMMA LearntTyped ==
    ASSUME problem \in Problems, TrailTyped, NEW confl \in SUBSET Literals
    PROVE  /\ FirstUIP(confl) \in SUBSET Literals
           /\ Minimized(FirstUIP(confl)) \in SUBSET Literals
           /\ BacktrackLevel(FirstUIP(confl)) \in Nat
           /\ BacktrackLevel(FirstUIP(confl)) >= RootLevel
  <1> DEFINE uip == FirstUIP(confl)
             levels == {level[Var(l)] : l \in uip \ AtCurrentLevel(uip)}
  <1>1. uip \in SUBSET Literals
    BY FirstUIPTyped
  <1> HIDE DEF uip
  <1>2. Minimized(uip) \in SUBSET Literals
    BY <1>1 DEF Minimized
  <1>3. RootLevel \in Nat
    BY ProblemTyped
  <1>4. levels \in SUBSET Int
    BY <1>1, LiteralFacts DEF TrailTyped
  <1>5. PICK n \in Int : \A v \in Variables : level[v] <= n
    BY DEF TrailTyped
  <1>6. \A x \in levels : x <= n
    BY <1>1, <1>5, LiteralFacts
  <1> HIDE DEF levels
  <1>7. PICK bound \in Int : bound >= n /\ bound >= RootLevel
    <2>1. CASE n >= RootLevel
      BY <1>3, <1>5, <2>1
    <2>2. CASE RootLevel >= n
      BY <1>3, <1>5, <2>2
    <2>3. QED
      BY <1>3, <1>5, <2>1, <2>2
  <1> DEFINE S == {RootLevel} \cup levels
  <1>8. S \in SUBSET Int /\ S # {} /\ \A x \in S : x <= bound
    BY <1>3, <1>4, <1>5, <1>6, <1>7
  <1>9. RootLevel \in S
    OBVIOUS
  <1> HIDE DEF S
  <1>10. Max(S) \in Int /\ Max(S) >= RootLevel
    <2>1. Max(S) \in S /\ \A x \in S : Max(S) >= x
      BY <1>7, <1>8, GreatestExists
    <2>2. QED
      BY <1>8, <1>9, <2>1
  <1>11. BacktrackLevel(uip) = Max(S)
    BY DEF BacktrackLevel, S, levels
  <1>12. BacktrackLevel(uip) \in Nat /\ BacktrackLevel(uip) >= RootLevel
    BY <1>3, <1>10, <1>11
  <1>13. QED
    BY <1>1, <1>2, <1>12 DEF uip

(***************************************************************************)
(* What the helpers of the steps preserve.                                 *)
(***************************************************************************)
LEMMA ProblemStays ==
    ASSUME problem' = problem
    PROVE  Variables' = Variables /\ Literals' = Literals
  BY DEF Variables, Literals

LEMMA BoundStays ==
    ASSUME TrailTyped, NEW v \in Variables, NEW x \in Int
    PROVE  LET new == [level EXCEPT ![v] = x]
           IN new \in [Variables -> Int] /\ \E n \in Int : \A w \in Variables : new[w] <= n
  <1> DEFINE new == [level EXCEPT ![v] = x]
  <1>1. level \in [Variables -> Int]
    BY DEF TrailTyped
  <1>2. new \in [Variables -> Int] /\ \A w \in Variables : new[w] = IF w = v THEN x ELSE level[w]
    BY <1>1
  <1>3. PICK n \in Int : \A w \in Variables : level[w] <= n
    BY DEF TrailTyped
  <1> HIDE DEF new
  <1>4. CASE n <= x
    <2>1. \A w \in Variables : new[w] <= x
      BY <1>1, <1>2, <1>3, <1>4
    <2>2. QED
      BY <1>2, <2>1 DEF new
  <1>5. CASE x <= n
    <2>1. \A w \in Variables : new[w] <= n
      BY <1>1, <1>2, <1>3, <1>5
    <2>2. QED
      BY <1>2, <2>1 DEF new
  <1>6. QED
    BY <1>3, <1>4, <1>5

\* Levels stay in place under a trail that is not shorter.
LEMMA LevelsStay ==
    ASSUME LevelsTyped, trail_lim' = trail_lim, Len(trail) \in Nat, Len(trail') \in Nat,
           Len(trail) <= Len(trail')
    PROVE  LevelsTyped'
  <1>1. \A i \in DOMAIN trail_lim : trail_lim[i] \in Nat
    BY DEF LevelsTyped
  <1>2. \A i \in DOMAIN trail_lim : trail_lim[i] <= Len(trail')
    BY <1>1 DEF LevelsTyped
  <1>3. QED
    BY <1>2 DEF LevelsTyped

\* What was assigned and is neither kept nor assigned again is in the order.
LEMMA Recovered ==
    ASSUME problem \in Problems, problem' = problem, TrailTyped, NEW b \in Nat,
           ToSet(Kept(b)) \subseteq ToSet(trail'), ToSet(Undone(b)) \subseteq ToSet(order'),
           \A v \in Variables : IsUndef(v) => v \in ToSet(order')
    PROVE  NoneForgotten'
  <1>1. SUFFICES ASSUME NEW v \in Variables, v \notin ToSet(trail'), -v \notin ToSet(trail')
                 PROVE  v \in ToSet(order')
    BY ProblemStays DEF NoneForgotten, IsUndef, IsTrue, IsFalse, ToSet
  <1>2. CASE IsUndef(v)
    BY <1>2
  <1>3. CASE ~IsUndef(v)
    <2>1. PICK l \in {v, -v} : l \in ToSet(trail)
      BY <1>3 DEF IsUndef, IsTrue, IsFalse
    <2>2. Var(l) = v
      BY LiteralFacts
    <2>3. l \notin ToSet(Kept(b))
      BY <1>1
    <2>4. QED
      BY <2>1, <2>2, <2>3, UndoneIsRest
  <1>4. QED
    BY <1>2, <1>3

LEMMA JoinedOrder ==
    ASSUME NEW S, NEW s \in Seq(S), NEW t \in Seq(S)
    PROVE  s \o t \in Seq(S) /\ ToSet(s) \subseteq ToSet(s \o t) /\ ToSet(t) \subseteq ToSet(s \o t)
  <1> DEFINE st == s \o t
  <1>1. /\ st \in Seq(S) /\ Len(st) = Len(s) + Len(t)
        /\ \A i \in 1 .. Len(s) : st[i] = s[i]
        /\ \A i \in 1 .. Len(t) : st[Len(s) + i] = t[i]
    OBVIOUS
  <1>2. Len(s) \in Nat /\ Len(t) \in Nat
    OBVIOUS
  <1> HIDE DEF st
  <1>3. ASSUME NEW x \in ToSet(s) PROVE x \in ToSet(st)
    <2>1. PICK i \in 1 .. Len(s) : s[i] = x
      BY ElementsOf
    <2>2. i \in DOMAIN st /\ st[i] = x
      BY <1>1, <1>2, <2>1
    <2>3. QED
      BY <2>2, ElementsOf
  <1>4. ASSUME NEW x \in ToSet(t) PROVE x \in ToSet(st)
    <2>1. PICK i \in 1 .. Len(t) : t[i] = x
      BY ElementsOf
    <2>2. Len(s) + i \in DOMAIN st /\ st[Len(s) + i] = x
      BY <1>1, <1>2, <2>1
    <2>3. QED
      BY <2>2, ElementsOf
  <1>5. QED
    BY <1>1, <1>3, <1>4 DEF st

LEMMA AppendedTrail ==
    ASSUME NEW S, NEW s \in Seq(S), NEW x \in S
    PROVE  /\ Append(s, x) \in Seq(S) /\ Len(Append(s, x)) = Len(s) + 1
           /\ \A y : y \in ToSet(Append(s, x)) <=> y \in ToSet(s) \/ y = x
  <1> DEFINE t == Append(s, x)
  <1>1. /\ t \in Seq(S) /\ Len(t) = Len(s) + 1 /\ Len(s) \in Nat /\ DOMAIN s = 1 .. Len(s)
        /\ DOMAIN t = 1 .. Len(s) + 1 /\ t[Len(s) + 1] = x /\ \A i \in 1 .. Len(s) : t[i] = s[i]
    OBVIOUS
  <1> HIDE DEF t
  <1>2. ASSUME NEW y PROVE y \in ToSet(t) <=> y \in ToSet(s) \/ y = x
    <2>1. ASSUME y \in ToSet(t) PROVE y \in ToSet(s) \/ y = x
      <3>1. PICK i \in 1 .. Len(s) + 1 : t[i] = y
        BY <1>1, <2>1, ElementsOf
      <3>2. CASE i = Len(s) + 1
        BY <1>1, <3>1, <3>2
      <3>3. CASE i # Len(s) + 1
        <4>1. i \in DOMAIN s /\ s[i] = y
          BY <1>1, <3>1, <3>3
        <4>2. QED
          BY <4>1, ElementsOf
      <3>4. QED
        BY <3>2, <3>3
    <2>2. ASSUME y \in ToSet(s) PROVE y \in ToSet(t)
      <3>1. PICK i \in DOMAIN s : s[i] = y
        BY <2>2, ElementsOf
      <3>2. i \in DOMAIN t /\ t[i] = y
        BY <1>1, <3>1
      <3>3. QED
        BY <3>2, ElementsOf
    <2>3. ASSUME y = x PROVE y \in ToSet(t)
      <3>1. Len(s) + 1 \in DOMAIN t
        BY <1>1
      <3>2. QED
        BY <1>1, <2>3, <3>1, ElementsOf
    <2>4. QED
      BY <2>1, <2>2, <2>3
  <1>3. QED
    BY <1>1, <1>2 DEF t

(***************************************************************************)
(* The helpers preserve the invariant of the trail.                        *)
(***************************************************************************)
LEMMA TrailUnchanged ==
    ASSUME problem \in Problems, problem' = problem, TrailTyped, NoneForgotten, UNCHANGED trailVars
    PROVE  TrailTyped' /\ NoneForgotten'
  BY ProblemStays DEF trailVars, TrailTyped, LevelsTyped, NoneForgotten, IsUndef, IsTrue, IsFalse

LEMMA EnqueueKeeps ==
    ASSUME problem \in Problems, problem' = problem, TrailTyped, NoneForgotten,
           NEW l \in Literals, NEW why \in SUBSET Literals, Enqueue(l, why)
    PROVE  TrailTyped' /\ NoneForgotten'
  <1>1. /\ trail \in Seq(Literals) /\ Len(trail) \in Nat /\ Var(l) \in Variables /\ DecisionLevel \in Int
        /\ reason \in [Variables -> SUBSET Literals] /\ order \in Seq(Variables) /\ LevelsTyped
    BY LiteralFacts DEF TrailTyped, LevelsTyped, DecisionLevel
  <1>2. /\ trail' = Append(trail, l) /\ trail_lim' = trail_lim /\ order' = order
        /\ level' = [level EXCEPT ![Var(l)] = DecisionLevel]
        /\ reason' = [reason EXCEPT ![Var(l)] = why]
    BY DEF Enqueue
  <1>3. trail' \in Seq(Literals) /\ Len(trail') = Len(trail) + 1 /\ ToSet(trail) \subseteq ToSet(trail')
    BY <1>1, <1>2, AppendedTrail
  <1>4. LevelsTyped'
    BY <1>1, <1>2, <1>3, LevelsStay
  <1>5. level' \in [Variables -> Int] /\ \E n \in Int : \A w \in Variables : level'[w] <= n
    BY <1>1, <1>2, BoundStays
  <1>6. reason' \in [Variables -> SUBSET Literals]
    BY <1>1, <1>2
  <1>7. TrailTyped'
    BY <1>1, <1>2, <1>3, <1>4, <1>5, <1>6, ProblemStays DEF TrailTyped
  <1>8. NoneForgotten'
    <2>1. \A v \in Variables : IsUndef(v)' => IsUndef(v)
      BY <1>3 DEF IsUndef, IsTrue, IsFalse, ToSet
    <2>2. QED
      BY <2>1, <1>2, ProblemStays DEF NoneForgotten
  <1>9. QED
    BY <1>7, <1>8

\* Of an assumption or a decision; what happens to the order is up to the caller.
LEMMA AssumeKeeps ==
    ASSUME problem \in Problems, problem' = problem, TrailTyped,
           NEW l \in Literals, Assume(l), order' \in Seq(Variables)
    PROVE  TrailTyped' /\ ToSet(trail) \subseteq ToSet(trail') /\ l \in ToSet(trail')
  <1>1. /\ trail \in Seq(Literals) /\ Len(trail) \in Nat /\ Var(l) \in Variables /\ DecisionLevel \in Nat
        /\ reason \in [Variables -> SUBSET Literals] /\ LevelsTyped /\ trail_lim \in Seq(Nat)
        /\ DecisionLevel = Len(trail_lim)
    BY LiteralFacts DEF TrailTyped, LevelsTyped, DecisionLevel
  <1>2. trail_lim' = Append(trail_lim, Len(trail))
    BY DEF Assume
  <1>3. /\ trail' \in Seq(Literals) /\ Len(trail) <= Len(trail') /\ Len(trail') \in Nat
        /\ ToSet(trail) \subseteq ToSet(trail') /\ l \in ToSet(trail')
    <2>1. CASE IsTrue(l)
      BY <1>1, <2>1 DEF Assume, IsTrue
    <2>2. CASE ~IsTrue(l)
      <3>1. trail' = Append(trail, l)
        BY <2>2 DEF Assume
      <3>2. QED
        BY <1>1, <3>1, AppendedTrail
    <2>3. QED
      BY <2>1, <2>2
  <1>4. level' \in [Variables -> Int] /\ \E n \in Int : \A w \in Variables : level'[w] <= n
    <2>1. CASE IsTrue(l)
      BY <2>1 DEF Assume, TrailTyped
    <2>2. CASE ~IsTrue(l)
      <3>1. level' = [level EXCEPT ![Var(l)] = DecisionLevel + 1] /\ DecisionLevel + 1 \in Int
        BY <1>1, <2>2 DEF Assume
      <3>2. QED
        BY <1>1, <3>1, BoundStays
    <2>3. QED
      BY <2>1, <2>2
  <1>5. reason' \in [Variables -> SUBSET Literals]
    <2>1. CASE IsTrue(l)
      BY <1>1, <2>1 DEF Assume
    <2>2. CASE ~IsTrue(l)
      <3>1. reason' = [reason EXCEPT ![Var(l)] = {}]
        BY <2>2 DEF Assume
      <3>2. QED
        BY <1>1, <3>1
    <2>3. QED
      BY <2>1, <2>2
  <1>6. LevelsTyped'
    <2> DEFINE d == Len(trail_lim)
    <2>1. /\ d \in Nat /\ trail_lim' \in Seq(Nat) /\ DOMAIN trail_lim = 1 .. d /\ DOMAIN trail_lim' = 1 .. d + 1
          /\ trail_lim'[d + 1] = Len(trail) /\ \A i \in 1 .. d : trail_lim'[i] = trail_lim[i]
      BY <1>1, <1>2
    <2> HIDE DEF d
    <2>2. \A i \in 1 .. d : trail_lim[i] \in Nat /\ trail_lim[i] <= Len(trail)
      <3>1. \A i \in DOMAIN trail_lim : trail_lim[i] \in Nat
        BY <1>1
      <3>2. QED
        BY <1>1, <2>1, <3>1 DEF LevelsTyped
    <2>3. \A i, j \in 1 .. d : i < j => trail_lim[i] <= trail_lim[j]
      BY <1>1, <2>1 DEF LevelsTyped
    <2>4. \A i \in 1 .. d + 1 : trail_lim'[i] <= Len(trail')
      <3>1. ASSUME NEW i \in 1 .. d + 1 PROVE trail_lim'[i] <= Len(trail')
        <4>1. CASE i = d + 1
          BY <1>3, <2>1, <4>1
        <4>2. CASE i # d + 1
          <5>1. i \in 1 .. d
            BY <2>1, <4>2
          <5>2. QED
            BY <1>1, <1>3, <2>1, <2>2, <5>1
        <4>3. QED
          BY <4>1, <4>2
      <3>2. QED
        BY <3>1
    <2>5. ASSUME NEW i \in 1 .. d + 1, NEW j \in 1 .. d + 1, i < j
          PROVE  trail_lim'[i] <= trail_lim'[j]
      <3>1. i \in 1 .. d
        BY <2>1, <2>5
      <3>2. CASE j = d + 1
        BY <2>1, <2>2, <3>1, <3>2
      <3>3. CASE j # d + 1
        <4>1. j \in 1 .. d
          BY <2>1, <3>3
        <4>2. trail_lim'[i] = trail_lim[i] /\ trail_lim'[j] = trail_lim[j]
          BY <2>1, <3>1, <4>1
        <4>3. QED
          BY <2>3, <2>5, <3>1, <4>1, <4>2
      <3>4. QED
        BY <3>2, <3>3
    <2>6. QED
      BY <2>1, <2>4, <2>5 DEF LevelsTyped
  <1>7. QED
    BY <1>3, <1>4, <1>5, <1>6, ProblemStays DEF TrailTyped

LEMMA CancelKeeps ==
    ASSUME problem \in Problems, problem' = problem, TrailTyped, NoneForgotten,
           NEW b \in Nat, CancelUntil(b)
    PROVE  TrailTyped' /\ NoneForgotten'
  <1>1. /\ trail' = Kept(b) /\ trail_lim' = KeptLevels(b) /\ reason' = KeptReasons(b)
        /\ order' = order \o Undone(b) /\ level' = level
    BY DEF CancelUntil
  <1>2. trail' \in Seq(Literals)
    BY <1>1, KeptIsPrefix
  <1>3. LevelsTyped'
    BY <1>1, KeptLevelsTyped DEF LevelsTyped
  <1>4. Undone(b) \in Seq(Variables) /\ order \in Seq(Variables)
    BY UndoneIsRest DEF TrailTyped
  <1>5. /\ order' \in Seq(Variables) /\ ToSet(order) \subseteq ToSet(order')
        /\ ToSet(Undone(b)) \subseteq ToSet(order')
    BY <1>1, <1>4, JoinedOrder
  <1>6. reason' \in [Variables -> SUBSET Literals]
    BY <1>1, KeptReasonsTyped
  <1>7. TrailTyped'
    BY <1>1, <1>2, <1>3, <1>5, <1>6, ProblemStays DEF TrailTyped
  <1>8. NoneForgotten'
    <2>1. ToSet(Kept(b)) \subseteq ToSet(trail')
      BY <1>1
    <2>2. \A v \in Variables : IsUndef(v) => v \in ToSet(order')
      BY <1>5 DEF NoneForgotten
    <2>3. QED
      BY <1>5, <2>1, <2>2, Recovered
  <1>9. QED
    BY <1>7, <1>8

LEMMA LearnKeeps ==
    ASSUME problem \in Problems, problem' = problem, TrailTyped, NoneForgotten, ClausesTyped, Learn
    PROVE  TrailTyped' /\ NoneForgotten' /\ ClausesTyped'
  <1>1. PICK confl \in ClauseDatabase :
          LET uip == FirstUIP(confl)
              learnt == Minimized(uip)
              b == BacktrackLevel(uip)
          IN \E l \in AtCurrentLevel(uip) :
                /\ trail' = Append(Kept(b), l)
                /\ trail_lim' = KeptLevels(b)
                /\ order' = order \o Undone(b)
                /\ IF learnt = {l}
                   THEN /\ level' = [level EXCEPT ![Var(l)] = 0]
                        /\ reason' = KeptReasons(b)
                        /\ UNCHANGED learnts
                   ELSE /\ level' = [level EXCEPT ![Var(l)] = b]
                        /\ reason' = [KeptReasons(b) EXCEPT ![Var(l)] = learnt]
                        /\ learnts' = learnts \cup {learnt}
    BY DEF Learn
  <1>2. confl \in SUBSET Literals
    BY DEF ClausesTyped, ClauseDatabase
  <1> DEFINE uip == FirstUIP(confl)
             learnt == Minimized(uip)
             b == BacktrackLevel(uip)
  <1>3. uip \in SUBSET Literals /\ learnt \in SUBSET Literals /\ b \in Nat
    BY <1>2, LearntTyped
  <1>4. PICK l \in AtCurrentLevel(uip) :
                /\ trail' = Append(Kept(b), l)
                /\ trail_lim' = KeptLevels(b)
                /\ order' = order \o Undone(b)
                /\ IF learnt = {l}
                   THEN /\ level' = [level EXCEPT ![Var(l)] = 0]
                        /\ reason' = KeptReasons(b)
                        /\ UNCHANGED learnts
                   ELSE /\ level' = [level EXCEPT ![Var(l)] = b]
                        /\ reason' = [KeptReasons(b) EXCEPT ![Var(l)] = learnt]
                        /\ learnts' = learnts \cup {learnt}
    BY <1>1
  <1> HIDE DEF uip, learnt, b
  <1>5. l \in Literals /\ Var(l) \in Variables
    BY <1>3, LiteralFacts DEF AtCurrentLevel
  <1>6. Kept(b) \in Seq(Literals) /\ Len(Kept(b)) \in Nat
    BY <1>3, KeptIsPrefix
  <1>7. /\ trail' \in Seq(Literals) /\ Len(trail') = Len(Kept(b)) + 1
        /\ ToSet(Kept(b)) \subseteq ToSet(trail')
    BY <1>4, <1>5, <1>6, AppendedTrail
  <1>8. LevelsTyped'
    <2>1. /\ KeptLevels(b) \in Seq(Nat)
          /\ \A i \in DOMAIN KeptLevels(b) : KeptLevels(b)[i] <= Len(Kept(b))
          /\ \A i, j \in DOMAIN KeptLevels(b) : i < j => KeptLevels(b)[i] <= KeptLevels(b)[j]
      BY <1>3, KeptLevelsTyped
    <2>2. \A i \in DOMAIN KeptLevels(b) : KeptLevels(b)[i] \in Nat
      BY <2>1
    <2>3. \A i \in DOMAIN KeptLevels(b) : KeptLevels(b)[i] <= Len(trail')
      BY <1>6, <1>7, <2>1, <2>2
    <2>4. QED
      BY <1>4, <2>1, <2>3 DEF LevelsTyped
  <1>9. level' \in [Variables -> Int] /\ \E n \in Int : \A w \in Variables : level'[w] <= n
    <2>1. PICK x \in Int : level' = [level EXCEPT ![Var(l)] = x]
      BY <1>3, <1>4
    <2>2. QED
      BY <1>5, <2>1, BoundStays
  <1>10. reason' \in [Variables -> SUBSET Literals]
    BY <1>3, <1>4, <1>5, KeptReasonsTyped
  <1>11. Undone(b) \in Seq(Variables) /\ order \in Seq(Variables)
    BY <1>3, UndoneIsRest DEF TrailTyped
  <1>12. /\ order' \in Seq(Variables) /\ ToSet(order) \subseteq ToSet(order')
         /\ ToSet(Undone(b)) \subseteq ToSet(order')
    BY <1>4, <1>11, JoinedOrder
  <1>13. TrailTyped'
    BY <1>7, <1>8, <1>9, <1>10, <1>12, ProblemStays DEF TrailTyped
  <1>14. NoneForgotten'
    <2>1. \A v \in Variables : IsUndef(v) => v \in ToSet(order')
      BY <1>12 DEF NoneForgotten
    <2>2. QED
      BY <1>3, <1>7, <1>12, <2>1, Recovered
  <1>15. ClausesTyped'
    <2>1. clauses' = clauses
      BY DEF Learn
    <2>2. learnts' \subseteq learnts \cup {learnt}
      BY <1>4
    <2>3. QED
      BY <1>3, <2>1, <2>2, ProblemStays DEF ClausesTyped
  <1>16. QED
    BY <1>13, <1>14, <1>15

LEMMA DecideKeeps ==
    ASSUME problem \in Problems, problem' = problem, TrailTyped, NoneForgotten, Decide
    PROVE  TrailTyped' /\ NoneForgotten'
  <1>1. PICK k \in Selectable :
          /\ \A j \in Selectable : j <= k
          /\ Assume(Decision(order[k]))
          /\ order' = SubSeq(order, 1, k - 1)
    BY DEF Decide
  <1>2. /\ order \in Seq(Variables) /\ Len(order) \in Nat /\ DOMAIN order = 1 .. Len(order)
        /\ k \in 1 .. Len(order)
    BY DEF TrailTyped, Selectable
  <1>3. order[k] \in Variables /\ Decision(order[k]) \in Literals
    BY <1>2, LiteralFacts DEF Decision
  <1>4. /\ order' \in Seq(Variables) /\ DOMAIN order' = 1 .. k - 1
        /\ \A i \in 1 .. k - 1 : order'[i] = order[i]
    BY <1>1, <1>2
  <1>5. TrailTyped' /\ ToSet(trail) \subseteq ToSet(trail') /\ -order[k] \in ToSet(trail')
    <2>1. Decision(order[k]) = -order[k]
      BY DEF Decision
    <2>2. QED
      BY <1>1, <1>3, <1>4, <2>1, AssumeKeeps
  <1>6. ASSUME NEW v \in Variables, v \notin ToSet(trail'), -v \notin ToSet(trail')
        PROVE  v \in ToSet(order')
    <2>1. IsUndef(v)
      BY <1>5, <1>6 DEF IsUndef, IsTrue, IsFalse
    <2>2. PICK i \in DOMAIN order : order[i] = v
      BY <2>1, ElementsOf DEF NoneForgotten
    <2>3. i \in Selectable
      BY <2>1, <2>2 DEF Selectable
    <2>4. i <= k /\ i # k
      BY <1>1, <1>5, <1>6, <2>2, <2>3
    <2>5. i \in 1 .. k - 1
      BY <1>2, <2>4
    <2>6. i \in DOMAIN order' /\ order'[i] = v
      BY <1>4, <2>2, <2>5
    <2>7. QED
      BY <2>6, ElementsOf
  <1>7. NoneForgotten'
    BY <1>6, ProblemStays DEF NoneForgotten, IsUndef, IsTrue, IsFalse, ToSet
  <1>8. QED
    BY <1>5, <1>7

LEMMA ModelFoundKeeps ==
    ASSUME problem \in Problems, problem' = problem, TrailTyped, NoneForgotten, ModelFound
    PROVE  /\ TrailTyped' /\ NoneForgotten'
           /\ \A v \in Variables : v \in ToSet(trail) \/ -v \in ToSet(trail)
  <1>1. /\ trail' = Kept(0) /\ trail_lim' = << >> /\ reason' = KeptReasons(0)
        /\ order' = Undone(0) /\ level' = level /\ Selectable = {}
    BY DEF ModelFound
  <1>2. LevelsTyped'
    BY <1>1 DEF LevelsTyped
  <1>3. trail' \in Seq(Literals) /\ order' \in Seq(Variables) /\ reason' \in [Variables -> SUBSET Literals]
    BY <1>1, KeptIsPrefix, UndoneIsRest, KeptReasonsTyped
  <1>4. TrailTyped'
    BY <1>1, <1>2, <1>3, ProblemStays DEF TrailTyped
  <1>5. ASSUME NEW v \in Variables PROVE ~IsUndef(v)
    <2>1. SUFFICES ASSUME IsUndef(v) PROVE FALSE
      OBVIOUS
    <2>2. PICK k \in DOMAIN order : order[k] = v
      BY <2>1, ElementsOf DEF NoneForgotten
    <2>3. k \in Selectable
      BY <2>1, <2>2 DEF Selectable
    <2>4. QED
      BY <1>1, <2>3
  <1>6. NoneForgotten'
    <2>1. ToSet(Kept(0)) \subseteq ToSet(trail') /\ ToSet(Undone(0)) \subseteq ToSet(order')
      BY <1>1
    <2>2. QED
      BY <1>5, <2>1, Recovered
  <1>7. QED
    BY <1>4, <1>5, <1>6 DEF IsUndef, IsTrue, IsFalse

(***************************************************************************)
(* The invariant of the decision order, and what it is for.                *)
(***************************************************************************)
LEMMA SolverInvInit == Init => SolverInv
  <1> SUFFICES ASSUME Init PROVE SolverInv
    OBVIOUS
  <1>1. problem \in Problems /\ added = 0 /\ clauses = {} /\ learnts = {}
    BY DEF Init
  <1>2. problem.preferences \in Seq(Variables) /\ ToSet(problem.preferences) = Variables
    BY <1>1, ProblemTyped
  <1>3. trail = << >> /\ trail_lim = << >> /\ order = problem.preferences
    BY DEF Init
  <1>4. level \in [Variables -> Int] /\ \E n \in Int : \A v \in Variables : level[v] <= n
    <2>1. level = [v \in Variables |-> -1]
      BY DEF Init
    <2>2. QED
      BY <2>1
  <1>5. reason \in [Variables -> SUBSET Literals]
    BY DEF Init
  <1>6. TrailTyped
    BY <1>2, <1>3, <1>4, <1>5 DEF TrailTyped, LevelsTyped
  <1>7. NoneForgotten
    BY <1>2, <1>3 DEF NoneForgotten
  <1>8. QED
    BY <1>1, <1>6, <1>7 DEF SolverInv, ClausesTyped

LEMMA HousekeepingTyped ==
    ASSUME problem' = problem, ClausesTyped, Housekeeping
    PROVE  ClausesTyped'
  <1>1. PICK due \in BOOLEAN :
          /\ clauses' = Simplified(clauses, due)
          /\ \E dropped \in SUBSET Droppable(Simplified(learnts, due)) :
                learnts' = Simplified(learnts, due) \ dropped
    BY DEF Housekeeping
  <1>2. clauses' \subseteq clauses /\ learnts' \subseteq learnts
    BY <1>1 DEF Simplified
  <1>3. QED
    BY <1>2, ProblemStays DEF ClausesTyped

LEMMA SolverInvNext == SolverInv /\ [Next]_solverVars => SolverInv'
  <1> SUFFICES ASSUME SolverInv, [Next]_solverVars PROVE SolverInv'
    OBVIOUS
  <1>1. problem \in Problems /\ added \in Nat /\ ClausesTyped /\ TrailTyped /\ NoneForgotten
    BY DEF SolverInv
  <1>2. problem' = problem
    BY DEF Next, solverVars, NewClause, Solve, Propagate, Contradiction, Learn,
           MakeAssumption, StartSearch, Restart, Decide, ModelFound
  <1>3. added' \in Nat
    BY <1>1 DEF Next, solverVars, NewClause, Solve, Propagate, Contradiction, Learn,
           MakeAssumption, StartSearch, Restart, Decide, ModelFound
  <1>4. RootLevel \in Nat
    BY <1>1, ProblemTyped
  <1>5. SUFFICES TrailTyped' /\ NoneForgotten' /\ ClausesTyped'
    BY <1>1, <1>2, <1>3 DEF SolverInv
  <1>6. ASSUME UNCHANGED <<clauses, learnts>> PROVE ClausesTyped'
    BY <1>1, <1>2, <1>6, ProblemStays DEF ClausesTyped
  <1>7. CASE NewClause
    <2> DEFINE ps == problem.clauses[added + 1]
               qs == {l \in ps : ~IsFalse(l)}
    <2>1. ps \in SUBSET Literals
      <3>1. added + 1 \in DOMAIN problem.clauses /\ problem.clauses \in Seq(SUBSET Literals)
        BY <1>1, <1>7, ProblemTyped DEF NewClause
      <3>2. QED
        BY <3>1
    <2>2. qs \in SUBSET Literals
      BY <2>1
    <2>3. clauses' \subseteq clauses \cup {qs} /\ learnts' = learnts
      BY <1>7 DEF NewClause
    <2>4. UNCHANGED trailVars \/ \E l \in qs : Enqueue(l, {})
      BY <1>7 DEF NewClause
    <2> HIDE DEF qs, ps
    <2>5. ClausesTyped'
      BY <1>1, <1>2, <2>2, <2>3, ProblemStays DEF ClausesTyped
    <2>6. TrailTyped' /\ NoneForgotten'
      <3>1. CASE UNCHANGED trailVars
        BY <1>1, <1>2, <3>1, TrailUnchanged
      <3>2. CASE \E l \in qs : Enqueue(l, {})
        BY <1>1, <1>2, <2>2, <3>2, EnqueueKeeps
      <3>3. QED
        BY <2>4, <3>1, <3>2
    <2>7. QED
      BY <2>5, <2>6
  <1>8. CASE Solve
    <2>1. ClausesTyped'
      BY <1>6, <1>8 DEF Solve
    <2>2. UNCHANGED trailVars \/ CancelUntil(0)
      BY <1>8 DEF Solve, Answer
    <2>3. QED
      BY <1>1, <1>2, <2>1, <2>2, TrailUnchanged, CancelKeeps
  <1>9. CASE Propagate
    <2>1. ClausesTyped'
      BY <1>6, <1>9 DEF Propagate
    <2>2. PICK c \in ClauseDatabase : \E l \in c : Enqueue(l, c)
      BY <1>9 DEF Propagate
    <2>3. c \in SUBSET Literals
      BY <1>1 DEF ClausesTyped, ClauseDatabase
    <2>4. TrailTyped' /\ NoneForgotten'
      BY <1>1, <1>2, <2>2, <2>3, EnqueueKeeps
    <2>5. QED
      BY <2>1, <2>4
  <1>10. CASE Contradiction
    <2>1. ClausesTyped' /\ CancelUntil(0)
      BY <1>6, <1>10 DEF Contradiction, Answer
    <2>2. QED
      BY <1>1, <1>2, <2>1, CancelKeeps
  <1>11. CASE Learn
    BY <1>1, <1>2, <1>11, LearnKeeps
  <1>12. CASE MakeAssumption
    <2> DEFINE p == problem.assumptions[DecisionLevel + 1]
    <2>1. p \in Literals
      <3>1. /\ DecisionLevel < Len(problem.assumptions) /\ problem.assumptions \in Seq(Literals)
            /\ DecisionLevel \in Nat
        BY <1>1, <1>12, ProblemTyped DEF MakeAssumption, RootLevel, DecisionLevel, TrailTyped, LevelsTyped
      <3>2. DecisionLevel + 1 \in DOMAIN problem.assumptions
        BY <3>1
      <3>3. QED
        BY <3>1, <3>2
    <2>2. clauses' \subseteq clauses /\ learnts' = learnts
      BY <1>12 DEF MakeAssumption, Simplified
    <2>3. ClausesTyped'
      BY <1>1, <1>2, <2>2, ProblemStays DEF ClausesTyped
    <2>4. CancelUntil(0) \/ (Assume(p) /\ order' = order)
      BY <1>12 DEF MakeAssumption, Answer
    <2> HIDE DEF p
    <2>5. CASE CancelUntil(0)
      BY <1>1, <1>2, <2>3, <2>5, CancelKeeps
    <2>6. CASE Assume(p) /\ order' = order
      <3>1. order' \in Seq(Variables)
        BY <1>1, <2>6 DEF TrailTyped
      <3>2. TrailTyped' /\ ToSet(trail) \subseteq ToSet(trail')
        BY <1>1, <1>2, <2>1, <2>6, <3>1, AssumeKeeps
      <3>3. \A v \in Variables : IsUndef(v)' => IsUndef(v)
        BY <3>2 DEF IsUndef, IsTrue, IsFalse, ToSet
      <3>4. NoneForgotten'
        BY <1>1, <1>2, <2>6, <3>3, ProblemStays DEF NoneForgotten
      <3>5. QED
        BY <2>3, <3>2, <3>4
    <2>7. QED
      BY <2>4, <2>5, <2>6
  <1>13. CASE StartSearch
    BY <1>1, <1>2, <1>6, <1>13, TrailUnchanged DEF StartSearch
  <1>14. CASE Restart
    <2>1. ClausesTyped' /\ CancelUntil(RootLevel)
      BY <1>6, <1>14 DEF Restart
    <2>2. QED
      BY <1>1, <1>2, <1>4, <2>1, CancelKeeps
  <1>15. CASE Decide
    BY <1>1, <1>2, <1>15, DecideKeeps, HousekeepingTyped DEF Decide
  <1>16. CASE ModelFound
    BY <1>1, <1>2, <1>16, ModelFoundKeeps, HousekeepingTyped DEF ModelFound
  <1>17. CASE UNCHANGED solverVars
    BY <1>1, <1>2, <1>6, <1>17, TrailUnchanged DEF solverVars
  <1>18. QED
    BY <1>7, <1>8, <1>9, <1>10, <1>11, <1>12, <1>13, <1>14, <1>15, <1>16, <1>17 DEF Next

LEMMA SolverInvHolds == Spec => []SolverInv
  BY SolverInvInit, SolverInvNext, PTL DEF Spec

\* Whatever the problem, a variable without a value is in the decision order
\* (VarOrder.h:23-39): none is lost between the decisions that take variables off,
\* the backjumps that put them back, and the restarts.
THEOREM NothingForgotten == Spec => []NoneForgotten
  <1>1. SolverInv => NoneForgotten
    BY DEF SolverInv
  <1>2. QED
    BY <1>1, SolverInvHolds, PTL

(***************************************************************************)
(* A model satisfies what was asked.  What a level has fixed stays fixed   *)
(* as long as the level is open, so the clauses that were simplified away  *)
(* and the assumptions are still true when the search ends.                *)
(***************************************************************************)
\* The model gives every variable a value, and has a literal of every clause and
\* every assumption.
ModelSolves ==
    verdict = "sat" =>
        /\ \A v \in Variables : v \in model \/ -v \in model
        /\ \A i \in DOMAIN problem.clauses : problem.clauses[i] \cap model # {}
        /\ ToSet(problem.assumptions) \subseteq model

\* A clause of the problem is a tautology, true at level 0, or follows from a
\* clause that is kept.
Accounted(ps) ==
    \/ \E l \in ps : -l \in ps
    \/ ps \cap ToSet(Kept(0)) # {}
    \/ \E c \in clauses : c \subseteq ps

ClausesAccounted == ok => \A i \in 1 .. added : Accounted(problem.clauses[i])

AssumptionsMade ==
    \A i \in 1 .. RootLevel :
        i <= DecisionLevel => problem.assumptions[i] \in ToSet(Kept(i))

SearchInv ==
    /\ phase = "add" => trail_lim = << >> /\ added <= Len(problem.clauses)
    /\ phase \in {"assume", "search"} =>
          ok /\ added = Len(problem.clauses) /\ AssumptionsMade
    /\ phase = "search" => DecisionLevel >= RootLevel
    /\ phase \in {"add", "assume", "search"} => ClausesAccounted /\ verdict = "none"
    /\ ModelSolves

\* The literals fixed at level i or below stay where they are if the trail and its
\* levels agree with the old ones up to there.
LEMMA FixedStays ==
    ASSUME TrailTyped, TrailTyped', NEW i \in Nat,
           Len(Kept(i)) <= Len(trail'),
           \A j \in 1 .. Len(Kept(i)) : trail'[j] = trail[j],
           i < Len(trail_lim') => trail_lim'[i + 1] >= Len(Kept(i))
    PROVE  ToSet(Kept(i)) \subseteq ToSet(Kept(i)')
  <1> DEFINE m == Len(Kept(i))
             K == Kept(i)'
             t == trail'
             lim == trail_lim'
  <1>1. /\ Kept(i) \in Seq(Literals) /\ m \in Nat
        /\ \A j \in 1 .. m : Kept(i)[j] = trail[j]
    <2>1. Kept(i) \in Seq(Literals) /\ \A j \in 1 .. m : Kept(i)[j] = trail[j]
      BY KeptIsPrefix
    <2>2. QED
      BY <2>1
  <1>2. t \in Seq(Literals') /\ lim \in Seq(Nat) /\ \A j \in DOMAIN lim : lim[j] <= Len(t)
    BY DEF TrailTyped, LevelsTyped
  <1>3. K = IF i < Len(lim) THEN SubSeq(t, 1, lim[i + 1]) ELSE t
    BY DEF Kept, DecisionLevel
  <1>4. Len(t) \in Nat /\ Len(lim) \in Nat /\ DOMAIN lim = 1 .. Len(lim)
    BY <1>2
  <1>5. m <= Len(t) /\ \A j \in 1 .. m : t[j] = trail[j]
    OBVIOUS
  <1>6. i < Len(lim) => lim[i + 1] >= m
    OBVIOUS
  <1> HIDE DEF m, K, t, lim
  <1>7. ASSUME NEW j \in 1 .. m PROVE j \in DOMAIN K /\ K[j] = t[j]
    <2>1. CASE i < Len(lim)
      <3>1. i + 1 \in DOMAIN lim
        BY <1>4, <2>1
      <3>2. lim[i + 1] \in Nat /\ lim[i + 1] <= Len(t) /\ lim[i + 1] >= m
        BY <1>2, <1>6, <2>1, <3>1
      <3>3. K = SubSeq(t, 1, lim[i + 1])
        BY <1>3, <2>1
      <3>4. DOMAIN K = 1 .. lim[i + 1] /\ \A k \in 1 .. lim[i + 1] : K[k] = t[k]
        BY <1>2, <1>4, <3>2, <3>3
      <3>5. j \in 1 .. lim[i + 1]
        BY <1>1, <3>2
      <3>6. QED
        BY <3>4, <3>5
    <2>2. CASE ~(i < Len(lim))
      <3>1. K = t
        BY <1>3, <2>2
      <3>2. j \in 1 .. Len(t)
        BY <1>1, <1>4, <1>5
      <3>3. QED
        BY <1>2, <3>1, <3>2
    <2>3. QED
      BY <2>1, <2>2
  <1>8. ASSUME NEW x \in ToSet(Kept(i)) PROVE x \in ToSet(K)
    <2>1. PICK j \in 1 .. m : Kept(i)[j] = x
      BY <1>1, ElementsOf DEF m
    <2>2. j \in DOMAIN K /\ K[j] = x
      BY <1>1, <1>5, <1>7, <2>1
    <2>3. QED
      BY <2>2, ElementsOf
  <1>9. QED
    BY <1>8 DEF K, ToSet

\* A level's literals are among those of the levels above it.
LEMMA KeptGrows ==
    ASSUME TrailTyped, NEW i \in Nat, NEW b \in Nat, i <= b
    PROVE  Len(Kept(i)) <= Len(Kept(b))
  <1>1. DecisionLevel = Len(trail_lim) /\ DecisionLevel \in Nat /\ Len(trail) \in Nat
    BY DEF TrailTyped, LevelsTyped, DecisionLevel
  <1>2. CASE b < DecisionLevel
    <2>1. i < DecisionLevel
      BY <1>1, <1>2
    <2>2. Len(Kept(i)) = trail_lim[i + 1] /\ Len(Kept(b)) = trail_lim[b + 1]
      BY <1>2, <2>1, KeptIsPrefix
    <2>3. i + 1 \in 1 .. DecisionLevel /\ b + 1 \in 1 .. DecisionLevel
      BY <1>1, <1>2, <2>1
    <2>4. i + 1 \in DOMAIN trail_lim /\ b + 1 \in DOMAIN trail_lim
      BY <1>1, <2>3 DEF TrailTyped, LevelsTyped
    <2>5. CASE i = b
      <3>1. trail_lim[i + 1] \in Nat
        BY <2>4 DEF TrailTyped, LevelsTyped
      <3>2. QED
        BY <2>2, <2>5, <3>1
    <2>6. CASE i # b
      <3>1. i + 1 < b + 1
        BY <2>6
      <3>2. QED
        BY <2>2, <2>4, <3>1 DEF TrailTyped, LevelsTyped
    <2>7. QED
      BY <2>5, <2>6
  <1>3. CASE ~(b < DecisionLevel)
    <2>1. Kept(b) = trail
      BY <1>3 DEF Kept
    <2>2. QED
      BY <2>1, KeptIsPrefix
  <1>4. QED
    BY <1>2, <1>3

LEMMA CancelFixes ==
    ASSUME TrailTyped, TrailTyped', NEW b \in Nat, NEW i \in Nat, i <= b,
           trail_lim' = KeptLevels(b), Len(Kept(b)) <= Len(trail'),
           \A j \in 1 .. Len(Kept(b)) : trail'[j] = Kept(b)[j]
    PROVE  ToSet(Kept(i)) \subseteq ToSet(Kept(i)')
  <1>1. Len(Kept(i)) <= Len(Kept(b))
    BY KeptGrows
  <1>2. /\ Len(Kept(i)) \in Nat /\ Len(Kept(b)) \in Nat /\ Len(trail') \in Nat
        /\ \A j \in 1 .. Len(Kept(b)) : Kept(b)[j] = trail[j]
    <2>1. Kept(i) \in Seq(Literals) /\ Kept(b) \in Seq(Literals)
      BY KeptIsPrefix
    <2>2. trail' \in Seq(Literals')
      BY DEF TrailTyped
    <2>3. \A j \in 1 .. Len(Kept(b)) : Kept(b)[j] = trail[j]
      BY KeptIsPrefix
    <2>4. QED
      BY <2>1, <2>2, <2>3
  <1>3. Len(Kept(i)) <= Len(trail')
    BY <1>1, <1>2
  <1>4. \A j \in 1 .. Len(Kept(i)) : trail'[j] = trail[j]
    BY <1>1, <1>2
  <1>5. ASSUME i < Len(trail_lim') PROVE trail_lim'[i + 1] >= Len(Kept(i))
    <2> DEFINE n == IF b < DecisionLevel THEN b ELSE DecisionLevel
    <2>1. trail_lim \in Seq(Nat) /\ DecisionLevel = Len(trail_lim) /\ DecisionLevel \in Nat
      BY DEF TrailTyped, LevelsTyped, DecisionLevel
    <2>2. n \in Nat /\ n <= DecisionLevel
      BY <2>1
    <2>3. trail_lim' = SubSeq(trail_lim, 1, n)
      BY DEF KeptLevels
    <2> HIDE DEF n
    <2>4. Len(trail_lim') = n /\ \A j \in 1 .. n : trail_lim'[j] = trail_lim[j]
      BY <2>1, <2>2, <2>3
    <2>5. i < DecisionLevel /\ i + 1 \in 1 .. n
      BY <1>5, <2>1, <2>2, <2>4
    <2>6. trail_lim'[i + 1] = Len(Kept(i))
      BY <2>4, <2>5, KeptIsPrefix
    <2>7. QED
      BY <1>2, <2>6
  <1>6. QED
    BY <1>3, <1>4, <1>5, FixedStays

LEMMA EnqueueFixes ==
    ASSUME problem \in Problems, TrailTyped, TrailTyped', NEW i \in Nat, trail_lim' = trail_lim,
           trail' = trail \/ \E l \in Literals : trail' = Append(trail, l)
    PROVE  ToSet(Kept(i)) \subseteq ToSet(Kept(i)')
  <1>1. trail \in Seq(Literals) /\ Len(trail) \in Nat /\ DecisionLevel = Len(trail_lim)
    BY DEF TrailTyped, DecisionLevel
  <1>2. Len(trail) <= Len(trail') /\ \A j \in 1 .. Len(trail) : trail'[j] = trail[j]
    BY <1>1
  <1>3. Len(Kept(i)) <= Len(trail) /\ Len(Kept(i)) \in Nat
    <2>1. Kept(i) \in Seq(Literals) /\ Len(Kept(i)) <= Len(trail)
      BY KeptIsPrefix
    <2>2. QED
      BY <2>1
  <1>4. Len(trail') \in Nat
    BY <1>1
  <1>5. Len(Kept(i)) <= Len(trail') /\ \A j \in 1 .. Len(Kept(i)) : trail'[j] = trail[j]
    BY <1>1, <1>2, <1>3, <1>4
  <1>6. ASSUME i < Len(trail_lim') PROVE trail_lim'[i + 1] >= Len(Kept(i))
    <2>1. Len(Kept(i)) = trail_lim[i + 1]
      BY <1>1, <1>6, KeptIsPrefix
    <2>2. QED
      BY <1>3, <2>1
  <1>7. QED
    BY <1>5, <1>6, FixedStays

LEMMA AssumeFixes ==
    ASSUME problem \in Problems, TrailTyped, TrailTyped', NEW i \in Nat, NEW l \in Literals, Assume(l)
    PROVE  /\ ToSet(Kept(i)) \subseteq ToSet(Kept(i)')
           /\ Len(trail_lim') = DecisionLevel + 1
           /\ i = DecisionLevel + 1 => l \in ToSet(Kept(i)')
  <1>1. /\ trail \in Seq(Literals) /\ Len(trail) \in Nat /\ DecisionLevel = Len(trail_lim)
        /\ DecisionLevel \in Nat /\ trail_lim \in Seq(Nat)
    BY DEF TrailTyped, LevelsTyped, DecisionLevel
  <1>2. trail_lim' = Append(trail_lim, Len(trail))
    BY DEF Assume
  <1>3. (trail' = trail /\ l \in ToSet(trail)) \/ trail' = Append(trail, l)
    BY DEF Assume, IsTrue
  <1>4. Len(trail) <= Len(trail') /\ Len(trail') \in Nat /\ \A j \in 1 .. Len(trail) : trail'[j] = trail[j]
    BY <1>1, <1>3
  <1>5. Len(Kept(i)) <= Len(trail) /\ Len(Kept(i)) \in Nat
    <2>1. Kept(i) \in Seq(Literals) /\ Len(Kept(i)) <= Len(trail)
      BY KeptIsPrefix
    <2>2. QED
      BY <2>1
  <1>6. Len(Kept(i)) <= Len(trail') /\ \A j \in 1 .. Len(Kept(i)) : trail'[j] = trail[j]
    BY <1>1, <1>4, <1>5
  <1>7. Len(trail_lim') = DecisionLevel + 1
    BY <1>1, <1>2
  <1>8. ASSUME i < Len(trail_lim') PROVE trail_lim'[i + 1] >= Len(Kept(i))
    <2>1. CASE i < DecisionLevel
      <3>1. Len(Kept(i)) = trail_lim[i + 1]
        BY <2>1, KeptIsPrefix
      <3>2. i + 1 \in 1 .. Len(trail_lim)
        BY <1>1, <2>1
      <3>3. trail_lim'[i + 1] = trail_lim[i + 1]
        BY <1>1, <1>2, <3>2
      <3>4. QED
        BY <1>5, <3>1, <3>3
    <2>2. CASE ~(i < DecisionLevel)
      <3>1. i + 1 = Len(trail_lim) + 1
        BY <1>1, <1>7, <1>8, <2>2
      <3>2. trail_lim'[i + 1] = Len(trail)
        BY <1>1, <1>2, <3>1
      <3>3. QED
        BY <1>1, <1>5, <3>2
    <2>3. QED
      BY <2>1, <2>2
  <1>9. ToSet(Kept(i)) \subseteq ToSet(Kept(i)')
    BY <1>6, <1>8, FixedStays
  <1>10. ASSUME i = DecisionLevel + 1 PROVE l \in ToSet(Kept(i)')
    <2>1. ~(i < Len(trail_lim'))
      BY <1>1, <1>7, <1>10
    <2>2. Kept(i)' = trail'
      BY <2>1 DEF Kept, DecisionLevel
    <2>3. l \in ToSet(trail')
      BY <1>1, <1>3, AppendedTrail
    <2>4. QED
      BY <2>2, <2>3 DEF ToSet
  <1>11. QED
    BY <1>7, <1>9, <1>10

\* A clause stays accounted for when clauses are simplified, or others are added.
LEMMA AccountedStays ==
    ASSUME NEW due \in BOOLEAN, Simplified(clauses, due) \subseteq clauses',
           ToSet(Kept(0)) \subseteq ToSet(Kept(0)'), NEW ps, Accounted(ps)
    PROVE  Accounted(ps)'
  <1>1. CASE \E l \in ps : -l \in ps
    BY <1>1 DEF Accounted
  <1>2. CASE ps \cap ToSet(Kept(0)) # {}
    BY <1>2 DEF Accounted, ToSet
  <1>3. CASE \E c \in clauses : c \subseteq ps
    <2>1. PICK c \in clauses : c \subseteq ps
      BY <1>3
    <2>2. CASE c \in Simplified(clauses, due)
      BY <2>1, <2>2 DEF Accounted
    <2>3. CASE c \notin Simplified(clauses, due)
      <3>1. DecisionLevel = 0 /\ Satisfied(c)
        BY <2>1, <2>3 DEF Simplified
      <3>2. PICK l \in c : l \in ToSet(trail)
        BY <3>1 DEF Satisfied, IsTrue
      <3>3. Kept(0) = trail
        BY <3>1 DEF Kept
      <3>4. l \in ps /\ l \in ToSet(Kept(0)')
        BY <2>1, <3>2, <3>3
      <3>5. QED
        BY <3>4 DEF Accounted, ToSet
    <2>4. QED
      BY <2>2, <2>3
  <1>4. QED
    BY <1>1, <1>2, <1>3 DEF Accounted

LEMMA StillAccounted ==
    ASSUME problem' = problem, added' = added, ok' = ok, ClausesAccounted,
           NEW due \in BOOLEAN, Simplified(clauses, due) \subseteq clauses',
           ToSet(Kept(0)) \subseteq ToSet(Kept(0)')
    PROVE  ClausesAccounted'
  <1>1. \A ps : Accounted(ps) => Accounted(ps)'
    BY AccountedStays
  <1>2. QED
    BY <1>1 DEF ClausesAccounted

LEMMA NewClauseAccounted ==
    ASSUME SolverInv, SolverInv', ClausesAccounted, trail_lim = << >>, NewClause
    PROVE  ClausesAccounted' /\ trail_lim' = << >>
  <1>0. PICK ps : ps = problem.clauses[added + 1]
    OBVIOUS
  <1> DEFINE qs == {l \in ps : ~IsFalse(l)}
             superfluous == Satisfied(ps) \/ \E l \in ps : -l \in ps
  <1>1. /\ problem \in Problems /\ added \in Nat /\ TrailTyped /\ TrailTyped'
        /\ added < Len(problem.clauses) /\ added' = added + 1 /\ problem' = problem
    BY DEF SolverInv, NewClause
  <1>2. ps \in SUBSET Literals
    <2>1. added + 1 \in DOMAIN problem.clauses /\ problem.clauses \in Seq(SUBSET Literals)
      BY <1>1, ProblemTyped
    <2>2. QED
      BY <1>0, <2>1
  <1>3. IsFiniteSet(qs) /\ (qs # {} => Cardinality(qs) = 1 \/ Cardinality(qs) > 1)
    <2>1. problem.vars \in Nat
      BY <1>1, ProblemTyped
    <2>2. IsFiniteSet(-problem.vars .. problem.vars)
      BY <2>1, FS_Interval
    <2>3. qs \subseteq -problem.vars .. problem.vars
      BY <1>2 DEF Literals
    <2>4. IsFiniteSet(qs)
      BY <2>2, <2>3, FS_Subset
    <2>5. Cardinality(qs) \in Nat /\ (Cardinality(qs) = 0 <=> qs = {})
      BY <2>4, FS_CardinalityType, FS_EmptySet
    <2>6. QED
      BY <2>4, <2>5
  <1>4. /\ ok' = (ok /\ (superfluous \/ qs # {}))
        /\ IF ok /\ ~superfluous /\ Cardinality(qs) > 1
           THEN clauses' = clauses \cup {qs} ELSE UNCHANGED clauses
        /\ IF ok /\ ~superfluous /\ Cardinality(qs) = 1
           THEN \E l \in qs : Enqueue(l, {}) ELSE UNCHANGED trailVars
    BY <1>0 DEF NewClause
  <1>5. qs \subseteq ps /\ qs \subseteq Literals
    BY <1>2
  <1> HIDE DEF qs
  <1>6. trail_lim' = << >> /\ (trail' = trail \/ \E l \in Literals : trail' = Append(trail, l))
    BY <1>4, <1>5 DEF Enqueue, trailVars
  <1>7. Kept(0) = trail /\ Kept(0)' = trail'
    BY <1>6 DEF Kept, DecisionLevel
  <1>8. ToSet(Kept(0)) \subseteq ToSet(Kept(0)')
    BY <1>1, <1>6, EnqueueFixes
  <1>9. Simplified(clauses, FALSE) \subseteq clauses'
    BY <1>4 DEF Simplified
  <1>10. \A c : Accounted(c) => Accounted(c)'
    BY <1>8, <1>9, AccountedStays
  <1>11. ASSUME ok' PROVE Accounted(ps)'
    <2>1. ok /\ (superfluous \/ qs # {})
      BY <1>4, <1>11
    <2>2. CASE superfluous
      <3>1. Accounted(ps)
        BY <1>7, <2>2 DEF Accounted, Satisfied, IsTrue
      <3>2. QED
        BY <1>1, <1>10, <3>1
    <2>3. CASE ~superfluous /\ Cardinality(qs) > 1
      <3>1. qs \in clauses'
        BY <1>4, <2>1, <2>3
      <3>2. QED
        BY <1>1, <1>5, <3>1 DEF Accounted
    <2>4. CASE ~superfluous /\ Cardinality(qs) = 1
      <3>1. PICK l \in qs : trail' = Append(trail, l)
        <4>1. ~(Cardinality(qs) > 1)
          BY <2>4
        <4>2. \E l \in qs : Enqueue(l, {})
          BY <1>4, <2>1, <2>4
        <4>3. QED
          BY <4>2 DEF Enqueue
      <3>2. l \in ToSet(trail')
        BY <1>1, <1>5, <3>1, AppendedTrail DEF TrailTyped
      <3>3. l \in ps /\ l \in ToSet(Kept(0))'
        BY <1>5, <1>7, <3>2 DEF ToSet
      <3>4. (ps \cap ToSet(Kept(0)) # {})'
        BY <1>1, <3>3
      <3>5. QED
        BY <3>4 DEF Accounted
    <2>5. QED
      BY <1>3, <2>1, <2>2, <2>3, <2>4
  <1>12. ClausesAccounted'
    <2> SUFFICES ASSUME ok', NEW i \in 1 .. added + 1
                 PROVE  Accounted(problem.clauses[i])'
      BY <1>1 DEF ClausesAccounted
    <2>1. ok
      BY <1>4
    <2>2. CASE i = added + 1
      BY <1>0, <1>1, <1>11, <2>2
    <2>3. CASE i # added + 1
      <3>1. i \in 1 .. added
        BY <1>1, <2>3
      <3>2. Accounted(problem.clauses[i])
        BY <2>1, <3>1 DEF ClausesAccounted
      <3>3. QED
        BY <1>1, <1>10, <3>2
    <2>4. QED
      BY <2>2, <2>3
  <1>13. QED
    BY <1>6, <1>12

LEMMA CancelledLevels ==
    ASSUME TrailTyped, NEW b \in Nat
    PROVE  Len(KeptLevels(b)) = IF b < DecisionLevel THEN b ELSE DecisionLevel
  BY DEF TrailTyped, LevelsTyped, DecisionLevel, KeptLevels

\* Going back to level b, which is not below the assumptions, leaves them made.
LEMMA AssumptionsStay ==
    ASSUME problem \in Problems, problem' = problem, TrailTyped, TrailTyped', AssumptionsMade,
           NEW b \in Nat, b >= RootLevel, DecisionLevel >= RootLevel,
           trail_lim' = KeptLevels(b), Len(Kept(b)) <= Len(trail'),
           \A j \in 1 .. Len(Kept(b)) : trail'[j] = Kept(b)[j]
    PROVE  /\ AssumptionsMade' /\ DecisionLevel' >= RootLevel'
           /\ ToSet(Kept(0)) \subseteq ToSet(Kept(0)')
  <1>1. RootLevel \in Nat /\ RootLevel' = RootLevel
    BY ProblemTyped DEF RootLevel
  <1>2. \A i \in Nat : i <= b => ToSet(Kept(i)) \subseteq ToSet(Kept(i)')
    BY CancelFixes
  <1>3. ASSUME NEW i \in 1 .. RootLevel PROVE problem'.assumptions[i] \in ToSet(Kept(i)')
    <2>1. i \in Nat /\ i <= b /\ i <= DecisionLevel
      BY <1>1 DEF TrailTyped, LevelsTyped, DecisionLevel
    <2>2. QED
      BY <1>2, <2>1 DEF AssumptionsMade
  <1>4. AssumptionsMade'
    BY <1>1, <1>3 DEF AssumptionsMade, ToSet
  <1>5. DecisionLevel' >= RootLevel'
    <2>1. DecisionLevel' = Len(KeptLevels(b)) /\ DecisionLevel \in Nat
      BY DEF DecisionLevel, TrailTyped, LevelsTyped
    <2>2. QED
      BY <1>1, <2>1, CancelledLevels
  <1>6. 0 \in Nat /\ 0 <= b
    OBVIOUS
  <1>7. QED
    BY <1>2, <1>4, <1>5, <1>6

LEMMA SearchInvInit == Init => SearchInv
  <1> SUFFICES ASSUME Init PROVE SearchInv
    OBVIOUS
  <1>1. problem \in Problems /\ added = 0 /\ phase = "add" /\ verdict = "none" /\ trail_lim = << >>
    BY DEF Init
  <1>2. problem.clauses \in Seq(SUBSET Literals)
    BY <1>1, ProblemTyped
  <1>3. added <= Len(problem.clauses)
    BY <1>1, <1>2
  <1>4. ClausesAccounted
    BY <1>1 DEF ClausesAccounted
  <1>5. QED
    BY <1>1, <1>3, <1>4 DEF SearchInv, ModelSolves

\* All that is assigned when the search ends.
LEMMA ModelFoundSolves ==
    ASSUME SolverInv, SearchInv, ModelFound
    PROVE  ModelSolves'
  <1>1. /\ problem \in Problems /\ problem' = problem /\ TrailTyped /\ NoneForgotten /\ ClausesTyped
        /\ phase = "search" /\ Quiescent /\ model' = ToSet(trail)
    BY DEF SolverInv, ModelFound
  <1>2. /\ ok /\ added = Len(problem.clauses) /\ AssumptionsMade /\ DecisionLevel >= RootLevel
        /\ ClausesAccounted
    BY <1>1 DEF SearchInv
  <1>3. \A v \in Variables : v \in ToSet(trail) \/ -v \in ToSet(trail)
    BY <1>1, ModelFoundKeeps
  <1>4. ASSUME NEW l \in Literals PROVE l \in ToSet(trail) \/ -l \in ToSet(trail)
    <2>1. l \in Int /\ Var(l) \in Variables /\ Var(l) \in Int /\ (Var(l) = l \/ Var(l) = -l)
      BY <1>1, LiteralFacts, ProblemTyped DEF Var, Literals, Variables
    <2>2. Var(l) = l \/ (Var(l) = -l /\ -Var(l) = l)
      BY <2>1
    <2>3. QED
      BY <1>3, <2>1, <2>2
  <1>5. \A i \in Nat : ToSet(Kept(i)) \subseteq ToSet(trail)
    BY <1>1, UndoneIsRest
  <1>6. ASSUME NEW ps \in SUBSET Literals, Accounted(ps)
        PROVE  ps \cap ToSet(trail) # {}
    <2>1. CASE \E l \in ps : -l \in ps
      BY <1>4, <2>1
    <2>2. CASE ps \cap ToSet(Kept(0)) # {}
      BY <1>5, <2>2
    <2>3. CASE \E c \in clauses : c \subseteq ps
      <3>1. PICK c \in clauses : c \subseteq ps
        BY <2>3
      <3>2. PICK l \in c : -l \notin ToSet(trail)
        BY <1>1, <3>1 DEF Quiescent, ClauseDatabase, Falsified, IsFalse
      <3>3. QED
        BY <1>4, <3>1, <3>2
    <2>4. QED
      BY <1>6, <2>1, <2>2, <2>3 DEF Accounted
  <1>7. ASSUME NEW i \in DOMAIN problem.clauses
        PROVE  problem.clauses[i] \cap ToSet(trail) # {}
    <2>1. problem.clauses \in Seq(SUBSET Literals)
      BY <1>1, ProblemTyped
    <2>2. problem.clauses[i] \in SUBSET Literals /\ i \in 1 .. added
      BY <1>2, <2>1
    <2>3. Accounted(problem.clauses[i])
      BY <1>2, <2>2 DEF ClausesAccounted
    <2>4. QED
      BY <1>6, <2>2, <2>3
  <1>8. ToSet(problem.assumptions) \subseteq ToSet(trail)
    <2>1. ASSUME NEW l \in ToSet(problem.assumptions) PROVE l \in ToSet(trail)
      <3>1. problem.assumptions \in Seq(Literals) /\ RootLevel \in Nat /\ DecisionLevel \in Nat
        BY <1>1, ProblemTyped DEF TrailTyped, LevelsTyped, DecisionLevel
      <3>2. PICK i \in DOMAIN problem.assumptions : problem.assumptions[i] = l
        BY ElementsOf
      <3>3. i \in 1 .. RootLevel
        BY <3>1, <3>2 DEF RootLevel
      <3>4. i \in Nat /\ i <= DecisionLevel
        BY <1>2, <3>1, <3>3
      <3>5. l \in ToSet(Kept(i))
        BY <1>2, <3>2, <3>3, <3>4 DEF AssumptionsMade
      <3>6. QED
        BY <1>5, <3>4, <3>5
    <2>2. QED
      BY <2>1
  <1>9. QED
    BY <1>1, <1>3, <1>7, <1>8, ProblemStays DEF ModelSolves

LEMMA SearchInvNext == SolverInv /\ SolverInv' /\ SearchInv /\ [Next]_solverVars => SearchInv'
  <1> SUFFICES ASSUME SolverInv, SolverInv', SearchInv, [Next]_solverVars PROVE SearchInv'
    OBVIOUS
  <1>1. /\ problem \in Problems /\ added \in Nat /\ TrailTyped /\ TrailTyped' /\ ClausesTyped /\ NoneForgotten
    BY DEF SolverInv
  <1>2. problem' = problem
    BY DEF Next, solverVars, NewClause, Solve, Propagate, Contradiction, Learn,
           MakeAssumption, StartSearch, Restart, Decide, ModelFound
  <1>3. RootLevel \in Nat /\ RootLevel' = RootLevel /\ DecisionLevel \in Nat /\ DecisionLevel = Len(trail_lim)
    BY <1>1, <1>2, ProblemTyped DEF RootLevel, DecisionLevel, TrailTyped, LevelsTyped
  <1>4. ASSUME UNCHANGED answerVars PROVE ModelSolves'
    BY <1>2, <1>4, ProblemStays DEF SearchInv, ModelSolves, answerVars
  <1>5. ASSUME phase' = "done", verdict' = "unsat" PROVE SearchInv'
    BY <1>5 DEF SearchInv, ModelSolves
  <1>6. Simplified(clauses, FALSE) = clauses
    BY DEF Simplified
  <1>7. CASE NewClause
    <2>1. phase = "add" /\ phase' = "add" /\ trail_lim = << >> /\ ClausesAccounted /\ verdict = "none"
      BY <1>7 DEF NewClause, SearchInv
    <2>2. ClausesAccounted' /\ trail_lim' = << >>
      BY <1>7, <2>1, NewClauseAccounted
    <2>3. added' <= Len(problem'.clauses)
      <3>1. Len(problem.clauses) \in Nat
        BY <1>1, ProblemTyped
      <3>2. QED
        BY <1>1, <1>2, <1>7, <3>1 DEF NewClause
    <2>4. UNCHANGED answerVars
      BY <1>7 DEF NewClause
    <2>5. verdict' = "none" /\ ModelSolves'
      BY <1>4, <2>1, <2>4 DEF answerVars
    <2>6. QED
      BY <2>1, <2>2, <2>3, <2>5 DEF SearchInv
  <1>8. CASE Solve
    <2>1. phase = "add" /\ trail_lim = << >> /\ ClausesAccounted /\ verdict = "none" /\ added = Len(problem.clauses)
      BY <1>8 DEF Solve, SearchInv
    <2>2. CASE ok
      <3>1. phase' = "assume" /\ UNCHANGED <<trailVars, answerVars, added, ok, clauses, problem>>
        BY <1>8, <2>2 DEF Solve
      <3>2. verdict' = "none" /\ ModelSolves' /\ trail_lim' = << >>
        BY <1>4, <2>1, <3>1 DEF answerVars, trailVars
      <3>3. AssumptionsMade'
        BY <1>3, <3>2 DEF AssumptionsMade, DecisionLevel
      <3>4. ClausesAccounted'
        BY <2>1, <3>1 DEF ClausesAccounted, Accounted, Kept, DecisionLevel, trailVars
      <3>5. QED
        BY <2>1, <2>2, <3>1, <3>2, <3>3, <3>4 DEF SearchInv
    <2>3. CASE ~ok
      BY <1>5, <1>8, <2>3 DEF Solve, Answer
    <2>4. QED
      BY <2>2, <2>3
  <1>9. CASE Propagate
    <2>1. /\ phase \in {"assume", "search"} /\ UNCHANGED <<phase, added, ok, clauses, answerVars>>
          /\ trail_lim' = trail_lim
          /\ \E c \in ClauseDatabase : \E l \in c : trail' = Append(trail, l)
      BY <1>9 DEF Propagate, Enqueue
    <2>2. \A c \in ClauseDatabase : c \subseteq Literals
      BY <1>1 DEF ClausesTyped, ClauseDatabase
    <2>3. \A i \in Nat : ToSet(Kept(i)) \subseteq ToSet(Kept(i)')
      BY <1>1, <2>1, <2>2, EnqueueFixes
    <2>4. ok /\ added = Len(problem.clauses) /\ AssumptionsMade /\ ClausesAccounted /\ verdict = "none"
      BY <2>1 DEF SearchInv
    <2>5. ClausesAccounted'
      BY <1>2, <1>6, <2>1, <2>3, <2>4, StillAccounted
    <2>6. AssumptionsMade'
      <3>1. DecisionLevel' = DecisionLevel
        BY <2>1 DEF DecisionLevel
      <3>2. \A i \in 1 .. RootLevel : i <= DecisionLevel => problem.assumptions[i] \in ToSet(Kept(i)')
        BY <1>3, <2>3, <2>4 DEF AssumptionsMade
      <3>3. QED
        BY <1>2, <1>3, <3>1, <3>2 DEF AssumptionsMade, ToSet
    <2>7. phase = "search" => DecisionLevel' >= RootLevel'
      BY <1>3, <2>1 DEF SearchInv, DecisionLevel
    <2>8. verdict' = "none" /\ ModelSolves'
      BY <1>4, <2>1, <2>4 DEF answerVars
    <2>9. QED
      BY <1>2, <2>1, <2>4, <2>5, <2>6, <2>7, <2>8 DEF SearchInv
  <1>10. CASE Contradiction
    BY <1>5, <1>10 DEF Contradiction, Answer
  <1>11. CASE Learn
    <2>1. /\ phase = "search" /\ UNCHANGED <<phase, added, ok, clauses, answerVars>>
      BY <1>11 DEF Learn
    <2>2. PICK confl \in ClauseDatabase :
            \E l \in AtCurrentLevel(FirstUIP(confl)) :
               /\ trail' = Append(Kept(BacktrackLevel(FirstUIP(confl))), l)
               /\ trail_lim' = KeptLevels(BacktrackLevel(FirstUIP(confl)))
      BY <1>11 DEF Learn
    <2> DEFINE uip == FirstUIP(confl)
               b == BacktrackLevel(uip)
    <2>3. uip \in SUBSET Literals /\ b \in Nat /\ b >= RootLevel
      <3>1. confl \in SUBSET Literals
        BY <1>1 DEF ClausesTyped, ClauseDatabase
      <3>2. QED
        BY <1>1, <3>1, LearntTyped
    <2>4. PICK l \in Literals : trail' = Append(Kept(b), l) /\ trail_lim' = KeptLevels(b)
      BY <2>2, <2>3 DEF AtCurrentLevel
    <2> HIDE DEF uip, b
    <2>5. Kept(b) \in Seq(Literals)
      BY <1>1, <2>3, KeptIsPrefix
    <2>6. Len(Kept(b)) <= Len(trail') /\ \A j \in 1 .. Len(Kept(b)) : trail'[j] = Kept(b)[j]
      BY <2>4, <2>5
    <2>7. /\ ok /\ added = Len(problem.clauses) /\ AssumptionsMade /\ ClausesAccounted
          /\ verdict = "none" /\ DecisionLevel >= RootLevel
      BY <2>1 DEF SearchInv
    <2>8. /\ AssumptionsMade' /\ DecisionLevel' >= RootLevel'
          /\ ToSet(Kept(0)) \subseteq ToSet(Kept(0)')
      BY <1>1, <1>2, <2>3, <2>4, <2>6, <2>7, AssumptionsStay
    <2>9. ClausesAccounted'
      BY <1>2, <1>6, <2>1, <2>7, <2>8, StillAccounted
    <2>10. verdict' = "none" /\ ModelSolves'
      BY <1>4, <2>1, <2>7 DEF answerVars
    <2>11. QED
      BY <1>2, <2>1, <2>7, <2>8, <2>9, <2>10 DEF SearchInv
  <1>12. CASE MakeAssumption
    <2> DEFINE p == problem.assumptions[DecisionLevel + 1]
    <2>1. /\ phase = "assume" /\ DecisionLevel < RootLevel /\ UNCHANGED <<added, ok>>
          /\ \E due \in BOOLEAN : clauses' = Simplified(clauses, due)
      BY <1>12 DEF MakeAssumption
    <2>2. CASE IsFalse(p)
      BY <1>5, <1>12, <2>2 DEF MakeAssumption, Answer
    <2>3. CASE ~IsFalse(p)
      <3>1. Assume(p) /\ UNCHANGED <<phase, answerVars>>
        BY <1>12, <2>3 DEF MakeAssumption
      <3>2. p \in Literals
        <4>1. problem.assumptions \in Seq(Literals) /\ DecisionLevel + 1 \in DOMAIN problem.assumptions
          BY <1>1, <1>3, <2>1, ProblemTyped DEF RootLevel
        <4>2. QED
          BY <4>1
      <3> HIDE DEF p
      <3>3. \A i \in Nat : /\ ToSet(Kept(i)) \subseteq ToSet(Kept(i)')
                           /\ i = DecisionLevel + 1 => p \in ToSet(Kept(i)')
        BY <1>1, <3>1, <3>2, AssumeFixes
      <3>4. DecisionLevel' = DecisionLevel + 1
        <4>1. Len(trail_lim') = DecisionLevel + 1
          BY <1>1, <1>3, <3>1, <3>2, AssumeFixes
        <4>2. QED
          BY <4>1 DEF DecisionLevel
      <3>5. ok /\ added = Len(problem.clauses) /\ AssumptionsMade /\ ClausesAccounted /\ verdict = "none"
        BY <2>1 DEF SearchInv
      <3>6. ClausesAccounted'
        <4>1. PICK due \in BOOLEAN : clauses' = Simplified(clauses, due)
          BY <2>1
        <4>2. QED
          BY <1>2, <2>1, <3>3, <3>5, <4>1, StillAccounted
      <3>7. AssumptionsMade'
        <4>1. ASSUME NEW i \in 1 .. RootLevel, i <= DecisionLevel + 1
              PROVE  problem.assumptions[i] \in ToSet(Kept(i)')
          <5>1. CASE i = DecisionLevel + 1
            BY <1>3, <3>3, <5>1 DEF p
          <5>2. CASE i # DecisionLevel + 1
            <6>1. i \in Nat /\ i <= DecisionLevel
              BY <1>3, <4>1, <5>2
            <6>2. QED
              BY <3>3, <3>5, <6>1 DEF AssumptionsMade
          <5>3. QED
            BY <5>1, <5>2
        <4>2. QED
          BY <1>2, <1>3, <3>4, <4>1 DEF AssumptionsMade, ToSet
      <3>8. verdict' = "none" /\ ModelSolves'
        BY <1>4, <3>1, <3>5 DEF answerVars
      <3>9. QED
        BY <1>2, <2>1, <3>1, <3>5, <3>6, <3>7, <3>8 DEF SearchInv
    <2>4. QED
      BY <2>2, <2>3
  <1>13. CASE StartSearch
    <2>1. /\ phase = "assume" /\ phase' = "search" /\ DecisionLevel = RootLevel
          /\ UNCHANGED <<problem, added, ok, clauses, trailVars, answerVars>>
      BY <1>13 DEF StartSearch
    <2>2. /\ ClausesAccounted' /\ AssumptionsMade' /\ DecisionLevel' >= RootLevel'
      BY <1>3, <2>1 DEF SearchInv, ClausesAccounted, Accounted, AssumptionsMade, Kept, DecisionLevel, trailVars
    <2>3. ModelSolves'
      BY <1>4, <2>1
    <2>4. QED
      BY <2>1, <2>2, <2>3 DEF SearchInv, answerVars
  <1>14. CASE Restart
    <2>1. /\ phase = "search" /\ UNCHANGED <<phase, added, ok, clauses, answerVars>>
          /\ trail' = Kept(RootLevel) /\ trail_lim' = KeptLevels(RootLevel)
      BY <1>14 DEF Restart, CancelUntil
    <2>2. Kept(RootLevel) \in Seq(Literals)
      BY <1>1, <1>3, KeptIsPrefix
    <2>3. /\ ok /\ added = Len(problem.clauses) /\ AssumptionsMade /\ ClausesAccounted
          /\ verdict = "none" /\ DecisionLevel >= RootLevel
      BY <2>1 DEF SearchInv
    <2>4. Len(Kept(RootLevel)) <= Len(trail') /\ RootLevel >= RootLevel
      BY <1>3, <2>1, <2>2
    <2>5. /\ AssumptionsMade' /\ DecisionLevel' >= RootLevel'
          /\ ToSet(Kept(0)) \subseteq ToSet(Kept(0)')
      BY <1>1, <1>2, <1>3, <2>1, <2>3, <2>4, AssumptionsStay
    <2>6. ClausesAccounted'
      BY <1>2, <1>6, <2>1, <2>3, <2>5, StillAccounted
    <2>7. verdict' = "none" /\ ModelSolves'
      BY <1>4, <2>1, <2>3 DEF answerVars
    <2>8. QED
      BY <1>2, <2>1, <2>3, <2>5, <2>6, <2>7 DEF SearchInv
  <1>15. CASE Decide
    <2>1. /\ phase = "search" /\ UNCHANGED <<phase, added, ok, answerVars>> /\ Housekeeping
      BY <1>15 DEF Decide
    <2>2. PICK k \in Selectable : Assume(Decision(order[k]))
      BY <1>15 DEF Decide
    <2>3. Decision(order[k]) \in Literals
      <3>1. order \in Seq(Variables) /\ k \in DOMAIN order
        BY <1>1 DEF TrailTyped, Selectable
      <3>2. order[k] \in Variables
        BY <3>1
      <3>3. QED
        BY <1>1, <3>2, LiteralFacts DEF Decision
    <2>4. /\ \A i \in Nat : ToSet(Kept(i)) \subseteq ToSet(Kept(i)')
          /\ Len(trail_lim') = DecisionLevel + 1
      BY <1>1, <1>3, <2>2, <2>3, AssumeFixes
    <2>5. /\ ok /\ added = Len(problem.clauses) /\ AssumptionsMade /\ ClausesAccounted
          /\ verdict = "none" /\ DecisionLevel >= RootLevel
      BY <2>1 DEF SearchInv
    <2>6. ClausesAccounted'
      <3>1. PICK due \in BOOLEAN : clauses' = Simplified(clauses, due)
        BY <2>1 DEF Housekeeping
      <3>2. QED
        BY <1>2, <2>1, <2>4, <2>5, <3>1, StillAccounted
    <2>7. \A i \in 1 .. RootLevel : i \in Nat /\ i <= DecisionLevel
      BY <1>3, <2>5
    <2>8. AssumptionsMade'
      BY <1>2, <1>3, <2>4, <2>5, <2>7 DEF AssumptionsMade, ToSet
    <2>9. DecisionLevel' >= RootLevel'
      BY <1>3, <2>4, <2>5 DEF DecisionLevel
    <2>10. verdict' = "none" /\ ModelSolves'
      BY <1>4, <2>1, <2>5 DEF answerVars
    <2>11. QED
      BY <1>2, <2>1, <2>5, <2>6, <2>8, <2>9, <2>10 DEF SearchInv
  <1>16. CASE ModelFound
    <2>1. phase' = "done"
      BY <1>16 DEF ModelFound
    <2>2. ModelSolves'
      BY <1>16, ModelFoundSolves
    <2>3. QED
      BY <2>1, <2>2 DEF SearchInv
  <1>17. CASE UNCHANGED solverVars
    <2>1. UNCHANGED <<problem, phase, added, ok, clauses, trail, trail_lim, verdict, model>>
      BY <1>17 DEF solverVars, trailVars, answerVars
    <2>2. /\ ClausesAccounted' <=> ClausesAccounted
          /\ AssumptionsMade' <=> AssumptionsMade
      BY <1>3, <2>1 DEF ClausesAccounted, Accounted, AssumptionsMade, Kept, DecisionLevel
    <2>3. ModelSolves'
      BY <1>4, <2>1 DEF answerVars
    <2>4. DecisionLevel' = DecisionLevel
      BY <2>1 DEF DecisionLevel
    <2>5. QED
      BY <1>3, <2>1, <2>2, <2>3, <2>4 DEF SearchInv
  <1>18. QED
    BY <1>7, <1>8, <1>9, <1>10, <1>11, <1>12, <1>13, <1>14, <1>15, <1>16, <1>17 DEF Next

\* Whatever the problem, a model that is reported gives every variable a value and
\* has a literal of every clause and every assumption that was posed, although
\* clauses are simplified when they are added and dropped once they are true, and
\* the search has gone back and restarted in between (Solver.cpp:61-141, 556-595,
\* 651-679).
THEOREM ModelsSolve == Spec => []ModelSolves
  <1>1. SolverInv /\ SearchInv /\ [Next]_solverVars => (SolverInv /\ SearchInv)'
    BY SolverInvNext, SearchInvNext
  <1>2. Init => SolverInv /\ SearchInv
    BY SolverInvInit, SearchInvInit
  <1>3. SearchInv => ModelSolves
    BY DEF SearchInv
  <1>4. QED
    BY <1>1, <1>2, <1>3, PTL DEF Spec

(***************************************************************************)
(* The trail t with its levels lim, the level lev and the reason rea of    *)
(* every variable, and the clauses cs.  The literals of level d stand at   *)
(* the positions from Height(d - 1) + 1 to Height(d); a literal of level 0 *)
(* may also stand higher, but not above the assumptions.                   *)
(***************************************************************************)
Height(t, lim, d) == IF d < Len(lim) THEN lim[d + 1] ELSE Len(t)

\* No variable is assigned twice.
AssignedOnce(t) == \A i, j \in DOMAIN t : i # j => t[i] # t[j] /\ t[i] # -t[j]

LevelsRight(t, lim, lev) ==
    \A i \in DOMAIN t :
        LET d == lev[Var(t[i])] IN
        \/ d = 0
        \/ d \in 1 .. Len(lim) /\ Height(t, lim, d - 1) < i /\ i <= Height(t, lim, d)

\* What is fixed for good stands below the decisions.
FixedBelow(R, t, lim, lev) ==
    \A i \in DOMAIN t : lev[Var(t[i])] = 0 => i <= Height(t, lim, R)

\* Only the first literal of a level has no reason.
DecisionFirst(t, lim, lev, rea) ==
    \A i \in DOMAIN t :
        LET d == lev[Var(t[i])] IN
        d > 0 /\ rea[Var(t[i])] = {} => i = Height(t, lim, d - 1) + 1

\* A reason has its literal, and all others were false before it.
SupportedAt(t, i, r) == t[i] \in r /\ \A m \in r \ {t[i]} : \E j \in 1 .. i - 1 : t[j] = -m
Supported(t, rea) ==
    \A i \in DOMAIN t : rea[Var(t[i])] # {} => SupportedAt(t, i, rea[Var(t[i])])

\* Above the assumptions, a reason has another literal of the level: whatever
\* the levels below imply was propagated before the level was opened.
LevelSupported(R, t, lev, rea) ==
    \A i \in DOMAIN t :
        LET d == lev[Var(t[i])]
            r == rea[Var(t[i])]
        IN d > R /\ r # {} => \E m \in r \ {t[i]} : lev[Var(m)] = d

ReasonsKept(t, rea, cs) ==
    \A i \in DOMAIN t : Cardinality(rea[Var(t[i])]) > 2 => rea[Var(t[i])] \in cs

\* Of the first k literals of the trail, one satisfies the clause, or they leave it
\* two literals.
Open(t, k, l) == \A i \in 1 .. k : t[i] # l /\ t[i] # -l
QuietAt(t, k, c) ==
    \/ \E i \in 1 .. k : t[i] \in c
    \/ \E l, m \in c : l # m /\ Open(t, k, l) /\ Open(t, k, m)

\* No clause is unit or false at the levels below a decision.
QuietBelow(R, t, lim, cs) ==
    \A d \in R .. Len(lim) - 1 : \A c \in cs : QuietAt(t, Height(t, lim, d), c)

TrailSound(R, t, lim, lev, rea, cs) ==
    /\ AssignedOnce(t)
    /\ LevelsRight(t, lim, lev)
    /\ FixedBelow(R, t, lim, lev)
    /\ DecisionFirst(t, lim, lev, rea)
    /\ Supported(t, rea)
    /\ LevelSupported(R, t, lev, rea)
    /\ ReasonsKept(t, rea, cs)
    /\ QuietBelow(R, t, lim, cs)

(***************************************************************************)
(* What the clauses imply.                                                 *)
(***************************************************************************)
Entailed(sols, c) == \A a \in sols : c \cap a # {}

MeaningSound(R, sols, answers, t, lim, lev, rea, cs) ==
    /\ \A c \in cs : Entailed(sols, c)
    /\ \A i \in DOMAIN t : rea[Var(t[i])] # {} => Entailed(sols, rea[Var(t[i])])
    /\ \A i \in DOMAIN t : lev[Var(t[i])] = 0 => Entailed(sols, {t[i]})
    /\ \A i \in 1 .. Height(t, lim, R) : Entailed(answers, {t[i]})

TrailInv == TrailSound(RootLevel, trail, trail_lim, level, reason, ClauseDatabase)
MeaningInv ==
    MeaningSound(RootLevel, Solutions, Answers, trail, trail_lim, level, reason, ClauseDatabase)

\* A contradiction among the clauses; an answer not given yet.
VerdictInv ==
    /\ phase = "add" /\ ~ok => Solutions = {}
    /\ phase = "assume" => DecisionLevel <= RootLevel
    /\ verdict = "none" => model = {}

SoundInv == TrailInv /\ MeaningInv /\ VerdictInv

(***************************************************************************)
(* Literals, and the heights of the levels.                                *)
(***************************************************************************)
Shaped(t, lim) ==
    /\ t \in Seq(Literals)
    /\ lim \in Seq(Nat)
    /\ \A i \in DOMAIN lim : lim[i] <= Len(t)
    /\ \A i, j \in DOMAIN lim : i < j => lim[i] <= lim[j]

LEMMA VarFacts ==
    ASSUME problem \in Problems
    PROVE  /\ \A l \in Literals : /\ -l \in Literals /\ l # -l /\ -(-l) = l
                                  /\ Var(l) \in Variables /\ Var(-l) = Var(l)
           /\ \A l, m \in Literals : Var(l) = Var(m) => l = m \/ l = -m
           /\ \A l \in Literals : l = Var(l) \/ l = -Var(l)
  BY ProblemTyped DEF Literals, Variables, Var

LEMMA HeightFacts ==
    ASSUME NEW t, NEW lim, Shaped(t, lim)
    PROVE  /\ Len(t) \in Nat /\ Len(lim) \in Nat /\ DOMAIN t = 1 .. Len(t)
           /\ \A i \in DOMAIN t : t[i] \in Literals
           /\ \A d \in Nat : Height(t, lim, d) \in Nat /\ Height(t, lim, d) <= Len(t)
           /\ \A d \in Nat : d >= Len(lim) => Height(t, lim, d) = Len(t)
           /\ \A d, e \in Nat : d <= e => Height(t, lim, d) <= Height(t, lim, e)
  <1>1. /\ Len(t) \in Nat /\ Len(lim) \in Nat /\ DOMAIN t = 1 .. Len(t) /\ DOMAIN lim = 1 .. Len(lim)
        /\ \A i \in DOMAIN t : t[i] \in Literals
        /\ \A i \in DOMAIN lim : lim[i] \in Nat /\ lim[i] <= Len(t)
    BY DEF Shaped
  <1>2. ASSUME NEW d \in Nat PROVE Height(t, lim, d) \in Nat /\ Height(t, lim, d) <= Len(t)
    <2>1. CASE d < Len(lim)
      <3>1. d + 1 \in DOMAIN lim
        BY <1>1, <2>1
      <3>2. QED
        BY <1>1, <2>1, <3>1 DEF Height
    <2>2. CASE ~(d < Len(lim))
      BY <1>1, <2>2 DEF Height
    <2>3. QED
      BY <2>1, <2>2
  <1>3. \A d \in Nat : d >= Len(lim) => Height(t, lim, d) = Len(t)
    BY <1>1 DEF Height
  <1>4. ASSUME NEW d \in Nat, NEW e \in Nat, d <= e
        PROVE  Height(t, lim, d) <= Height(t, lim, e)
    <2>1. CASE e < Len(lim)
      <3>1. /\ d + 1 \in DOMAIN lim /\ e + 1 \in DOMAIN lim /\ (d = e \/ d + 1 < e + 1)
            /\ Height(t, lim, d) = lim[d + 1] /\ Height(t, lim, e) = lim[e + 1]
        BY <1>1, <1>4, <2>1 DEF Height
      <3>2. d + 1 < e + 1 => lim[d + 1] <= lim[e + 1]
        BY <3>1 DEF Shaped
      <3>3. QED
        BY <1>1, <3>1, <3>2
    <2>2. CASE ~(e < Len(lim))
      BY <1>1, <1>2, <1>3, <2>2
    <2>3. QED
      BY <2>1, <2>2
  <1>5. QED
    BY <1>1, <1>2, <1>3, <1>4

LEMMA TrailShaped ==
    ASSUME TrailTyped
    PROVE  /\ Shaped(trail, trail_lim)
           /\ \A d \in Nat : Len(Kept(d)) = Height(trail, trail_lim, d)
  <1>1. Shaped(trail, trail_lim)
    BY DEF TrailTyped, LevelsTyped, Shaped
  <1>2. ASSUME NEW d \in Nat PROVE Len(Kept(d)) = Height(trail, trail_lim, d)
    <2>1. CASE d < DecisionLevel
      BY <2>1, KeptIsPrefix DEF Height, DecisionLevel
    <2>2. CASE ~(d < DecisionLevel)
      BY <2>2 DEF Height, DecisionLevel, Kept
    <2>3. QED
      BY <2>1, <2>2
  <1>3. QED
    BY <1>1, <1>2

(***************************************************************************)
(* Going back: t2, lim2 are t, lim up to level b.                          *)
(***************************************************************************)
CutTo(t, lim, t2, lim2, b) ==
    /\ Len(t2) = Height(t, lim, b)
    /\ \A i \in 1 .. Len(t2) : t2[i] = t[i]
    /\ Len(lim2) = IF b < Len(lim) THEN b ELSE Len(lim)
    /\ \A i \in 1 .. Len(lim2) : lim2[i] = lim[i]

LEMMA CutHeights ==
    ASSUME NEW t, NEW lim, NEW t2, NEW lim2, NEW b \in Nat,
           Shaped(t, lim), Shaped(t2, lim2), CutTo(t, lim, t2, lim2, b)
    PROVE  /\ Len(lim2) <= b /\ Len(lim2) <= Len(lim) /\ Len(t2) <= Len(t)
           /\ \A d \in Nat : d <= b => Height(t2, lim2, d) = Height(t, lim, d)
           /\ \A d \in Nat : d >= b => Height(t2, lim2, d) = Len(t2)
  <1>1. /\ Len(lim) \in Nat /\ Len(lim2) \in Nat
        /\ Len(lim2) <= b /\ Len(lim2) <= Len(lim) /\ Len(t2) <= Len(t)
    <2>1. Len(lim) \in Nat /\ Len(lim2) \in Nat /\ Height(t, lim, b) <= Len(t)
      BY HeightFacts
    <2>2. QED
      BY <2>1 DEF CutTo
  <1>2. ASSUME NEW d \in Nat, d <= b PROVE Height(t2, lim2, d) = Height(t, lim, d)
    <2>1. CASE d < Len(lim2)
      <3>1. d + 1 \in 1 .. Len(lim2) /\ d < Len(lim)
        BY <1>1, <2>1
      <3>2. QED
        BY <2>1, <3>1 DEF Height, CutTo
    <2>2. CASE ~(d < Len(lim2))
      <3>1. Height(t2, lim2, d) = Len(t2)
        BY <2>2 DEF Height
      <3>2. CASE b < Len(lim)
        <4>1. d = b
          BY <1>1, <1>2, <2>2, <3>2 DEF CutTo
        <4>2. QED
          BY <3>1, <4>1 DEF CutTo
      <3>3. CASE ~(b < Len(lim))
        <4>1. ~(d < Len(lim))
          BY <1>1, <2>2, <3>3 DEF CutTo
        <4>2. QED
          BY <3>1, <3>3, <4>1 DEF CutTo, Height
      <3>4. QED
        BY <3>2, <3>3
    <2>3. QED
      BY <2>1, <2>2
  <1>3. \A d \in Nat : d >= b => Height(t2, lim2, d) = Len(t2)
    BY <1>1 DEF Height
  <1>4. QED
    BY <1>1, <1>2, <1>3

LEMMA CutSound ==
    ASSUME NEW R \in Nat, NEW t, NEW lim, NEW lev \in [Variables -> Int], NEW rea, NEW cs,
           NEW t2, NEW lim2, NEW rea2, NEW b \in Nat,
           Shaped(t, lim), Shaped(t2, lim2), CutTo(t, lim, t2, lim2, b),
           \A i \in 1 .. Len(t2) : rea2[Var(t[i])] = rea[Var(t[i])],
           TrailSound(R, t, lim, lev, rea, cs), problem \in Problems
    PROVE  TrailSound(R, t2, lim2, lev, rea2, cs)
  <1>1. /\ Len(t) \in Nat /\ Len(t2) \in Nat /\ DOMAIN t = 1 .. Len(t) /\ DOMAIN t2 = 1 .. Len(t2)
        /\ Len(lim) \in Nat /\ Len(lim2) \in Nat
    BY HeightFacts
  <1>2. /\ Len(lim2) <= b /\ Len(lim2) <= Len(lim) /\ Len(t2) <= Len(t)
        /\ \A d \in Nat : d <= b => Height(t2, lim2, d) = Height(t, lim, d)
        /\ \A d \in Nat : d >= b => Height(t2, lim2, d) = Len(t2)
    BY CutHeights
  <1>3. /\ \A d \in Nat : Height(t, lim, d) \in Nat
        /\ \A d, e \in Nat : d <= e => Height(t, lim, d) <= Height(t, lim, e)
    BY HeightFacts
  <1>4. ASSUME NEW i \in DOMAIN t2
        PROVE  /\ i \in DOMAIN t /\ t2[i] = t[i] /\ i <= Height(t, lim, b) /\ i \in Nat /\ i <= Len(t2)
               /\ rea2[Var(t[i])] = rea[Var(t[i])]
               /\ t[i] \in Literals /\ lev[Var(t[i])] \in Int
    <2>1. i \in DOMAIN t /\ t2[i] = t[i] /\ i <= Height(t, lim, b)
      BY <1>1, <1>2 DEF CutTo
    <2>2. t[i] \in Literals
      BY <2>1, HeightFacts
    <2>3. QED
      BY <1>1, <2>1, <2>2, VarFacts
  <1>5. ASSUME NEW i \in DOMAIN t2, NEW d \in Nat, d > 0, Height(t, lim, d - 1) < i
        PROVE  d <= b
    <2>1. SUFFICES ASSUME d > b PROVE FALSE
      OBVIOUS
    <2>2. d - 1 \in Nat /\ b <= d - 1
      BY <2>1
    <2>3. Height(t, lim, b) <= Height(t, lim, d - 1)
      BY <1>3, <2>2
    <2>4. QED
      BY <1>3, <1>4, <1>5, <2>2, <2>3
  <1>6. AssignedOnce(t2)
    BY <1>4 DEF TrailSound, AssignedOnce
  <1>7. LevelsRight(t2, lim2, lev)
    <2> SUFFICES ASSUME NEW i \in DOMAIN t2, lev[Var(t[i])] # 0
                 PROVE  /\ lev[Var(t[i])] \in 1 .. Len(lim2)
                        /\ Height(t2, lim2, lev[Var(t[i])] - 1) < i
                        /\ i <= Height(t2, lim2, lev[Var(t[i])])
      BY <1>4 DEF LevelsRight
    <2> DEFINE d == lev[Var(t[i])]
    <2>1. d \in 1 .. Len(lim) /\ Height(t, lim, d - 1) < i /\ i <= Height(t, lim, d)
      BY <1>4 DEF TrailSound, LevelsRight
    <2> HIDE DEF d
    <2>2. d \in Nat /\ d - 1 \in Nat /\ d <= b /\ d - 1 <= b
      BY <1>1, <1>5, <2>1
    <2>3. d <= Len(lim2)
      BY <1>1, <2>1, <2>2 DEF CutTo
    <2>4. QED
      BY <1>1, <1>2, <2>1, <2>2, <2>3 DEF d
  <1>8. FixedBelow(R, t2, lim2, lev)
    <2> SUFFICES ASSUME NEW i \in DOMAIN t2, lev[Var(t[i])] = 0
                 PROVE  i <= Height(t2, lim2, R)
      BY <1>4 DEF FixedBelow
    <2>1. i <= Height(t, lim, R)
      BY <1>4 DEF TrailSound, FixedBelow
    <2>2. QED
      BY <1>2, <1>4, <2>1
  <1>9. DecisionFirst(t2, lim2, lev, rea2)
    <2> SUFFICES ASSUME NEW i \in DOMAIN t2, lev[Var(t[i])] > 0, rea[Var(t[i])] = {}
                 PROVE  i = Height(t2, lim2, lev[Var(t[i])] - 1) + 1
      BY <1>4 DEF DecisionFirst
    <2> DEFINE d == lev[Var(t[i])]
    <2>1. d \in Nat /\ d > 0 /\ d - 1 \in Nat /\ i = Height(t, lim, d - 1) + 1
      BY <1>4 DEF TrailSound, DecisionFirst
    <2> HIDE DEF d
    <2>2. Height(t, lim, d - 1) < i
      BY <1>3, <2>1
    <2>3. d <= b
      BY <1>5, <2>1, <2>2
    <2>4. QED
      BY <1>2, <2>1, <2>3 DEF d
  <1>10. Supported(t2, rea2)
    <2> SUFFICES ASSUME NEW i \in DOMAIN t2, rea[Var(t[i])] # {}
                 PROVE  SupportedAt(t2, i, rea[Var(t[i])])
      BY <1>4 DEF Supported
    <2>1. SupportedAt(t, i, rea[Var(t[i])])
      BY <1>4 DEF TrailSound, Supported
    <2>2. \A j \in 1 .. i - 1 : t2[j] = t[j]
      BY <1>1, <1>4
    <2>3. QED
      BY <1>4, <2>1, <2>2 DEF SupportedAt
  <1>11. LevelSupported(R, t2, lev, rea2)
    BY <1>4 DEF TrailSound, LevelSupported
  <1>12. ReasonsKept(t2, rea2, cs)
    BY <1>4 DEF TrailSound, ReasonsKept
  <1>13. QuietBelow(R, t2, lim2, cs)
    <2> SUFFICES ASSUME NEW d \in R .. Len(lim2) - 1, NEW c \in cs
                 PROVE  QuietAt(t2, Height(t2, lim2, d), c)
      BY DEF QuietBelow
    <2>1. d \in R .. Len(lim) - 1 /\ d \in Nat /\ d <= b
      BY <1>1, <1>2
    <2>2. QuietAt(t, Height(t, lim, d), c)
      BY <2>1 DEF TrailSound, QuietBelow
    <2>3. Height(t2, lim2, d) = Height(t, lim, d) /\ Height(t, lim, d) <= Height(t, lim, b)
      BY <1>2, <1>3, <2>1
    <2>4. \A i \in 1 .. Height(t, lim, d) : t2[i] = t[i]
      <3>1. Len(t2) = Height(t, lim, b) /\ Height(t, lim, d) \in Nat
        BY <1>3, <2>1 DEF CutTo
      <3>2. \A i \in 1 .. Height(t, lim, d) : i \in 1 .. Len(t2)
        BY <1>1, <2>3, <3>1
      <3>3. QED
        BY <3>2 DEF CutTo
    <2>5. QED
      BY <2>2, <2>3, <2>4 DEF QuietAt, Open
  <1>14. QED
    BY <1>6, <1>7, <1>8, <1>9, <1>10, <1>11, <1>12, <1>13 DEF TrailSound

(***************************************************************************)
(* Assigning: a literal that is open joins the trail at the highest level, *)
(* or for good.                                                            *)
(***************************************************************************)
Grown(t, lim, l, t2) ==
    /\ Shaped(t2, lim)
    /\ Len(t2) = Len(t) + 1 /\ DOMAIN t2 = 1 .. Len(t) + 1
    /\ t2[Len(t) + 1] = l /\ \A i \in 1 .. Len(t) : t2[i] = t[i]
    /\ \A d \in Nat : d < Len(lim) => Height(t2, lim, d) = Height(t, lim, d)
    /\ \A d \in Nat : d >= Len(lim) => Height(t2, lim, d) = Len(t) + 1
    /\ \A d \in Nat : Height(t, lim, d) <= Height(t2, lim, d)
    /\ \A d \in Nat : Height(t2, lim, d) \in Nat

LEMMA PushHeights ==
    ASSUME NEW t, NEW lim, NEW l \in Literals, NEW t2, Shaped(t, lim), t2 = Append(t, l)
    PROVE  Grown(t, lim, l, t2)
  <1>1. /\ t \in Seq(Literals) /\ Len(t) \in Nat
        /\ t2 \in Seq(Literals) /\ Len(t2) = Len(t) + 1 /\ DOMAIN t2 = 1 .. Len(t) + 1
        /\ t2[Len(t) + 1] = l /\ \A i \in 1 .. Len(t) : t2[i] = t[i]
    BY DEF Shaped
  <1>2. /\ \A i \in DOMAIN lim : lim[i] \in Nat
        /\ \A d \in Nat : d < Len(lim) => d + 1 \in DOMAIN lim
    BY DEF Shaped
  <1>3. Shaped(t2, lim)
    <2>1. \A i \in DOMAIN lim : lim[i] <= Len(t2)
      BY <1>1, <1>2 DEF Shaped
    <2>2. QED
      BY <1>1, <2>1 DEF Shaped
  <1>4. \A d \in Nat : d < Len(lim) => Height(t2, lim, d) = Height(t, lim, d)
    BY DEF Height
  <1>5. \A d \in Nat : d >= Len(lim) => Height(t2, lim, d) = Len(t) + 1
    <2>1. Len(lim) \in Nat
      BY DEF Shaped
    <2>2. QED
      BY <1>1, <2>1 DEF Height
  <1>6. ASSUME NEW d \in Nat PROVE Height(t, lim, d) <= Height(t2, lim, d)
    <2>1. Len(lim) \in Nat /\ Height(t, lim, d) \in Nat /\ Height(t, lim, d) <= Len(t)
      BY HeightFacts
    <2>2. QED
      BY <1>1, <1>4, <1>5, <2>1
  <1>7. \A d \in Nat : Height(t2, lim, d) \in Nat
    BY <1>3, HeightFacts
  <1>8. QED
    BY <1>1, <1>3, <1>4, <1>5, <1>6, <1>7 DEF Grown

\* Literal l may join the trail at level x for the reason why.
MayPush(R, t, lim, lev, cs, l, x, why) ==
    /\ Open(t, Len(t), l)
    /\ x = Len(lim) \/ (x = 0 /\ Len(lim) <= R)
    /\ why # {} => l \in why /\ \A m \in why \ {l} : \E j \in 1 .. Len(t) : t[j] = -m
    /\ x > 0 /\ why = {} => Height(t, lim, x - 1) = Len(t)
    /\ x > R /\ why # {} => \E m \in why \ {l} : lev[Var(m)] = x
    /\ Cardinality(why) > 2 => why \in cs

Pushed(t, lev, rea, l, x, why, t2, lev2, rea2) ==
    /\ t2 = Append(t, l)
    /\ lev2 = [lev EXCEPT ![Var(l)] = x]
    /\ rea2 = [rea EXCEPT ![Var(l)] = why]

LEMMA PushSound ==
    ASSUME NEW R \in Nat, NEW t, NEW lim, NEW lev \in [Variables -> Int],
           NEW rea \in [Variables -> SUBSET Literals], NEW cs,
           NEW l \in Literals, NEW x \in Nat, NEW why \in SUBSET Literals,
           NEW t2, NEW lev2, NEW rea2,
           problem \in Problems, Shaped(t, lim), TrailSound(R, t, lim, lev, rea, cs),
           MayPush(R, t, lim, lev, cs, l, x, why),
           Pushed(t, lev, rea, l, x, why, t2, lev2, rea2)
    PROVE  TrailSound(R, t2, lim, lev2, rea2, cs)
  <1> DEFINE n == Len(t)
  <1>0. Grown(t, lim, l, t2)
    <2>1. t2 = Append(t, l)
      BY DEF Pushed
    <2>2. QED
      BY <2>1, PushHeights
  <1>1. /\ n \in Nat /\ DOMAIN t = 1 .. n /\ Len(lim) \in Nat
        /\ DOMAIN t2 = 1 .. n + 1 /\ t2[n + 1] = l /\ \A i \in 1 .. n : t2[i] = t[i]
    <2>1. n \in Nat /\ DOMAIN t = 1 .. n /\ Len(lim) \in Nat
      BY HeightFacts
    <2>2. QED
      BY <1>0, <2>1 DEF Grown
  <1>2. /\ Shaped(t2, lim)
        /\ \A d \in Nat : d < Len(lim) => Height(t2, lim, d) = Height(t, lim, d)
        /\ \A d \in Nat : d >= Len(lim) => Height(t2, lim, d) = n + 1
        /\ \A d \in Nat : Height(t, lim, d) <= Height(t2, lim, d)
    BY <1>0 DEF Grown
  <1>3. \A d \in Nat : Height(t, lim, d) \in Nat /\ Height(t, lim, d) <= n /\ Height(t2, lim, d) \in Nat
    <2>1. \A d \in Nat : Height(t, lim, d) \in Nat /\ Height(t, lim, d) <= n
      BY HeightFacts
    <2>2. QED
      BY <1>0, <2>1 DEF Grown
  <1>4. \A i \in 1 .. n : t[i] \in Literals /\ t[i] # l /\ t[i] # -l /\ l # -t[i]
    <2>1. \A i \in 1 .. n : t[i] \in Literals /\ t[i] # l /\ t[i] # -l
      BY <1>1, HeightFacts DEF Open, MayPush
    <2>2. QED
      BY <2>1, VarFacts
  <1>5. \A m \in Literals : Var(m) \in Variables /\ lev[Var(m)] \in Int
    BY VarFacts
  <1>6. lev2[Var(l)] = x /\ rea2[Var(l)] = why
    BY <1>5 DEF Pushed
  <1>7. \A m \in Literals : m # l /\ m # -l => lev2[Var(m)] = lev[Var(m)] /\ rea2[Var(m)] = rea[Var(m)]
    <2>1. \A m \in Literals : m # l /\ m # -l => Var(m) # Var(l)
      BY VarFacts
    <2>2. QED
      BY <1>5, <2>1 DEF Pushed
  <1>8. \A i \in 1 .. n : lev2[Var(t2[i])] = lev[Var(t[i])] /\ rea2[Var(t2[i])] = rea[Var(t[i])]
    BY <1>1, <1>4, <1>7
  <1> HIDE DEF n
  <1>9. AssignedOnce(t2)
    <2> SUFFICES ASSUME NEW i \in 1 .. n + 1, NEW j \in 1 .. n + 1, i # j
                 PROVE  t2[i] # t2[j] /\ t2[i] # -t2[j]
      BY <1>1 DEF AssignedOnce
    <2>1. CASE i \in 1 .. n /\ j \in 1 .. n
      BY <1>1, <2>1 DEF TrailSound, AssignedOnce
    <2>2. CASE i = n + 1 /\ j \in 1 .. n
      BY <1>1, <1>4, <2>2
    <2>3. CASE i \in 1 .. n /\ j = n + 1
      BY <1>1, <1>4, <2>3
    <2>4. QED
      BY <1>1, <2>1, <2>2, <2>3
  <1>10. LevelsRight(t2, lim, lev2)
    <2> SUFFICES ASSUME NEW i \in 1 .. n + 1, lev2[Var(t2[i])] # 0
                 PROVE  /\ lev2[Var(t2[i])] \in 1 .. Len(lim)
                        /\ Height(t2, lim, lev2[Var(t2[i])] - 1) < i
                        /\ i <= Height(t2, lim, lev2[Var(t2[i])])
      BY <1>1 DEF LevelsRight
    <2>1. CASE i = n + 1
      <3>1. x = Len(lim) /\ x - 1 \in Nat /\ x - 1 < Len(lim)
        BY <1>1, <1>6, <2>1 DEF MayPush
      <3>2. Height(t2, lim, x - 1) <= n /\ Height(t2, lim, x) = n + 1
        BY <1>2, <1>3, <3>1
      <3>3. Height(t2, lim, x - 1) < n + 1 /\ n + 1 <= Height(t2, lim, x)
        BY <1>1, <1>3, <3>1, <3>2
      <3>4. QED
        BY <1>1, <1>6, <2>1, <3>1, <3>3
    <2>2. CASE i \in 1 .. n
      <3> DEFINE d == lev[Var(t[i])]
      <3>1. d \in 1 .. Len(lim) /\ Height(t, lim, d - 1) < i /\ i <= Height(t, lim, d)
        BY <1>1, <1>8, <2>2 DEF TrailSound, LevelsRight
      <3> HIDE DEF d
      <3>2. d \in Nat /\ d - 1 \in Nat /\ d - 1 < Len(lim)
        BY <1>1, <3>1
      <3>3. Height(t2, lim, d - 1) < i /\ i <= Height(t2, lim, d)
        BY <1>2, <1>3, <3>1, <3>2
      <3>4. QED
        BY <1>8, <2>2, <3>1, <3>3 DEF d
    <2>3. QED
      BY <1>1, <2>1, <2>2
  <1>11. FixedBelow(R, t2, lim, lev2)
    <2> SUFFICES ASSUME NEW i \in 1 .. n + 1, lev2[Var(t2[i])] = 0
                 PROVE  i <= Height(t2, lim, R)
      BY <1>1 DEF FixedBelow
    <2>1. CASE i = n + 1
      <3>1. Len(lim) <= R
        BY <1>1, <1>6, <2>1 DEF MayPush
      <3>2. QED
        BY <1>1, <1>2, <2>1, <3>1
    <2>2. CASE i \in 1 .. n
      <3>1. i <= Height(t, lim, R)
        BY <1>1, <1>8, <2>2 DEF TrailSound, FixedBelow
      <3>2. QED
        BY <1>2, <1>3, <2>2, <3>1
    <2>3. QED
      BY <1>1, <2>1, <2>2
  <1>12. DecisionFirst(t2, lim, lev2, rea2)
    <2> SUFFICES ASSUME NEW i \in 1 .. n + 1, lev2[Var(t2[i])] > 0, rea2[Var(t2[i])] = {}
                 PROVE  i = Height(t2, lim, lev2[Var(t2[i])] - 1) + 1
      BY <1>1 DEF DecisionFirst
    <2>1. CASE i = n + 1
      <3>1. x = Len(lim) /\ x - 1 \in Nat /\ x - 1 < Len(lim) /\ Height(t, lim, x - 1) = n
        BY <1>1, <1>6, <2>1 DEF n, MayPush
      <3>2. QED
        BY <1>1, <1>2, <1>6, <2>1, <3>1
    <2>2. CASE i \in 1 .. n
      <3> DEFINE d == lev[Var(t[i])]
      <3>1. d \in 1 .. Len(lim) /\ i = Height(t, lim, d - 1) + 1
        <4>1. d > 0 /\ rea[Var(t[i])] = {} /\ d \in Int
          BY <1>4, <1>5, <1>8, <2>2
        <4>2. i = Height(t, lim, d - 1) + 1
          BY <1>1, <2>2, <4>1 DEF TrailSound, DecisionFirst
        <4>3. d \in 1 .. Len(lim)
          BY <1>1, <2>2, <4>1 DEF TrailSound, LevelsRight
        <4>4. QED
          BY <4>2, <4>3
      <3> HIDE DEF d
      <3>2. d - 1 \in Nat /\ d - 1 < Len(lim)
        BY <1>1, <3>1
      <3>3. QED
        BY <1>2, <1>8, <2>2, <3>1, <3>2 DEF d
    <2>3. QED
      BY <1>1, <2>1, <2>2
  <1>13. Supported(t2, rea2)
    <2> SUFFICES ASSUME NEW i \in 1 .. n + 1, rea2[Var(t2[i])] # {}
                 PROVE  SupportedAt(t2, i, rea2[Var(t2[i])])
      BY <1>1 DEF Supported
    <2>1. CASE i = n + 1
      <3>1. l \in why /\ \A m \in why \ {l} : \E j \in 1 .. n : t[j] = -m
        BY <1>1, <1>6, <2>1 DEF n, MayPush
      <3>2. \A m \in why \ {l} : \E j \in 1 .. i - 1 : t2[j] = -m
        BY <1>1, <2>1, <3>1
      <3>3. QED
        BY <1>1, <1>6, <2>1, <3>1, <3>2 DEF SupportedAt
    <2>2. CASE i \in 1 .. n
      <3>1. SupportedAt(t, i, rea[Var(t[i])])
        BY <1>1, <1>8, <2>2 DEF TrailSound, Supported
      <3>2. \A j \in 1 .. i - 1 : t2[j] = t[j]
        BY <1>1, <2>2
      <3>3. QED
        BY <1>1, <1>8, <2>2, <3>1, <3>2 DEF SupportedAt
    <2>3. QED
      BY <1>1, <2>1, <2>2
  <1>14. LevelSupported(R, t2, lev2, rea2)
    <2> SUFFICES ASSUME NEW i \in 1 .. n + 1, lev2[Var(t2[i])] > R, rea2[Var(t2[i])] # {}
                 PROVE  \E m \in rea2[Var(t2[i])] \ {t2[i]} : lev2[Var(m)] = lev2[Var(t2[i])]
      BY <1>1 DEF LevelSupported
    <2>1. SupportedAt(t2, i, rea2[Var(t2[i])])
      BY <1>1, <1>13 DEF Supported
    <2>2. CASE i = n + 1
      <3>1. PICK m \in why \ {l} : lev[Var(m)] = x
        BY <1>1, <1>6, <2>2 DEF MayPush
      <3>2. m # -l
        <4>1. PICK j \in 1 .. n : t2[j] = -m
          BY <1>1, <1>6, <2>1, <2>2, <3>1 DEF SupportedAt
        <4>2. QED
          BY <1>1, <1>4, <4>1, VarFacts
      <3>3. lev2[Var(m)] = x
        BY <1>7, <3>1, <3>2
      <3>4. QED
        BY <1>1, <1>6, <2>2, <3>1, <3>3
    <2>3. CASE i \in 1 .. n
      <3>1. PICK m \in rea[Var(t[i])] \ {t[i]} : lev[Var(m)] = lev[Var(t[i])]
        BY <1>1, <1>8, <2>3 DEF TrailSound, LevelSupported
      <3>2. PICK j \in 1 .. i - 1 : t2[j] = -m
        BY <1>1, <1>8, <2>1, <2>3, <3>1 DEF SupportedAt
      <3>3. j \in 1 .. n /\ t[j] = -m /\ m \in Literals
        <4>1. j \in 1 .. n
          BY <1>1, <2>3
        <4>2. Var(t[i]) \in Variables
          BY <1>4, <2>3, VarFacts
        <4>3. QED
          BY <1>1, <3>1, <3>2, <4>1, <4>2
      <3>4. m # l /\ m # -l
        BY <1>4, <3>3, VarFacts
      <3>5. QED
        BY <1>1, <1>7, <1>8, <2>3, <3>1, <3>3, <3>4
    <2>4. QED
      BY <1>1, <2>2, <2>3
  <1>15. ReasonsKept(t2, rea2, cs)
    <2> SUFFICES ASSUME NEW i \in 1 .. n + 1, Cardinality(rea2[Var(t2[i])]) > 2
                 PROVE  rea2[Var(t2[i])] \in cs
      BY <1>1 DEF ReasonsKept
    <2>1. CASE i = n + 1
      BY <1>1, <1>6, <2>1 DEF MayPush
    <2>2. CASE i \in 1 .. n
      BY <1>1, <1>8, <2>2 DEF TrailSound, ReasonsKept
    <2>3. QED
      BY <1>1, <2>1, <2>2
  <1>16. QuietBelow(R, t2, lim, cs)
    <2> SUFFICES ASSUME NEW d \in R .. Len(lim) - 1, NEW c \in cs
                 PROVE  QuietAt(t2, Height(t2, lim, d), c)
      BY DEF QuietBelow
    <2>1. d \in Nat /\ d < Len(lim) /\ QuietAt(t, Height(t, lim, d), c)
      BY <1>1 DEF TrailSound, QuietBelow
    <2>2. Height(t2, lim, d) = Height(t, lim, d) /\ Height(t, lim, d) <= n /\ Height(t, lim, d) \in Nat
      BY <1>2, <1>3, <2>1
    <2>3. \A i \in 1 .. Height(t, lim, d) : t2[i] = t[i]
      BY <1>1, <2>2
    <2>4. QED
      BY <2>1, <2>2, <2>3 DEF QuietAt, Open
  <1>17. QED
    BY <1>9, <1>10, <1>11, <1>12, <1>13, <1>14, <1>15, <1>16 DEF TrailSound

(***************************************************************************)
(* Opening a level, and changing the clauses.                              *)
(***************************************************************************)
Opened(t, lim, lim2) ==
    /\ Shaped(t, lim2) /\ Len(lim2) = Len(lim) + 1
    /\ \A d \in Nat : Height(t, lim2, d) = Height(t, lim, d)

LEMMA OpenHeights ==
    ASSUME NEW t, NEW lim, NEW lim2, Shaped(t, lim), lim2 = Append(lim, Len(t))
    PROVE  Opened(t, lim, lim2)
  <1> DEFINE k == Len(lim)
             n == Len(t)
  <1>1. /\ k \in Nat /\ n \in Nat /\ lim \in Seq(Nat) /\ DOMAIN lim = 1 .. k
        /\ lim2 \in Seq(Nat) /\ Len(lim2) = k + 1 /\ DOMAIN lim2 = 1 .. k + 1
        /\ lim2[k + 1] = n /\ \A i \in 1 .. k : lim2[i] = lim[i]
    BY DEF Shaped
  <1>2. /\ \A i \in 1 .. k : lim[i] \in Nat /\ lim[i] <= n
        /\ \A i, j \in 1 .. k : i < j => lim[i] <= lim[j]
    <2>1. \A i \in 1 .. k : lim[i] \in Nat
      BY <1>1
    <2>2. QED
      BY <1>1, <2>1 DEF Shaped
  <1>3. ASSUME NEW d \in Nat PROVE Height(t, lim2, d) = Height(t, lim, d)
    <2> HIDE DEF n, k
    <2>1. CASE d < k
      <3>1. d + 1 \in 1 .. k /\ d < k + 1
        BY <1>1, <2>1
      <3>2. QED
        BY <1>1, <2>1, <3>1 DEF Height, k
    <2>2. CASE d = k
      BY <1>1, <2>2 DEF Height, n, k
    <2>3. CASE d > k
      <3>1. ~(d < k) /\ ~(d < k + 1)
        BY <1>1, <2>3
      <3>2. QED
        BY <1>1, <3>1 DEF Height, k
    <2>4. QED
      BY <1>1, <2>1, <2>2, <2>3
  <1> HIDE DEF n, k
  <1>4. \A i \in 1 .. k + 1 : lim2[i] <= n
    <2>1. ASSUME NEW i \in 1 .. k + 1 PROVE lim2[i] <= n
      <3>1. i = k + 1 \/ i \in 1 .. k
        BY <1>1
      <3>2. QED
        BY <1>1, <1>2, <3>1
    <2>2. QED
      BY <2>1
  <1>5. ASSUME NEW i \in 1 .. k + 1, NEW j \in 1 .. k + 1, i < j PROVE lim2[i] <= lim2[j]
    <2>1. i \in 1 .. k /\ (j \in 1 .. k \/ j = k + 1)
      BY <1>1, <1>5
    <2>2. QED
      BY <1>1, <1>2, <1>5, <2>1
  <1>6. Shaped(t, lim2)
    BY <1>1, <1>4, <1>5 DEF Shaped, n
  <1>7. QED
    BY <1>1, <1>3, <1>6 DEF k, Opened

LEMMA OpenSound ==
    ASSUME NEW R \in Nat, NEW t, NEW lim, NEW lev \in [Variables -> Int], NEW rea, NEW cs, NEW lim2,
           problem \in Problems, Shaped(t, lim), TrailSound(R, t, lim, lev, rea, cs),
           lim2 = Append(lim, Len(t)),
           Len(lim) >= R => \A c \in cs : QuietAt(t, Len(t), c)
    PROVE  TrailSound(R, t, lim2, lev, rea, cs)
  <1>1. Len(lim2) = Len(lim) + 1 /\ \A d \in Nat : Height(t, lim2, d) = Height(t, lim, d)
    <2>1. Opened(t, lim, lim2)
      BY OpenHeights
    <2>2. QED
      BY <2>1 DEF Opened
  <1>2. Len(lim) \in Nat /\ Height(t, lim, Len(lim)) = Len(t)
    BY HeightFacts
  <1>3. \A i \in DOMAIN t : lev[Var(t[i])] \in Int
    BY HeightFacts, VarFacts
  <1>4. LevelsRight(t, lim2, lev)
    <2> SUFFICES ASSUME NEW i \in DOMAIN t, lev[Var(t[i])] # 0
                 PROVE  /\ lev[Var(t[i])] \in 1 .. Len(lim2)
                        /\ Height(t, lim2, lev[Var(t[i])] - 1) < i
                        /\ i <= Height(t, lim2, lev[Var(t[i])])
      BY DEF LevelsRight
    <2> DEFINE d == lev[Var(t[i])]
    <2>1. d \in 1 .. Len(lim) /\ Height(t, lim, d - 1) < i /\ i <= Height(t, lim, d)
      BY DEF TrailSound, LevelsRight
    <2> HIDE DEF d
    <2>2. d \in Nat /\ d - 1 \in Nat /\ d \in 1 .. Len(lim2)
      BY <1>1, <1>2, <2>1
    <2>3. QED
      BY <1>1, <2>1, <2>2 DEF d
  <1>5. FixedBelow(R, t, lim2, lev)
    BY <1>1 DEF TrailSound, FixedBelow
  <1>6. DecisionFirst(t, lim2, lev, rea)
    <2> SUFFICES ASSUME NEW i \in DOMAIN t, lev[Var(t[i])] > 0, rea[Var(t[i])] = {}
                 PROVE  i = Height(t, lim2, lev[Var(t[i])] - 1) + 1
      BY DEF DecisionFirst
    <2>1. i = Height(t, lim, lev[Var(t[i])] - 1) + 1
      BY DEF TrailSound, DecisionFirst
    <2>2. lev[Var(t[i])] - 1 \in Nat
      BY <1>3
    <2>3. QED
      BY <1>1, <2>1, <2>2
  <1>7. QuietBelow(R, t, lim2, cs)
    <2> SUFFICES ASSUME NEW d \in R .. Len(lim2) - 1, NEW c \in cs
                 PROVE  QuietAt(t, Height(t, lim, d), c)
      BY <1>1 DEF QuietBelow
    <2>1. d \in Nat /\ (d = Len(lim) \/ d \in R .. Len(lim) - 1)
      BY <1>1, <1>2
    <2>2. CASE d = Len(lim)
      BY <1>2, <2>2
    <2>3. CASE d \in R .. Len(lim) - 1
      BY <2>3 DEF TrailSound, QuietBelow
    <2>4. QED
      BY <2>1, <2>2, <2>3
  <1>8. QED
    BY <1>4, <1>5, <1>6, <1>7 DEF TrailSound

\* The clauses cs2 may take the place of cs.
MayReplace(R, t, lim, rea, cs, cs2) ==
    /\ \A i \in DOMAIN t :
          Cardinality(rea[Var(t[i])]) > 2 /\ rea[Var(t[i])] \in cs => rea[Var(t[i])] \in cs2
    /\ \A c \in cs2 : c \in cs \/ \A d \in R .. Len(lim) - 1 : QuietAt(t, Height(t, lim, d), c)

LEMMA ReplaceSound ==
    ASSUME NEW R, NEW t, NEW lim, NEW lev, NEW rea, NEW cs, NEW cs2,
           TrailSound(R, t, lim, lev, rea, cs), MayReplace(R, t, lim, rea, cs, cs2)
    PROVE  TrailSound(R, t, lim, lev, rea, cs2)
  <1>1. ReasonsKept(t, rea, cs2)
    BY DEF TrailSound, ReasonsKept, MayReplace
  <1>2. QuietBelow(R, t, lim, cs2)
    BY DEF TrailSound, QuietBelow, MayReplace
  <1>3. QED
    BY <1>1, <1>2 DEF TrailSound

(***************************************************************************)
(* The same steps, and what the clauses imply.                             *)
(***************************************************************************)
LEMMA CutMeaning ==
    ASSUME NEW R \in Nat, NEW sols, NEW answers, NEW t, NEW lim, NEW lev, NEW rea, NEW cs,
           NEW t2, NEW lim2, NEW rea2, NEW b \in Nat,
           Shaped(t, lim), Shaped(t2, lim2), CutTo(t, lim, t2, lim2, b),
           \A i \in 1 .. Len(t2) : rea2[Var(t[i])] = rea[Var(t[i])],
           MeaningSound(R, sols, answers, t, lim, lev, rea, cs)
    PROVE  MeaningSound(R, sols, answers, t2, lim2, lev, rea2, cs)
  <1>1. /\ Len(t) \in Nat /\ Len(t2) \in Nat /\ DOMAIN t = 1 .. Len(t) /\ DOMAIN t2 = 1 .. Len(t2)
    BY HeightFacts
  <1>2. /\ Len(t2) <= Len(t)
        /\ \A d \in Nat : d <= b => Height(t2, lim2, d) = Height(t, lim, d)
        /\ \A d \in Nat : d >= b => Height(t2, lim2, d) = Len(t2)
    BY CutHeights
  <1>3. /\ \A d \in Nat : Height(t, lim, d) \in Nat /\ Height(t, lim, d) <= Len(t)
        /\ \A d, e \in Nat : d <= e => Height(t, lim, d) <= Height(t, lim, e)
    BY HeightFacts
  <1>4. /\ \A i \in 1 .. Len(t2) : i \in 1 .. Len(t)
        /\ \A i \in 1 .. Len(t2) : t2[i] = t[i]
        /\ \A i \in 1 .. Len(t2) : rea2[Var(t[i])] = rea[Var(t[i])]
    <2>1. \A i \in 1 .. Len(t2) : i \in 1 .. Len(t)
      BY <1>1, <1>2
    <2>2. \A i \in 1 .. Len(t2) : t2[i] = t[i]
      BY DEF CutTo
    <2>3. QED
      BY <2>1, <2>2
  <1>5. Height(t2, lim2, R) \in Nat /\ Height(t2, lim2, R) <= Len(t2)
    BY HeightFacts
  <1>6. Height(t2, lim2, R) <= Height(t, lim, R)
    <2>1. CASE R <= b
      BY <1>2, <1>3, <2>1
    <2>2. CASE b <= R
      <3>1. Height(t2, lim2, R) = Height(t, lim, b)
        BY <1>2, <2>2 DEF CutTo
      <3>2. QED
        BY <1>3, <2>2, <3>1
    <2>3. QED
      BY <2>1, <2>2
  <1>7. \A i \in 1 .. Height(t2, lim2, R) : i \in 1 .. Len(t2) /\ i \in 1 .. Height(t, lim, R)
    <2>1. Height(t, lim, R) \in Nat
      BY <1>3
    <2>2. QED
      BY <1>1, <1>5, <1>6, <2>1
  <1>8. \A i \in 1 .. Height(t2, lim2, R) : Entailed(answers, {t2[i]})
    BY <1>4, <1>7 DEF MeaningSound
  <1>9. ASSUME NEW i \in DOMAIN t2
        PROVE  /\ rea2[Var(t2[i])] # {} => Entailed(sols, rea2[Var(t2[i])])
               /\ lev[Var(t2[i])] = 0 => Entailed(sols, {t2[i]})
    <2>1. i \in DOMAIN t /\ t2[i] = t[i] /\ rea2[Var(t2[i])] = rea[Var(t[i])]
      BY <1>1, <1>4
    <2>2. /\ rea[Var(t[i])] # {} => Entailed(sols, rea[Var(t[i])])
          /\ lev[Var(t[i])] = 0 => Entailed(sols, {t[i]})
      BY <2>1 DEF MeaningSound
    <2>3. QED
      BY <2>1, <2>2
  <1>10. \A c \in cs : Entailed(sols, c)
    BY DEF MeaningSound
  <1>11. QED
    BY <1>8, <1>9, <1>10 DEF MeaningSound

\* What is claimed by assigning l at level x for the reason why is implied.
MayClaim(R, sols, answers, lim, l, x, why) ==
    /\ why # {} => Entailed(sols, why)
    /\ x = 0 => Entailed(sols, {l})
    /\ Len(lim) <= R => Entailed(answers, {l})

LEMMA PushMeaning ==
    ASSUME NEW R \in Nat, NEW sols, NEW answers, NEW t, NEW lim, NEW lev \in [Variables -> Int],
           NEW rea \in [Variables -> SUBSET Literals], NEW cs,
           NEW l \in Literals, NEW x \in Nat, NEW why \in SUBSET Literals,
           NEW t2, NEW lev2, NEW rea2,
           problem \in Problems, Shaped(t, lim), Open(t, Len(t), l),
           Pushed(t, lev, rea, l, x, why, t2, lev2, rea2),
           MayClaim(R, sols, answers, lim, l, x, why),
           MeaningSound(R, sols, answers, t, lim, lev, rea, cs)
    PROVE  MeaningSound(R, sols, answers, t2, lim, lev2, rea2, cs)
  <1> DEFINE n == Len(t)
  <1>0. Grown(t, lim, l, t2)
    <2>1. t2 = Append(t, l)
      BY DEF Pushed
    <2>2. QED
      BY <2>1, PushHeights
  <1>1. /\ n \in Nat /\ DOMAIN t = 1 .. n /\ Len(lim) \in Nat
        /\ DOMAIN t2 = 1 .. n + 1 /\ t2[n + 1] = l /\ \A i \in 1 .. n : t2[i] = t[i]
    <2>1. n \in Nat /\ DOMAIN t = 1 .. n /\ Len(lim) \in Nat
      BY HeightFacts
    <2>2. QED
      BY <1>0, <2>1 DEF Grown
  <1>2. R < Len(lim) => Height(t2, lim, R) = Height(t, lim, R)
    BY <1>0 DEF Grown
  <1>3. R >= Len(lim) => Height(t2, lim, R) = n + 1 /\ Height(t, lim, R) = n
    <2>1. R >= Len(lim) => Height(t, lim, R) = n
      BY HeightFacts
    <2>2. QED
      BY <1>0, <2>1 DEF Grown
  <1>4. \A i \in 1 .. n : t[i] \in Literals /\ t[i] # l /\ t[i] # -l
    BY <1>1, HeightFacts DEF Open
  <1>5. lev2[Var(l)] = x /\ rea2[Var(l)] = why
    <2>1. Var(l) \in Variables
      BY VarFacts
    <2>2. QED
      BY <2>1 DEF Pushed
  <1>6. \A i \in 1 .. n : lev2[Var(t2[i])] = lev[Var(t[i])] /\ rea2[Var(t2[i])] = rea[Var(t[i])]
    <2>1. \A i \in 1 .. n : Var(t[i]) # Var(l) /\ Var(t[i]) \in Variables
      BY <1>4, VarFacts
    <2>2. QED
      BY <1>1, <2>1 DEF Pushed
  <1>7. Height(t, lim, R) \in Nat /\ Height(t, lim, R) <= n
    BY HeightFacts
  <1> HIDE DEF n
  <1>8. ASSUME NEW i \in 1 .. n + 1, rea2[Var(t2[i])] # {} PROVE Entailed(sols, rea2[Var(t2[i])])
    <2>1. CASE i = n + 1
      BY <1>1, <1>5, <1>8, <2>1 DEF MayClaim
    <2>2. CASE i \in 1 .. n
      BY <1>1, <1>6, <1>8, <2>2 DEF MeaningSound
    <2>3. QED
      BY <1>1, <2>1, <2>2
  <1>9. ASSUME NEW i \in 1 .. n + 1, lev2[Var(t2[i])] = 0 PROVE Entailed(sols, {t2[i]})
    <2>1. CASE i = n + 1
      BY <1>1, <1>5, <1>9, <2>1 DEF MayClaim
    <2>2. CASE i \in 1 .. n
      BY <1>1, <1>6, <1>9, <2>2 DEF MeaningSound
    <2>3. QED
      BY <1>1, <2>1, <2>2
  <1>10. ASSUME NEW i \in 1 .. Height(t2, lim, R) PROVE Entailed(answers, {t2[i]})
    <2>1. CASE R < Len(lim)
      <3>1. i \in 1 .. Height(t, lim, R) /\ i \in 1 .. n
        BY <1>1, <1>2, <1>7, <2>1
      <3>2. QED
        BY <1>1, <3>1 DEF MeaningSound
    <2>2. CASE R >= Len(lim)
      <3>1. i \in 1 .. n + 1
        BY <1>3, <2>2
      <3>2. CASE i = n + 1
        BY <1>1, <2>2, <3>2 DEF MayClaim
      <3>3. CASE i \in 1 .. n
        BY <1>1, <1>3, <2>2, <3>3 DEF MeaningSound
      <3>4. QED
        BY <1>1, <3>1, <3>2, <3>3
    <2>3. QED
      BY <1>1, <2>1, <2>2
  <1>11. QED
    BY <1>1, <1>8, <1>9, <1>10 DEF MeaningSound

LEMMA OpenMeaning ==
    ASSUME NEW R \in Nat, NEW sols, NEW answers, NEW t, NEW lim, NEW lev, NEW rea, NEW cs, NEW lim2,
           Shaped(t, lim), lim2 = Append(lim, Len(t)),
           MeaningSound(R, sols, answers, t, lim, lev, rea, cs)
    PROVE  MeaningSound(R, sols, answers, t, lim2, lev, rea, cs)
  <1>1. Height(t, lim2, R) = Height(t, lim, R)
    <2>1. Opened(t, lim, lim2)
      BY OpenHeights
    <2>2. QED
      BY <2>1 DEF Opened
  <1>2. QED
    BY <1>1 DEF MeaningSound

LEMMA ReplaceMeaning ==
    ASSUME NEW R, NEW sols, NEW answers, NEW t, NEW lim, NEW lev, NEW rea, NEW cs, NEW cs2,
           MeaningSound(R, sols, answers, t, lim, lev, rea, cs),
           \A c \in cs2 : c \in cs \/ Entailed(sols, c)
    PROVE  MeaningSound(R, sols, answers, t, lim, lev, rea, cs2)
  BY DEF MeaningSound

(***************************************************************************)
(* The trail of the solver: what is true and false, and where it stands.   *)
(***************************************************************************)
LEMMA TruthOnTrail ==
    ASSUME TrailTyped
    PROVE  /\ Len(trail) \in Nat /\ DOMAIN trail = 1 .. Len(trail)
           /\ \A l : IsTrue(l) <=> \E i \in 1 .. Len(trail) : trail[i] = l
           /\ \A l : IsFalse(l) <=> \E i \in 1 .. Len(trail) : trail[i] = -l
  <1>1. Len(trail) \in Nat /\ DOMAIN trail = 1 .. Len(trail)
    BY DEF TrailTyped
  <1>2. QED
    BY <1>1, ElementsOf DEF IsTrue, IsFalse

LEMMA OpenIsUndef ==
    ASSUME TrailTyped, NEW l
    PROVE  IsUndef(l) <=> Open(trail, Len(trail), l)
  BY TruthOnTrail DEF IsUndef, Open

\* When nothing is left to propagate, no clause is unit or false.
LEMMA QuietNow ==
    ASSUME TrailTyped, Quiescent
    PROVE  \A c \in ClauseDatabase : QuietAt(trail, Len(trail), c)
  <1> SUFFICES ASSUME NEW c \in ClauseDatabase PROVE QuietAt(trail, Len(trail), c)
    OBVIOUS
  <1>1. CASE \E l \in c : IsTrue(l)
    BY <1>1, TruthOnTrail DEF QuietAt
  <1>2. CASE \A l \in c : ~IsTrue(l)
    <2>1. ~Falsified(c) /\ \A l \in c : ~UnitLiteral(c, l)
      BY DEF Quiescent
    <2>2. PICK l \in c : IsUndef(l)
      BY <1>2, <2>1 DEF Falsified, IsUndef
    <2>3. PICK m \in c \ {l} : IsUndef(m)
      BY <1>2, <2>1, <2>2 DEF UnitLiteral, IsUndef
    <2>4. QED
      BY <2>2, <2>3, OpenIsUndef DEF QuietAt
  <1>3. QED
    BY <1>1, <1>2

\* The literals of the current level stand at the end of the trail.
LEMMA TopOfTrail ==
    ASSUME problem \in Problems, TrailTyped, TrailInv
    PROVE  /\ \A i \in 1 .. Len(trail) :
                 /\ trail[i] \in Literals
                 /\ level[Var(trail[i])] \in 0 .. DecisionLevel
                 /\ level[Var(trail[i])] > 0 =>
                       /\ Height(trail, trail_lim, level[Var(trail[i])] - 1) < i
                       /\ i <= Height(trail, trail_lim, level[Var(trail[i])])
           /\ DecisionLevel > RootLevel =>
                 \A i \in 1 .. Len(trail) :
                    level[Var(trail[i])] = DecisionLevel
                       <=> Height(trail, trail_lim, DecisionLevel - 1) < i
  <1> DEFINE h(d) == Height(trail, trail_lim, d)
             D == DecisionLevel
             R == RootLevel
  <1>1. Shaped(trail, trail_lim)
    BY TrailShaped
  <1>2. R \in Nat /\ D \in Nat /\ D = Len(trail_lim) /\ DOMAIN trail = 1 .. Len(trail) /\ Len(trail) \in Nat
    BY <1>1, HeightFacts, ProblemTyped DEF DecisionLevel
  <1>3. /\ \A d \in Nat : h(d) \in Nat /\ h(d) <= Len(trail)
        /\ \A d, e \in Nat : d <= e => h(d) <= h(e)
    BY <1>1, HeightFacts
  <1>4. ASSUME NEW i \in 1 .. Len(trail)
        PROVE  /\ trail[i] \in Literals
               /\ level[Var(trail[i])] \in 0 .. D
               /\ level[Var(trail[i])] > 0 =>
                     h(level[Var(trail[i])] - 1) < i /\ i <= h(level[Var(trail[i])])
    <2>1. trail[i] \in Literals
      BY <1>1, <1>2, HeightFacts
    <2>2. level[Var(trail[i])] \in Int
      BY <2>1, VarFacts DEF TrailTyped
    <2>3. \/ level[Var(trail[i])] = 0
          \/ level[Var(trail[i])] \in 1 .. D
             /\ h(level[Var(trail[i])] - 1) < i /\ i <= h(level[Var(trail[i])])
      BY <1>2 DEF TrailInv, TrailSound, LevelsRight
    <2> HIDE DEF h, D
    <2>4. QED
      BY <1>2, <2>1, <2>2, <2>3
  <1>5. ASSUME D > R, NEW i \in 1 .. Len(trail)
        PROVE  level[Var(trail[i])] = D <=> h(D - 1) < i
    <2> DEFINE d == level[Var(trail[i])]
    <2> SUFFICES d = D <=> h(D - 1) < i
      OBVIOUS
    <2>1. d \in 0 .. D /\ (d > 0 => h(d - 1) < i /\ i <= h(d))
      BY <1>4
    <2>2. d = 0 => i <= h(R)
      BY <1>2 DEF TrailInv, TrailSound, FixedBelow
    <2> HIDE DEF h, D, R, d
    <2>3. D - 1 \in Nat /\ R <= D - 1
      BY <1>2, <1>5
    <2>4. h(R) <= h(D - 1) /\ h(R) \in Nat /\ h(D - 1) \in Nat
      BY <1>2, <1>3, <2>3
    <2>5. CASE d = 0
      BY <1>2, <1>5, <2>2, <2>4, <2>5
    <2>6. CASE d > 0 /\ d < D
      <3>1. d \in Nat /\ d <= D - 1 /\ i <= h(d)
        BY <1>2, <2>1, <2>6
      <3>2. h(d) <= h(D - 1) /\ h(d) \in Nat
        BY <1>3, <2>3, <3>1
      <3>3. QED
        BY <2>4, <2>6, <3>1, <3>2
    <2>7. CASE d = D
      BY <1>2, <1>5, <2>1, <2>7
    <2>8. QED
      BY <1>2, <2>1, <2>5, <2>6, <2>7
  <1>6. QED
    BY <1>4, <1>5

\* Above the assumptions, a clause without a true literal had two literals left when
\* the current level was opened.
LEMMA TwoAtTheTop ==
    ASSUME problem \in Problems, TrailTyped, TrailInv, DecisionLevel > RootLevel,
           NEW c \in ClauseDatabase, \A l \in c : ~IsTrue(l)
    PROVE  \E l, m \in c : /\ l # m
                           /\ IsFalse(l) => level[Var(-l)] = DecisionLevel
                           /\ IsFalse(m) => level[Var(-m)] = DecisionLevel
  <1> DEFINE h == Height(trail, trail_lim, DecisionLevel - 1)
  <1>1. RootLevel \in Nat /\ DecisionLevel \in Nat /\ DecisionLevel = Len(trail_lim)
    BY TrailShaped, HeightFacts, ProblemTyped DEF DecisionLevel
  <1>2. DecisionLevel - 1 \in RootLevel .. Len(trail_lim) - 1 /\ DecisionLevel - 1 \in Nat
    BY <1>1
  <1>3. QuietAt(trail, h, c)
    BY <1>2 DEF TrailInv, TrailSound, QuietBelow
  <1>4. h \in Nat /\ h <= Len(trail) /\ Len(trail) \in Nat
    BY <1>2, TrailShaped, HeightFacts
  <1> HIDE DEF h
  <1>5. \A i \in 1 .. h : i \in 1 .. Len(trail)
    BY <1>4
  <1>6. PICK l \in c, m \in c : l # m /\ Open(trail, h, l) /\ Open(trail, h, m)
    BY <1>3, <1>5, TruthOnTrail DEF QuietAt
  <1>7. ASSUME NEW k, IsFalse(k), Open(trail, h, k) PROVE level[Var(-k)] = DecisionLevel
    <2>1. PICK i \in 1 .. Len(trail) : trail[i] = -k
      BY <1>7, TruthOnTrail
    <2>2. ~(i \in 1 .. h)
      BY <1>7, <2>1 DEF Open
    <2>3. h < i
      BY <1>4, <2>2
    <2>4. level[Var(trail[i])] = DecisionLevel
      BY <2>3, TopOfTrail DEF h
    <2>5. QED
      BY <2>1, <2>4
  <1>8. QED
    BY <1>6, <1>7

\* No literal is true and false.
LEMMA NotBoth ==
    ASSUME problem \in Problems, TrailTyped, TrailInv, NEW l \in Literals
    PROVE  ~(IsTrue(l) /\ IsFalse(l))
  <1> SUFFICES ASSUME IsTrue(l), IsFalse(l) PROVE FALSE
    OBVIOUS
  <1>1. PICK i \in 1 .. Len(trail) : trail[i] = l
    BY TruthOnTrail
  <1>2. PICK j \in 1 .. Len(trail) : trail[j] = -l
    BY TruthOnTrail
  <1>3. i # j /\ l = -(-l)
    BY <1>1, <1>2, VarFacts
  <1>4. QED
    BY <1>1, <1>2, <1>3, TruthOnTrail DEF TrailInv, TrailSound, AssignedOnce

(***************************************************************************)
(* Conflict analysis (Solver.cpp:237-320).                                 *)
(***************************************************************************)
LEMMA Singletons ==
    ASSUME problem \in Problems, NEW S \in SUBSET Literals
    PROVE  IsFiniteSet(S) /\ (Cardinality(S) = 1 <=> \E x : S = {x})
  <1>1. IsFiniteSet(-problem.vars .. problem.vars)
    <2>1. -problem.vars \in Int /\ problem.vars \in Int
      BY ProblemTyped
    <2>2. QED
      BY <2>1, FS_Interval
  <1>2. S \in SUBSET (-problem.vars .. problem.vars)
    BY DEF Literals
  <1>3. IsFiniteSet(S)
    BY <1>1, <1>2, FS_Subset
  <1>4. QED
    BY <1>3, FS_Singleton

LEMMA SolutionFacts ==
    ASSUME problem \in Problems, NEW a \in Solutions, NEW l \in Literals
    PROVE  ~(l \in a /\ -l \in a)
  <1>1. PICK chosen \in SUBSET Variables : a = {IF v \in chosen THEN v ELSE -v : v \in Variables}
    BY DEF Solutions, Assignments
  <1>2. SUFFICES ASSUME l \in a, -l \in a PROVE FALSE
    OBVIOUS
  <1>3. PICK v \in Variables : l = IF v \in chosen THEN v ELSE -v
    BY <1>1, <1>2
  <1>4. PICK w \in Variables : -l = IF w \in chosen THEN w ELSE -w
    BY <1>1, <1>2
  <1>5. Var(v) = v /\ Var(-v) = v /\ Var(w) = w /\ Var(-w) = w /\ Var(-l) = Var(l)
    BY LiteralFacts, VarFacts
  <1>6. v = w
    BY <1>3, <1>4, <1>5
  <1>7. -l = l
    BY <1>3, <1>4, <1>6
  <1>8. QED
    BY <1>7, VarFacts

\* What is false for good is in no solution.
LEMMA FixedFalse ==
    ASSUME problem \in Problems, TrailTyped, MeaningInv,
           NEW l \in Literals, IsFalse(l), level[Var(l)] = 0, NEW a \in Solutions
    PROVE  l \notin a
  <1>1. PICK i \in 1 .. Len(trail) : trail[i] = -l
    BY TruthOnTrail
  <1>2. i \in DOMAIN trail /\ level[Var(trail[i])] = 0
    BY <1>1, TruthOnTrail, VarFacts
  <1>3. Entailed(Solutions, {trail[i]})
    BY <1>2 DEF MeaningInv, MeaningSound
  <1>4. -l \in a
    BY <1>1, <1>3 DEF Entailed
  <1>5. QED
    BY <1>4, SolutionFacts

\* The clause c, at some point of the analysis: it is implied and false, and its
\* literals of the current level, if there is more than one, are among the first k
\* of the trail.
Analysed(c, k) ==
    /\ c \in SUBSET Literals
    /\ \A m \in c : IsFalse(m) /\ level[Var(m)] > 0
    /\ Entailed(Solutions, c)
    /\ AtCurrentLevel(c) # {}
    /\ \/ Cardinality(AtCurrentLevel(c)) = 1
       \/ \A m \in AtCurrentLevel(c) : \E j \in 1 .. k : trail[j] = -m

LEMMA ConflictAnalysed ==
    ASSUME problem \in Problems, ClausesTyped, TrailTyped, TrailInv, MeaningInv,
           DecisionLevel > RootLevel, NEW confl \in ClauseDatabase, Falsified(confl)
    PROVE  Analysed(AboveRoot(confl), Len(trail))
  <1> DEFINE c == AboveRoot(confl)
  <1>1. confl \in SUBSET Literals /\ \A m \in confl : IsFalse(m)
    BY DEF ClausesTyped, ClauseDatabase, Falsified
  <1>2. ASSUME NEW m \in confl
        PROVE  \E i \in 1 .. Len(trail) :
                  trail[i] = -m /\ level[Var(m)] = level[Var(trail[i])] /\ level[Var(m)] \in 0 .. DecisionLevel
    <2>1. PICK i \in 1 .. Len(trail) : trail[i] = -m
      BY <1>1, TruthOnTrail
    <2>2. Var(trail[i]) = Var(m)
      BY <1>1, <2>1, VarFacts
    <2>3. level[Var(trail[i])] \in 0 .. DecisionLevel
      BY TopOfTrail
    <2>4. QED
      BY <2>1, <2>2, <2>3
  <1>3. DecisionLevel \in Nat /\ DecisionLevel > 0
    BY ProblemTyped DEF DecisionLevel, TrailTyped, LevelsTyped
  <1>4. \A m \in confl : level[Var(m)] # 0 => m \in c /\ level[Var(m)] > 0
    BY <1>2, <1>3 DEF AboveRoot
  <1>5. c \subseteq confl /\ \A m \in c : level[Var(m)] > 0
    BY DEF AboveRoot
  <1> HIDE DEF c
  <1>6. ASSUME NEW a \in Solutions PROVE c \cap a # {}
    <2>1. PICK x \in confl : x \in a
      BY DEF MeaningInv, MeaningSound, Entailed
    <2>2. level[Var(x)] # 0
      BY <1>1, <2>1, FixedFalse
    <2>3. QED
      BY <1>4, <2>1, <2>2
  <1>7. AtCurrentLevel(c) # {}
    <2>1. \A l \in confl : ~IsTrue(l)
      BY <1>1, NotBoth
    <2>2. PICK l \in confl : IsFalse(l) => level[Var(-l)] = DecisionLevel
      BY <2>1, TwoAtTheTop
    <2>3. level[Var(l)] = DecisionLevel /\ level[Var(l)] # 0
      BY <1>1, <1>3, <2>2, VarFacts
    <2>4. QED
      BY <1>4, <2>3 DEF AtCurrentLevel
  <1>8. \A m \in AtCurrentLevel(c) : \E j \in 1 .. Len(trail) : trail[j] = -m
    BY <1>1, <1>5, TruthOnTrail DEF AtCurrentLevel
  <1>9. QED
    BY <1>1, <1>5, <1>6, <1>7, <1>8 DEF Analysed, Entailed, c

LEMMA ResolvedAnalysed ==
    ASSUME problem \in Problems, TrailTyped, TrailInv, MeaningInv, DecisionLevel > RootLevel,
           NEW i \in 1 .. Len(trail), NEW c, Analysed(c, Len(trail) + 1 - i)
    PROVE  Analysed(Resolved(i, c), Len(trail) - i)
  <1> DEFINE n == Len(trail)
             k == n + 1 - i
             p == trail[k]
             r == reason[Var(p)]
             A == AtCurrentLevel(c)
             D == DecisionLevel
             h == Height(trail, trail_lim, D - 1)
             c2 == (c \ {-p}) \cup AboveRoot(r \ {p})
  <1>1. /\ n \in Nat /\ k \in 1 .. n /\ n - i = k - 1 /\ k - 1 \in Nat /\ D \in Nat /\ D > 0 /\ h \in Nat
    <2>1. n \in Nat /\ RootLevel \in Nat /\ D \in Nat
      BY ProblemTyped DEF TrailTyped, LevelsTyped, DecisionLevel
    <2>2. D - 1 \in Nat
      BY <2>1
    <2>3. h \in Nat
      BY <2>2, TrailShaped, HeightFacts
    <2>4. QED
      BY <2>1, <2>3
  <1>2. Resolved(i, c) = IF -p \notin c \/ Cardinality(A) = 1 THEN c ELSE c2
    BY DEF Resolved
  <1>3. /\ c \in SUBSET Literals /\ (\A m \in c : IsFalse(m) /\ level[Var(m)] > 0)
        /\ Entailed(Solutions, c) /\ A # {} /\ A \in SUBSET Literals
        /\ (Cardinality(A) = 1 \/ \A m \in A : \E j \in 1 .. k : trail[j] = -m)
        /\ \A m : m \in A <=> m \in c /\ level[Var(m)] = D
    BY DEF Analysed, AtCurrentLevel
  <1>4. p \in Literals /\ \A j \in 1 .. n : trail[j] \in Literals
    BY <1>1, TopOfTrail
  <1>5. \A m \in Literals : -(-m) = m /\ Var(-m) = Var(m)
    BY VarFacts
  <1> HIDE DEF n, k, A, D, h, c2
  <1>6. CASE Cardinality(A) = 1
    <2>1. Resolved(i, c) = c
      BY <1>2, <1>6
    <2>2. QED
      BY <1>3, <1>6, <2>1 DEF Analysed, A
  <1>7. CASE Cardinality(A) # 1 /\ -p \notin c
    <2>1. Resolved(i, c) = c
      BY <1>2, <1>7
    <2>2. ASSUME NEW m \in A PROVE \E j \in 1 .. k - 1 : trail[j] = -m
      <3>1. PICK j \in 1 .. k : trail[j] = -m
        BY <1>3, <1>7
      <3>2. -p = m \/ j # k
        BY <1>3, <1>5, <3>1
      <3>3. j # k
        BY <1>3, <1>7, <3>2
      <3>4. QED
        BY <1>1, <3>1, <3>3
    <2>3. QED
      BY <1>1, <1>3, <2>1, <2>2 DEF Analysed, A, n
  <1>8. CASE Cardinality(A) # 1 /\ -p \in c
    <2>1. Resolved(i, c) = c2
      BY <1>2, <1>8
    <2>2. \A m \in A : \E j \in 1 .. k : trail[j] = -m
      BY <1>3, <1>8
    <2>3. \A j \in 1 .. n : level[Var(trail[j])] = D <=> h < j
      BY TopOfTrail DEF D, h, n
    <2>4. ASSUME NEW m \in A, NEW j \in 1 .. k, trail[j] = -m PROVE h < j
      <3>1. Var(trail[j]) = Var(m) /\ j \in 1 .. n
        BY <1>1, <1>3, <1>5, <2>4
      <3>2. QED
        BY <1>3, <2>3, <3>1
    <2>5. h < k
      <3>1. PICK m \in A : TRUE
        BY <1>3
      <3>2. PICK j \in 1 .. k : trail[j] = -m
        BY <2>2
      <3>3. QED
        BY <1>1, <2>4, <3>2
    <2>6. level[Var(p)] = D /\ -p \in A
      BY <1>1, <1>3, <1>4, <1>5, <1>8, <2>3, <2>5
    <2>7. PICK m1 \in A : m1 # -p
      <3>1. A # {-p}
        BY <1>3, <1>8, Singletons
      <3>2. QED
        BY <1>3, <3>1
    <2>8. PICK j1 \in 1 .. k : trail[j1] = -m1
      BY <2>2
    <2>9. h < j1 /\ j1 < k
      <3>1. j1 # k
        BY <1>3, <1>5, <2>7, <2>8
      <3>2. QED
        BY <1>1, <2>4, <2>8, <3>1
    <2>10. r # {}
      <3>1. SUFFICES ASSUME r = {} PROVE FALSE
        OBVIOUS
      <3>2. k \in DOMAIN trail
        BY <1>1, TruthOnTrail DEF n
      <3>3. k = Height(trail, trail_lim, level[Var(p)] - 1) + 1
        BY <1>1, <2>6, <3>1, <3>2 DEF TrailInv, TrailSound, DecisionFirst
      <3>4. k = h + 1
        BY <2>6, <3>3 DEF h
      <3>5. QED
        BY <1>1, <2>9, <3>4
    <2>11. /\ p \in r /\ \A m \in r \ {p} : \E j \in 1 .. k - 1 : trail[j] = -m
           /\ Entailed(Solutions, r) /\ r \in SUBSET Literals
      <3>1. k \in DOMAIN trail
        BY <1>1, TruthOnTrail DEF n
      <3>2. SupportedAt(trail, k, r)
        BY <2>10, <3>1 DEF TrailInv, TrailSound, Supported
      <3>3. Entailed(Solutions, r)
        BY <2>10, <3>1 DEF MeaningInv, MeaningSound
      <3>4. r \in SUBSET Literals
        BY <1>4, VarFacts DEF TrailTyped
      <3>5. QED
        BY <3>2, <3>3, <3>4 DEF SupportedAt
    <2>12. \A m \in r \ {p} : IsFalse(m) /\ level[Var(m)] \in 0 .. D
      <3>1. ASSUME NEW m \in r \ {p} PROVE IsFalse(m) /\ level[Var(m)] \in 0 .. D
        <4>1. PICK j \in 1 .. k - 1 : trail[j] = -m
          BY <2>11
        <4>2. j \in 1 .. n /\ Var(trail[j]) = Var(m)
          BY <1>1, <1>5, <2>11, <4>1
        <4>3. level[Var(trail[j])] \in 0 .. D
          BY <4>2, TopOfTrail DEF n, D
        <4>4. QED
          BY <4>1, <4>2, <4>3, TruthOnTrail DEF n
      <3>2. QED
        BY <3>1
    <2>13. /\ c2 \in SUBSET Literals
           /\ \A m \in c2 : m \in c \ {-p} \/ (m \in r \ {p} /\ level[Var(m)] > 0)
           /\ \A m \in c : m # -p => m \in c2
           /\ \A m \in r : m # p /\ level[Var(m)] > 0 => m \in c2
      BY <1>3, <2>11 DEF c2, AboveRoot
    <2>14. \A m \in c2 : IsFalse(m) /\ level[Var(m)] > 0
      BY <1>3, <2>12, <2>13
    <2>15. ASSUME NEW a \in Solutions PROVE c2 \cap a # {}
      <3>1. PICK x \in c : x \in a
        BY <1>3 DEF Entailed
      <3>2. CASE x # -p
        BY <2>13, <3>1, <3>2
      <3>3. CASE x = -p
        <4>1. p \notin a
          BY <1>4, <3>1, <3>3, SolutionFacts
        <4>2. PICK y \in r : y \in a
          BY <2>11 DEF Entailed
        <4>3. y # p /\ y \in Literals
          BY <2>11, <4>1, <4>2
        <4>4. level[Var(y)] # 0
          BY <2>12, <4>2, <4>3, FixedFalse
        <4>5. level[Var(y)] > 0
          BY <1>1, <2>12, <4>2, <4>3, <4>4
        <4>6. QED
          BY <2>13, <4>2, <4>3, <4>5
      <3>4. QED
        BY <3>2, <3>3
    <2>16. AtCurrentLevel(c2) # {}
      BY <1>3, <2>7, <2>13 DEF AtCurrentLevel, D
    <2>17. ASSUME NEW m \in AtCurrentLevel(c2) PROVE \E j \in 1 .. k - 1 : trail[j] = -m
      <3>1. m \in c2 /\ level[Var(m)] = D
        BY DEF AtCurrentLevel, D
      <3>2. CASE m \in c \ {-p}
        <4>1. PICK j \in 1 .. k : trail[j] = -m
          BY <1>3, <2>2, <3>1, <3>2
        <4>2. j # k
          BY <1>3, <1>5, <3>2, <4>1
        <4>3. QED
          BY <1>1, <4>1, <4>2
      <3>3. CASE m \in r \ {p}
        BY <2>11, <3>3
      <3>4. QED
        BY <2>13, <3>1, <3>2, <3>3
    <2>18. Analysed(c2, k - 1)
      BY <2>13, <2>14, <2>15, <2>16, <2>17 DEF Analysed, Entailed
    <2>19. QED
      BY <1>1, <2>1, <2>18 DEF n
  <1>9. QED
    BY <1>6, <1>7, <1>8

LEMMA FirstUIPAnalysed ==
    ASSUME problem \in Problems, ClausesTyped, TrailTyped, TrailInv, MeaningInv,
           DecisionLevel > RootLevel, NEW confl \in ClauseDatabase, Falsified(confl)
    PROVE  /\ Analysed(FirstUIP(confl), 0)
           /\ \E l : AtCurrentLevel(FirstUIP(confl)) = {l}
  <1> DEFINE n == Len(trail)
  <1>1. confl \in SUBSET Literals /\ n \in Nat
    BY DEF ClausesTyped, ClauseDatabase, TrailTyped
  <1>2. PICK back \in [0 .. n -> SUBSET Literals] :
              /\ back[0] = AboveRoot(confl)
              /\ \A i \in 1 .. n : back[i] = Resolved(i, back[i - 1])
              /\ FirstUIP(confl) = back[n]
    BY <1>1, FirstUIPRuns
  <1> DEFINE P == {k \in Nat : k <= n => Analysed(back[k], n - k)}
  <1>3. 0 \in P
    <2>1. n - 0 = n
      BY <1>1
    <2>2. Analysed(back[0], n - 0)
      BY <1>2, <2>1, ConflictAnalysed
    <2>3. QED
      BY <2>2
  <1>4. ASSUME NEW k \in P PROVE k + 1 \in P
    <2> SUFFICES ASSUME k + 1 <= n PROVE Analysed(back[k + 1], n - (k + 1))
      OBVIOUS
    <2>1. /\ k \in Nat /\ k <= n /\ k + 1 \in 1 .. n /\ (k + 1) - 1 = k
          /\ n + 1 - (k + 1) = n - k
      BY <1>1
    <2>2. Analysed(back[k], n + 1 - (k + 1))
      BY <2>1
    <2>3. back[k + 1] = Resolved(k + 1, back[k])
      BY <1>2, <2>1
    <2> HIDE DEF P
    <2>4. QED
      BY <2>1, <2>2, <2>3, ResolvedAnalysed
  <1>5. P = Nat
    <2>1. P \in SUBSET Nat
      OBVIOUS
    <2> HIDE DEF P
    <2>2. QED
      BY <1>3, <1>4, <2>1, InductionOverNat
  <1>6. Analysed(back[n], 0)
    <2>1. n - n = 0 /\ n <= n
      BY <1>1
    <2>2. n \in P
      BY <1>1, <1>5
    <2>3. QED
      BY <2>1, <2>2
  <1>7. Analysed(FirstUIP(confl), 0)
    BY <1>2, <1>6
  <1>8. /\ FirstUIP(confl) \in SUBSET Literals /\ AtCurrentLevel(FirstUIP(confl)) # {}
        /\ Cardinality(AtCurrentLevel(FirstUIP(confl))) = 1
    BY <1>7 DEF Analysed
  <1>9. AtCurrentLevel(FirstUIP(confl)) \in SUBSET Literals
    BY <1>8 DEF AtCurrentLevel
  <1>10. QED
    BY <1>7, <1>8, <1>9, Singletons

(***************************************************************************)
(* Minimization: a literal is dropped if it follows from known ones.       *)
(***************************************************************************)
LevelsBelow(c) == {level[Var(l)] : l \in c \ AtCurrentLevel(c)}
Follows(l, known) == reason[Var(l)] # {} /\ (reason[Var(l)] \ {-l}) \subseteq known

\* The step of Minimized at the i-th literal of the trail.
KnownAt(c, i, before) ==
    LET l == -trail[i]
    IN IF l \in c \/ level[Var(l)] = 0 \/ (level[Var(l)] \in LevelsBelow(c) /\ Follows(l, before))
       THEN before \cup {l} ELSE before

LEMMA MinimizedRuns ==
    ASSUME problem \in Problems, TrailTyped, NEW c \in SUBSET Literals
    PROVE  \E known \in [0 .. Len(trail) -> SUBSET Literals] :
              /\ known[0] = {}
              /\ \A i \in 1 .. Len(trail) : known[i] = KnownAt(c, i, known[i - 1])
              /\ Minimized(c) =
                    {l \in c : l \in AtCurrentLevel(c) \/ ~Follows(l, known[Len(trail)])}
  <1> DEFINE n == Len(trail)
             F == [x \in (1 .. n) \X SUBSET Literals |-> KnownAt(c, x[1], x[2])]
             known[i \in 0 .. n] == IF i = 0 THEN {} ELSE KnownAt(c, i, known[i - 1])
             Defines(g) == g = [i \in 0 .. n |-> IF i = 0 THEN {} ELSE KnownAt(c, i, g[i - 1])]
  <1>1. n \in Nat /\ {} \in SUBSET Literals
    BY DEF TrailTyped
  <1>2. ASSUME NEW i \in 1 .. n, NEW before \in SUBSET Literals
        PROVE  KnownAt(c, i, before) \in SUBSET Literals
    <2>1. trail[i] \in Literals
      BY DEF TrailTyped
    <2>2. -trail[i] \in Literals
      BY <2>1, LiteralFacts
    <2>3. QED
      BY <2>2 DEF KnownAt
  <1>3. F \in [(1 .. n) \X SUBSET Literals -> SUBSET Literals]
    BY <1>2
  <1>4. \A i \in 1 .. n : \A before \in SUBSET Literals : F[<<i, before>>] = KnownAt(c, i, before)
    OBVIOUS
  <1> HIDE DEF F
  <1>5. \E g : Defines(g)
    <2>1. PICK g \in [0 .. n -> SUBSET Literals] :
              g[0] = {} /\ \A i \in 1 .. n : g[i] = F[<<i, g[i - 1]>>]
      <3> DEFINE S == SUBSET Literals
                 first == {}
      <3>1. n \in Nat /\ first \in S /\ F \in [(1 .. n) \X S -> S]
        BY <1>1, <1>3
      <3> HIDE DEF n, S, first
      <3>2. RunExists(S, first, n, F)
        BY <3>1, RecursionExists
      <3>3. QED
        BY <3>2 DEF RunExists, S, first
    <2>2. ASSUME NEW i \in 0 .. n
          PROVE  g[i] = IF i = 0 THEN {} ELSE KnownAt(c, i, g[i - 1])
      <3>1. CASE i = 0
        BY <2>1, <3>1
      <3>2. CASE i # 0
        <4>1. i \in 1 .. n /\ i - 1 \in 0 .. n
          BY <1>1, <3>2
        <4>2. g[i - 1] \in SUBSET Literals
          BY <2>1, <4>1
        <4>3. g[i] = F[<<i, g[i - 1]>>]
          BY <2>1, <4>1
        <4>4. F[<<i, g[i - 1]>>] = KnownAt(c, i, g[i - 1])
          BY <1>4, <4>1, <4>2
        <4>5. QED
          BY <3>2, <4>3, <4>4
      <3>3. QED
        BY <3>1, <3>2
    <2>3. Defines(g)
      BY <2>2
    <2>4. QED
      BY <2>3
  <1>6. known = CHOOSE g : Defines(g)
    BY DEF KnownAt
  <1> HIDE DEF known
  <1>7. Defines(known)
    BY <1>5, <1>6
  <1>8. \A i \in 0 .. n : known[i] \in SUBSET Literals
    <2> DEFINE P == {k \in Nat : k <= n => known[k] \in SUBSET Literals}
    <2>1. 0 \in P
      BY <1>1, <1>7
    <2>2. ASSUME NEW k \in P PROVE k + 1 \in P
      <3> SUFFICES ASSUME k + 1 <= n PROVE known[k + 1] \in SUBSET Literals
        OBVIOUS
      <3>1. k \in Nat /\ k <= n /\ k + 1 \in 1 .. n /\ k + 1 \in 0 .. n /\ k + 1 # 0 /\ (k + 1) - 1 = k
        BY <1>1
      <3>2. known[k] \in SUBSET Literals
        BY <3>1
      <3>3. known[k + 1] = KnownAt(c, k + 1, known[k])
        BY <1>7, <3>1
      <3>4. QED
        BY <1>2, <3>1, <3>2, <3>3
    <2>3. P \in SUBSET Nat
      OBVIOUS
    <2> HIDE DEF P
    <2>4. P = Nat
      BY <2>1, <2>2, <2>3, InductionOverNat
    <2>5. QED
      BY <2>4, <1>1 DEF P
  <1>9. Minimized(c) = {l \in c : l \in AtCurrentLevel(c) \/ ~Follows(l, known[n])}
    BY DEF Minimized, known, KnownAt, Follows, LevelsBelow
  <1>10. known \in [0 .. n -> SUBSET Literals]
    BY <1>7, <1>8
  <1>11. known[0] = {} /\ \A i \in 1 .. n : known[i] = KnownAt(c, i, known[i - 1])
    <2>1. 0 \in 0 .. n /\ \A i \in 1 .. n : i \in 0 .. n /\ i # 0
      BY <1>1
    <2>2. known[0] = {}
      BY <1>7, <2>1
    <2>3. ASSUME NEW i \in 1 .. n PROVE known[i] = KnownAt(c, i, known[i - 1])
      BY <1>7, <2>1
    <2>4. QED
      BY <2>2, <2>3
  <1>12. QED
    BY <1>9, <1>10, <1>11

\* What is known is false, and in the clause, false for good, or follows from what
\* is known.
Known(c, K) ==
    /\ K \in SUBSET Literals
    /\ \A l \in K : IsFalse(l) /\ (l \in c \/ level[Var(l)] = 0 \/ Follows(l, K))

LEMMA MinimizedKnown ==
    ASSUME problem \in Problems, TrailTyped, NEW c \in SUBSET Literals
    PROVE  \E K : /\ Known(c, K)
                  /\ Minimized(c) = {l \in c : l \in AtCurrentLevel(c) \/ ~Follows(l, K)}
  <1> DEFINE n == Len(trail)
  <1>1. PICK known \in [0 .. n -> SUBSET Literals] :
              /\ known[0] = {}
              /\ \A i \in 1 .. n : known[i] = KnownAt(c, i, known[i - 1])
              /\ Minimized(c) = {l \in c : l \in AtCurrentLevel(c) \/ ~Follows(l, known[n])}
    BY MinimizedRuns
  <1>2. n \in Nat /\ \A i \in 1 .. n : trail[i] \in Literals
    <2>1. trail \in Seq(Literals)
      BY DEF TrailTyped
    <2>2. QED
      BY <2>1
  <1> DEFINE P == {k \in Nat : k <= n => Known(c, known[k])}
  <1>3. 0 \in P
    <2>1. Known(c, {})
      BY DEF Known
    <2>2. QED
      BY <1>1, <2>1
  <1>4. ASSUME NEW k \in P PROVE k + 1 \in P
    <2> SUFFICES ASSUME k + 1 <= n PROVE Known(c, known[k + 1])
      OBVIOUS
    <2>1. k \in Nat /\ k <= n /\ k + 1 \in 1 .. n /\ k \in 0 .. n /\ k + 1 \in 0 .. n /\ (k + 1) - 1 = k
      BY <1>2
    <2>2. Known(c, known[k])
      BY <2>1
    <2>3. known[k + 1] = KnownAt(c, k + 1, known[k])
      BY <1>1, <2>1
    <2> DEFINE l == -trail[k + 1]
               K == known[k]
               K2 == known[k + 1]
    <2> HIDE DEF P
    <2>4. l \in Literals /\ IsFalse(l)
      <3>1. trail[k + 1] \in Literals
        BY <1>2, <2>1
      <3>2. -(-trail[k + 1]) = trail[k + 1] /\ l \in Literals
        BY <3>1, VarFacts
      <3>3. QED
        BY <2>1, <3>2, TruthOnTrail
    <2>5. \/ K2 = K
          \/ K2 = K \cup {l} /\ (l \in c \/ level[Var(l)] = 0 \/ Follows(l, K))
      BY <2>3 DEF KnownAt
    <2> HIDE DEF l, K, K2
    <2>6. Known(c, K)
      BY <2>2 DEF K
    <2>7. Known(c, K2)
      <3>1. CASE K2 = K
        BY <2>6, <3>1
      <3>2. CASE K2 = K \cup {l} /\ (l \in c \/ level[Var(l)] = 0 \/ Follows(l, K))
        <4>1. \A m : Follows(m, K) => Follows(m, K2)
          BY <3>2 DEF Follows
        <4>2. QED
          BY <2>4, <2>6, <3>2, <4>1 DEF Known
      <3>3. QED
        BY <2>5, <3>1, <3>2
    <2>8. QED
      BY <2>7 DEF K2
  <1>5. P = Nat
    <2>1. P \in SUBSET Nat
      OBVIOUS
    <2> HIDE DEF P
    <2>2. QED
      BY <1>3, <1>4, <2>1, InductionOverNat
  <1>6. Known(c, known[n])
    <2>1. n \in P /\ n <= n
      BY <1>2, <1>5
    <2>2. QED
      BY <2>1
  <1>7. QED
    BY <1>1, <1>6

\* What follows from the known literals follows from those assigned before it.
LEMMA FollowsFromBefore ==
    ASSUME problem \in Problems, TrailTyped, TrailInv, MeaningInv,
           NEW l \in Literals, NEW j \in 1 .. Len(trail), trail[j] = -l, NEW K, Follows(l, K)
    PROVE  LET r == reason[Var(l)] IN
           /\ Entailed(Solutions, r)
           /\ -l \in r
           /\ \A m \in r \ {-l} : m \in K /\ \E i \in 1 .. j - 1 : trail[i] = -m
           /\ level[Var(l)] > RootLevel => \E m \in r \ {-l} : level[Var(m)] = level[Var(l)]
  <1> DEFINE r == reason[Var(l)]
  <1>1. j \in DOMAIN trail /\ Var(trail[j]) = Var(l)
    BY TruthOnTrail, VarFacts
  <1>2. r # {} /\ r \ {-l} \subseteq K
    BY DEF Follows
  <1>3. SupportedAt(trail, j, r)
    BY <1>1, <1>2 DEF TrailInv, TrailSound, Supported
  <1>4. Entailed(Solutions, r)
    BY <1>1, <1>2 DEF MeaningInv, MeaningSound
  <1>5. level[Var(l)] > RootLevel => \E m \in r \ {-l} : level[Var(m)] = level[Var(l)]
    BY <1>1, <1>2 DEF TrailInv, TrailSound, LevelSupported
  <1>6. QED
    BY <1>2, <1>3, <1>4, <1>5 DEF SupportedAt

LEMMA MinimizedEntailed ==
    ASSUME problem \in Problems, TrailTyped, TrailInv, MeaningInv, NEW c, Analysed(c, 0)
    PROVE  Entailed(Solutions, Minimized(c))
  <1> DEFINE n == Len(trail)
             M == Minimized(c)
  <1>1. c \in SUBSET Literals /\ (\A m \in c : IsFalse(m)) /\ Entailed(Solutions, c)
    BY DEF Analysed
  <1>2. PICK K : Known(c, K) /\ M = {l \in c : l \in AtCurrentLevel(c) \/ ~Follows(l, K)}
    BY <1>1, MinimizedKnown
  <1> SUFFICES ASSUME NEW a \in Solutions, M \cap a = {} PROVE FALSE
    BY DEF Entailed
  <1> HIDE DEF M
  <1>3. n \in Nat /\ K \in SUBSET Literals
    BY <1>2, TruthOnTrail DEF Known
  <1> DEFINE P == {k \in Nat : \A j \in 1 .. n : j <= k => \A l \in K : trail[j] = -l => l \notin a}
  <1>4. 0 \in P
    BY <1>3
  <1>5. ASSUME NEW l \in Literals, NEW j \in 1 .. n, trail[j] = -l, Follows(l, K), NEW k \in P, j <= k + 1
        PROVE  l \notin a
    <2> DEFINE r == reason[Var(l)]
    <2>1. /\ Entailed(Solutions, r) /\ -l \in r
          /\ \A m \in r \ {-l} : m \in K /\ \E i \in 1 .. j - 1 : trail[i] = -m
      BY <1>5, FollowsFromBefore
    <2>2. PICK y \in r : y \in a
      BY <2>1 DEF Entailed
    <2>3. CASE y = -l
      BY <2>2, <2>3, SolutionFacts
    <2>4. CASE y # -l
      <3>1. PICK i \in 1 .. j - 1 : trail[i] = -y
        BY <2>1, <2>2, <2>4
      <3>2. i \in 1 .. n /\ i <= k
        BY <1>3, <1>5
      <3>3. QED
        BY <2>1, <2>2, <2>4, <3>1, <3>2
    <2>5. QED
      BY <2>3, <2>4
  <1>6. ASSUME NEW k \in P PROVE k + 1 \in P
    <2> SUFFICES ASSUME NEW j \in 1 .. n, j <= k + 1, NEW l \in K, trail[j] = -l
                 PROVE  l \notin a
      OBVIOUS
    <2>1. l \in Literals /\ IsFalse(l) /\ (l \in c \/ level[Var(l)] = 0 \/ Follows(l, K))
      BY <1>2 DEF Known
    <2> HIDE DEF P
    <2>2. CASE level[Var(l)] = 0
      BY <2>1, <2>2, FixedFalse
    <2>3. CASE Follows(l, K)
      BY <1>5, <2>1, <2>3
    <2>4. CASE l \in c /\ ~Follows(l, K)
      BY <1>2, <2>4
    <2>5. QED
      BY <2>1, <2>2, <2>3, <2>4
  <1>7. P = Nat
    <2>1. P \in SUBSET Nat
      OBVIOUS
    <2> HIDE DEF P
    <2>2. QED
      BY <1>4, <1>6, <2>1, InductionOverNat
  <1> HIDE DEF P
  <1>8. PICK x \in c : x \in a
    BY <1>1 DEF Entailed
  <1>9. Follows(x, K) /\ x \in Literals /\ IsFalse(x)
    BY <1>1, <1>2, <1>8
  <1>10. PICK j \in 1 .. n : trail[j] = -x
    BY <1>9, TruthOnTrail
  <1>11. n \in P /\ j <= n + 1
    BY <1>3, <1>7
  <1>12. QED
    BY <1>5, <1>8, <1>9, <1>10, <1>11

\* The literal of a level above the assumptions that was assigned first is kept.
LEMMA MinimizedKeepsLevels ==
    ASSUME problem \in Problems, TrailTyped, TrailInv, MeaningInv, NEW c, Analysed(c, 0),
           NEW b, b \in LevelsBelow(c), b > RootLevel
    PROVE  \E l \in Minimized(c) : level[Var(l)] = b
  <1> DEFINE n == Len(trail)
             M == Minimized(c)
  <1>1. c \in SUBSET Literals /\ \A m \in c : IsFalse(m)
    BY DEF Analysed
  <1>2. PICK K : Known(c, K) /\ M = {l \in c : l \in AtCurrentLevel(c) \/ ~Follows(l, K)}
    BY <1>1, MinimizedKnown
  <1>3. n \in Nat /\ K \in SUBSET Literals /\ RootLevel \in Nat
    BY <1>2, TruthOnTrail, ProblemTyped DEF Known
  <1> HIDE DEF M
  <1> DEFINE S == {j \in 1 .. n : \E l \in c \cup K : trail[j] = -l /\ level[Var(l)] = b}
             Rel == OpToRel(<, Nat)
  <1>4. S # {} /\ S \subseteq Nat
    <2>1. PICK l \in c : level[Var(l)] = b
      BY DEF LevelsBelow
    <2>2. PICK j \in 1 .. n : trail[j] = -l
      BY <1>1, <2>1, TruthOnTrail
    <2>3. QED
      BY <1>3, <2>1, <2>2
  <1>5. PICK j \in S : \A i \in S : ~(i < j)
    <2>1. \A x, y \in Nat : x < y => <<x, y>> \in Rel
      BY DEF OpToRel
    <2> HIDE DEF Rel, S
    <2>2. IsWellFoundedOn(Rel, Nat)
      BY NatLessThanWellFounded DEF Rel
    <2>3. PICK j \in S : \A i \in S : ~(<<i, j>> \in Rel)
      BY <1>4, <2>2, WFMin
    <2>4. QED
      BY <1>4, <2>1, <2>3
  <1>6. PICK l \in c \cup K : trail[j] = -l /\ level[Var(l)] = b
    OBVIOUS
  <1>7. l \in Literals /\ j \in 1 .. n
    BY <1>1, <1>3
  <1>8. ~Follows(l, K)
    <2>1. SUFFICES ASSUME Follows(l, K) PROVE FALSE
      OBVIOUS
    <2> DEFINE r == reason[Var(l)]
    <2>2. /\ \A m \in r \ {-l} : m \in K /\ \E i \in 1 .. j - 1 : trail[i] = -m
          /\ level[Var(l)] > RootLevel => \E m \in r \ {-l} : level[Var(m)] = level[Var(l)]
      BY <1>6, <1>7, <2>1, FollowsFromBefore
    <2> HIDE DEF r
    <2>3. PICK m \in r \ {-l} : level[Var(m)] = b
      BY <1>6, <2>2
    <2>4. PICK i \in 1 .. j - 1 : trail[i] = -m
      BY <2>2
    <2>5. i \in 1 .. n /\ i < j
      BY <1>3, <1>7
    <2>6. i \in S
      BY <2>2, <2>3, <2>4, <2>5
    <2>7. QED
      BY <1>5, <2>5, <2>6
  <1>9. l \in c
    <2>1. CASE l \in K
      <3>1. l \in c \/ level[Var(l)] = 0
        BY <1>2, <1>8, <2>1 DEF Known
      <3>2. QED
        BY <1>3, <1>6, <3>1
    <2>2. QED
      BY <2>1
  <1>10. QED
    BY <1>2, <1>6, <1>8, <1>9 DEF M

\* The level to backtrack to is the highest of the clause but the current one.
LEMMA BacktrackFacts ==
    ASSUME problem \in Problems, TrailTyped, TrailInv, DecisionLevel > RootLevel, NEW c, Analysed(c, 0)
    PROVE  LET b == BacktrackLevel(c) IN
           /\ b \in Nat /\ b >= RootLevel /\ b < DecisionLevel
           /\ b > RootLevel => b \in LevelsBelow(c)
           /\ \A m \in c \ AtCurrentLevel(c) : level[Var(m)] \in 1 .. b
  <1> DEFINE D == DecisionLevel
             R == RootLevel
             S == {R} \cup LevelsBelow(c)
  <1>1. R \in Nat /\ D \in Nat /\ D - 1 \in Nat /\ R <= D - 1
    BY ProblemTyped DEF TrailTyped, LevelsTyped, DecisionLevel
  <1>2. ASSUME NEW m \in c \ AtCurrentLevel(c) PROVE level[Var(m)] \in 1 .. D - 1
    <2>1. m \in Literals /\ IsFalse(m) /\ level[Var(m)] > 0
      BY DEF Analysed
    <2>2. PICK i \in 1 .. Len(trail) : trail[i] = -m
      BY <2>1, TruthOnTrail
    <2>3. level[Var(m)] \in 0 .. D
      BY <2>1, <2>2, TopOfTrail, VarFacts
    <2>4. level[Var(m)] # D
      BY DEF AtCurrentLevel
    <2>5. QED
      BY <1>1, <2>1, <2>3, <2>4
  <1>3. \A x \in S : x \in Int /\ x <= D - 1
    BY <1>1, <1>2 DEF LevelsBelow
  <1>4. R \in S /\ S # {}
    OBVIOUS
  <1>5. BacktrackLevel(c) = Max(S)
    BY DEF BacktrackLevel, LevelsBelow
  <1>6. \A m \in c \ AtCurrentLevel(c) : level[Var(m)] \in S
    BY DEF LevelsBelow
  <1> DEFINE b == Max(S)
  <1>7. \A x \in S : x = R \/ x \in LevelsBelow(c)
    OBVIOUS
  <1> HIDE DEF S, R, D
  <1>8. b \in S /\ \A x \in S : b >= x
    <2>1. S \in SUBSET Int /\ D - 1 \in Int
      BY <1>1, <1>3
    <2>2. QED
      BY <1>3, <1>4, <2>1, GreatestExists
  <1> HIDE DEF b
  <1>9. b \in Int /\ b <= D - 1 /\ b >= R
    BY <1>3, <1>4, <1>8
  <1>10. b \in Nat /\ b < D
    BY <1>1, <1>9
  <1>11. b > R => b \in LevelsBelow(c)
    BY <1>1, <1>7, <1>8, <1>9
  <1>12. \A m \in c \ AtCurrentLevel(c) : level[Var(m)] \in 1 .. b
    <2>1. ASSUME NEW m \in c \ AtCurrentLevel(c) PROVE level[Var(m)] \in 1 .. b
      <3>1. level[Var(m)] \in 1 .. D - 1 /\ b >= level[Var(m)]
        BY <1>2, <1>6, <1>8
      <3>2. QED
        BY <1>1, <1>9, <3>1
    <2>2. QED
      BY <2>1
  <1>13. QED
    BY <1>5, <1>9, <1>10, <1>11, <1>12 DEF b, D, R

\* The literal l is asserted by the clause learnt at level b.
Asserts(learnt, l, b) ==
    /\ learnt \in SUBSET Literals /\ l \in learnt
    /\ \A m \in learnt : IsFalse(m)
    /\ level[Var(l)] = DecisionLevel
    /\ \A m \in learnt \ {l} : level[Var(m)] \in 1 .. b
    /\ Entailed(Solutions, learnt)
    /\ b \in Nat /\ b >= RootLevel /\ b < DecisionLevel
    /\ b > RootLevel => \E m \in learnt : level[Var(m)] = b

LEMMA AnalysisAsserts ==
    ASSUME problem \in Problems, ClausesTyped, TrailTyped, TrailInv, MeaningInv,
           DecisionLevel > RootLevel, NEW confl \in ClauseDatabase, Falsified(confl),
           NEW l \in AtCurrentLevel(FirstUIP(confl))
    PROVE  Asserts(Minimized(FirstUIP(confl)), l, BacktrackLevel(FirstUIP(confl)))
  <1> DEFINE c == FirstUIP(confl)
             M == Minimized(c)
             b == BacktrackLevel(c)
  <1>1. Analysed(c, 0) /\ \E x : AtCurrentLevel(c) = {x}
    BY FirstUIPAnalysed
  <1> HIDE DEF c
  <1>2. AtCurrentLevel(c) = {l}
    BY <1>1 DEF c
  <1>3. c \in SUBSET Literals /\ \A m \in c : IsFalse(m)
    BY <1>1 DEF Analysed
  <1>4. l \in c /\ level[Var(l)] = DecisionLevel
    BY <1>2 DEF AtCurrentLevel
  <1>5. M \subseteq c /\ l \in M
    BY <1>2, <1>4 DEF Minimized
  <1>6. Entailed(Solutions, M)
    BY <1>1, MinimizedEntailed
  <1>7. /\ b \in Nat /\ b >= RootLevel /\ b < DecisionLevel
        /\ b > RootLevel => b \in LevelsBelow(c)
        /\ \A m \in c \ AtCurrentLevel(c) : level[Var(m)] \in 1 .. b
    BY <1>1, BacktrackFacts
  <1>8. b > RootLevel => \E m \in M : level[Var(m)] = b
    BY <1>1, <1>7, MinimizedKeepsLevels
  <1> HIDE DEF M, b
  <1>9. \A m \in M \ {l} : level[Var(m)] \in 1 .. b
    BY <1>2, <1>5, <1>7
  <1>10. Asserts(M, l, b)
    BY <1>3, <1>4, <1>5, <1>6, <1>7, <1>8, <1>9 DEF Asserts
  <1>11. QED
    BY <1>10 DEF M, b, c

(***************************************************************************)
(* The steps of the solver.                                                *)
(***************************************************************************)
LEMMA RootFacts ==
    ASSUME problem \in Problems, TrailTyped
    PROVE  /\ RootLevel \in Nat /\ DecisionLevel \in Nat /\ DecisionLevel = Len(trail_lim)
           /\ Shaped(trail, trail_lim)
           /\ level \in [Variables -> Int] /\ reason \in [Variables -> SUBSET Literals]
           /\ Answers \subseteq Solutions
  <1>1. RootLevel \in Nat /\ Shaped(trail, trail_lim)
    BY ProblemTyped, TrailShaped
  <1>2. trail_lim \in Seq(Nat) /\ level \in [Variables -> Int] /\ reason \in [Variables -> SUBSET Literals]
    BY DEF TrailTyped, LevelsTyped
  <1>3. DecisionLevel \in Nat /\ DecisionLevel = Len(trail_lim)
    BY <1>2 DEF DecisionLevel
  <1>4. Answers \subseteq Solutions
    BY DEF Answers
  <1>5. QED
    BY <1>1, <1>2, <1>3, <1>4

LEMMA ShapedNext ==
    ASSUME problem' = problem, TrailTyped'
    PROVE  Shaped(trail', trail_lim')
  BY ProblemStays DEF TrailTyped, LevelsTyped, Shaped

\* What a step has to show, in terms of the problem that does not change.
LEMMA SoundNext ==
    ASSUME problem' = problem,
           TrailSound(RootLevel, trail', trail_lim', level', reason', ClauseDatabase'),
           MeaningSound(RootLevel, Solutions, Answers, trail', trail_lim', level', reason', ClauseDatabase')
    PROVE  TrailInv' /\ MeaningInv'
  <1>1. RootLevel' = RootLevel /\ Solutions' = Solutions /\ Answers' = Answers
    BY DEF RootLevel, Solutions, Answers, Assignments, Variables
  <1>2. QED
    BY <1>1 DEF TrailInv, MeaningInv

\* A literal that a unit clause leaves is implied like the clause.
LEMMA UnitImplied ==
    ASSUME problem \in Problems, NEW R \in Nat, NEW t, NEW lim, NEW lev, NEW rea, NEW cs,
           Shaped(t, lim), MeaningSound(R, Solutions, Answers, t, lim, lev, rea, cs), Len(lim) <= R,
           NEW why \in SUBSET Literals, NEW l, Entailed(Solutions, why),
           \A m \in why \ {l} : \E j \in 1 .. Len(t) : t[j] = -m
    PROVE  Entailed(Answers, {l})
  <1> SUFFICES ASSUME NEW a \in Answers PROVE l \in a
    BY DEF Entailed
  <1>1. a \in Solutions
    BY DEF Answers
  <1>2. PICK y \in why : y \in a
    BY <1>1 DEF Entailed
  <1>3. ASSUME y # l PROVE FALSE
    <2>1. PICK j \in 1 .. Len(t) : t[j] = -y
      BY <1>3
    <2>2. Height(t, lim, R) = Len(t)
      BY HeightFacts
    <2>3. Entailed(Answers, {t[j]})
      BY <2>2 DEF MeaningSound
    <2>4. -y \in a
      BY <2>1, <2>3 DEF Entailed
    <2>5. QED
      BY <1>1, <1>2, <2>4, SolutionFacts
  <1>4. QED
    BY <1>2, <1>3

\* cancelUntil forgets the reasons of what it undoes, and of nothing else.
LEMMA KeptReasonsStay ==
    ASSUME problem \in Problems, TrailTyped, TrailInv, NEW b \in Nat
    PROVE  \A i \in 1 .. Len(Kept(b)) : KeptReasons(b)[Var(trail[i])] = reason[Var(trail[i])]
  <1> DEFINE n == Len(trail)
             m == Len(Kept(b))
  <1>1. n \in Nat /\ m \in Nat /\ m <= n /\ DOMAIN trail = 1 .. n /\ \A i \in 1 .. n : trail[i] \in Literals
    <2>1. Kept(b) \in Seq(Literals) /\ m <= n
      BY KeptIsPrefix
    <2>2. trail \in Seq(Literals)
      BY DEF TrailTyped
    <2>3. QED
      BY <2>1, <2>2
  <1>2. Undone(b) = [k \in 1 .. n - m |-> Var(trail[n + 1 - k])]
    BY DEF Undone
  <1> SUFFICES ASSUME NEW i \in 1 .. m PROVE KeptReasons(b)[Var(trail[i])] = reason[Var(trail[i])]
    OBVIOUS
  <1>3. Var(trail[i]) \notin ToSet(Undone(b))
    <2>1. SUFFICES ASSUME NEW k \in 1 .. n - m, Var(trail[n + 1 - k]) = Var(trail[i]) PROVE FALSE
      BY <1>2, ElementsOf
    <2>2. n + 1 - k \in 1 .. n /\ i \in 1 .. n /\ n + 1 - k # i
      BY <1>1
    <2>3. trail[n + 1 - k] = trail[i] \/ trail[n + 1 - k] = -trail[i]
      BY <1>1, <2>1, <2>2, VarFacts
    <2>4. QED
      BY <1>1, <2>2, <2>3 DEF TrailInv, TrailSound, AssignedOnce
  <1>4. Var(trail[i]) \in Variables
    BY <1>1, VarFacts
  <1>5. QED
    BY <1>3, <1>4 DEF KeptReasons

LEMMA CancelSound ==
    ASSUME problem \in Problems, TrailTyped, TrailInv, MeaningInv, NEW b \in Nat
    PROVE  /\ Shaped(Kept(b), KeptLevels(b))
           /\ CutTo(trail, trail_lim, Kept(b), KeptLevels(b), b)
           /\ TrailSound(RootLevel, Kept(b), KeptLevels(b), level, KeptReasons(b), ClauseDatabase)
           /\ MeaningSound(RootLevel, Solutions, Answers, Kept(b), KeptLevels(b), level,
                           KeptReasons(b), ClauseDatabase)
  <1>1. Shaped(Kept(b), KeptLevels(b))
    <2>1. Kept(b) \in Seq(Literals)
      BY KeptIsPrefix
    <2>2. QED
      BY <2>1, KeptLevelsTyped DEF Shaped
  <1>2. CutTo(trail, trail_lim, Kept(b), KeptLevels(b), b)
    <2>1. Len(Kept(b)) = Height(trail, trail_lim, b)
      BY TrailShaped
    <2>2. \A i \in 1 .. Len(Kept(b)) : Kept(b)[i] = trail[i]
      BY KeptIsPrefix
    <2>3. Len(KeptLevels(b)) = IF b < Len(trail_lim) THEN b ELSE Len(trail_lim)
      BY CancelledLevels DEF DecisionLevel
    <2>4. \A i \in 1 .. Len(KeptLevels(b)) : KeptLevels(b)[i] = trail_lim[i]
      <3>1. trail_lim \in Seq(Nat) /\ Len(trail_lim) \in Nat
        BY DEF TrailTyped, LevelsTyped
      <3>2. PICK k \in 0 .. Len(trail_lim) : KeptLevels(b) = SubSeq(trail_lim, 1, k)
        BY <3>1 DEF KeptLevels, DecisionLevel
      <3>3. QED
        BY <3>1, <3>2
    <2>5. QED
      BY <2>1, <2>2, <2>3, <2>4 DEF CutTo
  <1>3. \A i \in 1 .. Len(Kept(b)) : KeptReasons(b)[Var(trail[i])] = reason[Var(trail[i])]
    BY KeptReasonsStay
  <1>4. RootLevel \in Nat /\ Shaped(trail, trail_lim) /\ level \in [Variables -> Int]
    BY RootFacts
  <1>5. TrailSound(RootLevel, Kept(b), KeptLevels(b), level, KeptReasons(b), ClauseDatabase)
    BY <1>1, <1>2, <1>3, <1>4, CutSound DEF TrailInv
  <1>6. MeaningSound(RootLevel, Solutions, Answers, Kept(b), KeptLevels(b), level,
                     KeptReasons(b), ClauseDatabase)
    BY <1>1, <1>2, <1>3, <1>4, CutMeaning DEF MeaningInv
  <1>7. QED
    BY <1>1, <1>2, <1>5, <1>6

LEMMA ReasonLocked ==
    ASSUME TrailTyped, TrailInv, NEW i \in DOMAIN trail, Cardinality(reason[Var(trail[i])]) > 2
    PROVE  Locked(reason[Var(trail[i])])
  <1> DEFINE r == reason[Var(trail[i])]
  <1>1. r # {}
    BY FS_EmptySet
  <1>2. trail[i] \in r
    BY <1>1 DEF TrailInv, TrailSound, Supported, SupportedAt
  <1>3. IsTrue(trail[i])
    BY TruthOnTrail
  <1>4. QED
    BY <1>2, <1>3 DEF Locked

\* simplifyDB and reduceDB may drop clauses, but none that is a reason.
LEMMA ReducedSound ==
    ASSUME TrailTyped, TrailInv, MeaningInv, NEW cs2, cs2 \subseteq ClauseDatabase,
           \A c \in ClauseDatabase : Cardinality(c) > 2 /\ Locked(c) => c \in cs2
    PROVE  /\ TrailSound(RootLevel, trail, trail_lim, level, reason, cs2)
           /\ MeaningSound(RootLevel, Solutions, Answers, trail, trail_lim, level, reason, cs2)
  <1>1. MayReplace(RootLevel, trail, trail_lim, reason, ClauseDatabase, cs2)
    BY ReasonLocked DEF MayReplace
  <1>2. TrailSound(RootLevel, trail, trail_lim, level, reason, cs2)
    BY <1>1, ReplaceSound DEF TrailInv
  <1>3. MeaningSound(RootLevel, Solutions, Answers, trail, trail_lim, level, reason, cs2)
    BY ReplaceMeaning DEF MeaningInv
  <1>4. QED
    BY <1>2, <1>3

LEMMA HousekeepingReduces ==
    ASSUME Housekeeping \/ (learnts' = learnts /\ \E due \in BOOLEAN : clauses' = Simplified(clauses, due))
    PROVE  /\ ClauseDatabase' \subseteq ClauseDatabase
           /\ \A c \in ClauseDatabase : Cardinality(c) > 2 /\ Locked(c) => c \in ClauseDatabase'
  <1>1. PICK due \in BOOLEAN : clauses' = Simplified(clauses, due)
    BY DEF Housekeeping
  <1>2. /\ learnts' \subseteq learnts
        /\ \A c \in learnts : Cardinality(c) > 2 /\ Locked(c) => c \in learnts'
    <2>1. CASE learnts' = learnts
      BY <2>1
    <2>2. CASE Housekeeping
      BY <2>2 DEF Housekeeping, Simplified, Droppable
    <2>3. QED
      BY <2>1, <2>2
  <1>3. /\ clauses' \subseteq clauses
        /\ \A c \in clauses : Cardinality(c) > 2 /\ Locked(c) => c \in clauses'
    BY <1>1 DEF Simplified
  <1>4. QED
    BY <1>2, <1>3 DEF ClauseDatabase

\* What every step may use.
StepOf ==
    /\ problem \in Problems /\ problem' = problem
    /\ ClausesTyped /\ TrailTyped /\ TrailTyped' /\ TrailInv /\ MeaningInv

\* cancelUntil, when clauses may also have been dropped.
LEMMA CancelNext ==
    ASSUME StepOf, NEW b \in Nat,
           trail' = Kept(b), trail_lim' = KeptLevels(b), level' = level, reason' = KeptReasons(b),
           ClauseDatabase' \subseteq ClauseDatabase,
           \A c \in ClauseDatabase : Cardinality(c) > 2 /\ Locked(c) => c \in ClauseDatabase'
    PROVE  TrailInv' /\ MeaningInv'
  <1> DEFINE cs2 == ClauseDatabase'
  <1>0. problem \in Problems /\ problem' = problem /\ TrailTyped /\ TrailInv /\ MeaningInv
    BY DEF StepOf
  <1>1. /\ TrailSound(RootLevel, Kept(b), KeptLevels(b), level, KeptReasons(b), ClauseDatabase)
        /\ MeaningSound(RootLevel, Solutions, Answers, Kept(b), KeptLevels(b), level,
                        KeptReasons(b), ClauseDatabase)
    BY <1>0, CancelSound
  <1>2. MayReplace(RootLevel, Kept(b), KeptLevels(b), KeptReasons(b), ClauseDatabase, cs2)
    <2>1. ASSUME NEW i \in DOMAIN Kept(b), Cardinality(KeptReasons(b)[Var(Kept(b)[i])]) > 2,
                 KeptReasons(b)[Var(Kept(b)[i])] \in ClauseDatabase
          PROVE  KeptReasons(b)[Var(Kept(b)[i])] \in cs2
      <3>1. Kept(b) \in Seq(Literals) /\ Len(Kept(b)) <= Len(trail)
        BY <1>0, KeptIsPrefix
      <3>2. i \in 1 .. Len(Kept(b)) /\ i \in 1 .. Len(trail)
        BY <1>0, <3>1, TruthOnTrail
      <3>3. Kept(b)[i] = trail[i] /\ KeptReasons(b)[Var(trail[i])] = reason[Var(trail[i])]
        BY <1>0, <3>2, KeptIsPrefix, KeptReasonsStay
      <3>4. i \in DOMAIN trail /\ Cardinality(reason[Var(trail[i])]) > 2
        BY <1>0, <2>1, <3>2, <3>3, TruthOnTrail
      <3>5. Locked(reason[Var(trail[i])])
        BY <1>0, <3>4, ReasonLocked
      <3>6. QED
        BY <2>1, <3>3, <3>4, <3>5
    <2>2. QED
      BY <2>1 DEF MayReplace
  <1>3. TrailSound(RootLevel, Kept(b), KeptLevels(b), level, KeptReasons(b), cs2)
    BY <1>1, <1>2, ReplaceSound
  <1>4. MeaningSound(RootLevel, Solutions, Answers, Kept(b), KeptLevels(b), level, KeptReasons(b), cs2)
    BY <1>1, ReplaceMeaning
  <1>5. QED
    BY <1>0, <1>3, <1>4, SoundNext

\* A decision, or an assumption, at a level of its own.
LEMMA AssumeNext ==
    ASSUME StepOf, NEW l \in Literals, ~IsFalse(l), Assume(l),
           ClauseDatabase' \subseteq ClauseDatabase,
           \A c \in ClauseDatabase : Cardinality(c) > 2 /\ Locked(c) => c \in ClauseDatabase',
           Quiescent,
           DecisionLevel < RootLevel => Entailed(Answers, {l})
    PROVE  TrailInv' /\ MeaningInv'
  <1> DEFINE cs2 == ClauseDatabase'
             lim2 == trail_lim'
             D == DecisionLevel
  <1>0. /\ problem \in Problems /\ problem' = problem /\ TrailTyped /\ TrailTyped'
        /\ TrailInv /\ MeaningInv
    BY DEF StepOf
  <1>1. /\ RootLevel \in Nat /\ D \in Nat /\ D = Len(trail_lim) /\ Shaped(trail, trail_lim)
        /\ level \in [Variables -> Int] /\ reason \in [Variables -> SUBSET Literals]
    BY <1>0, RootFacts
  <1>2. lim2 = Append(trail_lim, Len(trail))
    BY DEF Assume
  <1> HIDE DEF lim2
  <1>3. /\ Shaped(trail, lim2) /\ Len(lim2) = D + 1
        /\ \A d \in Nat : Height(trail, lim2, d) = Height(trail, trail_lim, d)
    <2>1. Opened(trail, trail_lim, lim2)
      BY <1>1, <1>2, OpenHeights
    <2>2. QED
      BY <1>1, <2>1 DEF Opened
  <1>4. /\ TrailSound(RootLevel, trail, trail_lim, level, reason, cs2)
        /\ MeaningSound(RootLevel, Solutions, Answers, trail, trail_lim, level, reason, cs2)
    BY <1>0, ReducedSound
  <1>5. \A c \in cs2 : QuietAt(trail, Len(trail), c)
    BY <1>0, QuietNow
  <1> HIDE DEF cs2
  <1>6. TrailSound(RootLevel, trail, lim2, level, reason, cs2)
    BY <1>0, <1>1, <1>2, <1>4, <1>5, OpenSound
  <1>7. MeaningSound(RootLevel, Solutions, Answers, trail, lim2, level, reason, cs2)
    BY <1>1, <1>2, <1>4, OpenMeaning
  <1>8. CASE IsTrue(l)
    <2>1. trail' = trail /\ level' = level /\ reason' = reason
      BY <1>8 DEF Assume
    <2>2. QED
      BY <1>0, <1>6, <1>7, <2>1, SoundNext DEF cs2, lim2
  <1>9. CASE ~IsTrue(l)
    <2>1. Pushed(trail, level, reason, l, D + 1, {}, trail', level', reason')
      BY <1>9 DEF Assume, Pushed
    <2>2. Open(trail, Len(trail), l)
      BY <1>0, <1>9, OpenIsUndef DEF IsUndef
    <2>3. MayPush(RootLevel, trail, lim2, level, cs2, l, D + 1, {})
      <3>1. (D + 1) - 1 = D /\ D + 1 # 0
        BY <1>1
      <3>2. Height(trail, lim2, D) = Len(trail)
        BY <1>1, <1>3, HeightFacts
      <3>3. ~(Cardinality({}) > 2)
        BY FS_EmptySet
      <3>4. QED
        BY <1>3, <2>2, <3>1, <3>2, <3>3 DEF MayPush
    <2>4. MayClaim(RootLevel, Solutions, Answers, lim2, l, D + 1, {})
      BY <1>1, <1>3 DEF MayClaim
    <2>5. D + 1 \in Nat /\ {} \in SUBSET Literals
      BY <1>1
    <2>6. TrailSound(RootLevel, trail', lim2, level', reason', cs2)
      BY <1>0, <1>1, <1>3, <1>6, <2>1, <2>3, <2>5, PushSound
    <2>7. MeaningSound(RootLevel, Solutions, Answers, trail', lim2, level', reason', cs2)
      BY <1>0, <1>1, <1>3, <1>7, <2>1, <2>2, <2>4, <2>5, PushMeaning
    <2>8. QED
      BY <1>0, <2>6, <2>7, SoundNext DEF cs2, lim2
  <1>10. QED
    BY <1>8, <1>9

LEMMA PropagateNext ==
    ASSUME StepOf, Propagate
    PROVE  TrailInv' /\ MeaningInv'
  <1> DEFINE D == DecisionLevel
  <1>0. /\ problem \in Problems /\ problem' = problem /\ ClausesTyped /\ TrailTyped /\ TrailTyped'
        /\ TrailInv /\ MeaningInv
    BY DEF StepOf
  <1>1. /\ RootLevel \in Nat /\ D \in Nat /\ D = Len(trail_lim) /\ Shaped(trail, trail_lim)
        /\ level \in [Variables -> Int] /\ reason \in [Variables -> SUBSET Literals]
    BY <1>0, RootFacts
  <1>a. PICK c \in ClauseDatabase : \E l \in c : UnitLiteral(c, l) /\ Enqueue(l, c)
    BY DEF Propagate
  <1>2. PICK l \in c : UnitLiteral(c, l) /\ Enqueue(l, c)
    BY <1>a
  <1>3. c \in SUBSET Literals /\ l \in Literals /\ Entailed(Solutions, c)
    BY <1>0 DEF ClausesTyped, ClauseDatabase, MeaningInv, MeaningSound
  <1>4. /\ Pushed(trail, level, reason, l, D, c, trail', level', reason')
        /\ trail_lim' = trail_lim /\ ClauseDatabase' = ClauseDatabase
    BY <1>2 DEF Enqueue, Pushed, Propagate, ClauseDatabase
  <1>5. Open(trail, Len(trail), l) /\ \A m \in c \ {l} : IsFalse(m)
    BY <1>0, <1>2, OpenIsUndef DEF UnitLiteral
  <1>6. \A m \in c \ {l} : \E j \in 1 .. Len(trail) : trail[j] = -m
    BY <1>0, <1>5, TruthOnTrail
  <1>7. D > RootLevel => \E m \in c \ {l} : level[Var(m)] = D
    <2> SUFFICES ASSUME D > RootLevel PROVE \E m \in c \ {l} : level[Var(m)] = D
      OBVIOUS
    <2>1. ASSUME NEW m \in c PROVE ~IsTrue(m)
      <3>1. CASE m = l
        BY <1>2, <3>1 DEF UnitLiteral, IsUndef
      <3>2. CASE m # l
        BY <1>0, <1>3, <1>5, <3>2, NotBoth
      <3>3. QED
        BY <3>1, <3>2
    <2>2. PICK m1, m2 \in c : /\ m1 # m2
                              /\ IsFalse(m1) => level[Var(-m1)] = D
                              /\ IsFalse(m2) => level[Var(-m2)] = D
      BY <1>0, <2>1, TwoAtTheTop
    <2>3. PICK m \in c \ {l} : level[Var(-m)] = D
      BY <1>5, <2>2
    <2>4. QED
      BY <1>0, <1>3, <2>3, VarFacts
  <1>8. MayPush(RootLevel, trail, trail_lim, level, ClauseDatabase, l, D, c)
    <2>1. c # {}
      BY <1>2
    <2>2. QED
      BY <1>1, <1>2, <1>5, <1>6, <1>7, <2>1 DEF MayPush
  <1>9. Len(trail_lim) <= RootLevel => Entailed(Answers, {l})
    BY <1>0, <1>1, <1>3, <1>6, UnitImplied DEF MeaningInv
  <1>10. D = 0 => Entailed(Solutions, {l})
    <2> SUFFICES ASSUME D = 0, NEW a \in Solutions PROVE l \in a
      BY DEF Entailed
    <2>1. PICK y \in c : y \in a
      BY <1>3 DEF Entailed
    <2>2. ASSUME y # l PROVE FALSE
      <3>1. IsFalse(y) /\ y \in Literals
        BY <1>3, <1>5, <2>2
      <3>2. PICK j \in 1 .. Len(trail) : trail[j] = -y
        BY <1>6, <2>2
      <3>3. level[Var(trail[j])] \in 0 .. D
        BY <1>0, TopOfTrail
      <3>4. level[Var(y)] = 0
        BY <1>0, <3>1, <3>2, <3>3, VarFacts
      <3>5. QED
        BY <1>0, <2>1, <3>1, <3>4, FixedFalse
    <2>3. QED
      BY <2>1, <2>2
  <1>11. MayClaim(RootLevel, Solutions, Answers, trail_lim, l, D, c)
    BY <1>3, <1>9, <1>10 DEF MayClaim
  <1> HIDE DEF D
  <1>12. TrailSound(RootLevel, trail', trail_lim, level', reason', ClauseDatabase)
    BY <1>0, <1>1, <1>3, <1>4, <1>8, PushSound DEF TrailInv
  <1>13. MeaningSound(RootLevel, Solutions, Answers, trail', trail_lim, level', reason', ClauseDatabase)
    BY <1>0, <1>1, <1>3, <1>4, <1>5, <1>11, PushMeaning DEF MeaningInv
  <1>14. QED
    BY <1>0, <1>4, <1>12, <1>13, SoundNext

\* The clause learnt joins the database, and its literal the trail, at the level to
\* backtrack to.
LEMMA LearnNext ==
    ASSUME StepOf, Learn
    PROVE  TrailInv' /\ MeaningInv'
  <1> DEFINE D == DecisionLevel
             R == RootLevel
  <1>0. /\ problem \in Problems /\ problem' = problem /\ ClausesTyped /\ TrailTyped /\ TrailTyped'
        /\ TrailInv /\ MeaningInv /\ D > R /\ clauses' = clauses
    BY DEF StepOf, Learn
  <1>1. PICK confl \in ClauseDatabase :
          /\ Falsified(confl)
          /\ LET uip == FirstUIP(confl)
                 learnt == Minimized(uip)
                 b == BacktrackLevel(uip)
             IN \E l \in AtCurrentLevel(uip) :
                   /\ trail' = Append(Kept(b), l)
                   /\ trail_lim' = KeptLevels(b)
                   /\ order' = order \o Undone(b)
                   /\ IF learnt = {l}
                      THEN /\ level' = [level EXCEPT ![Var(l)] = 0]
                           /\ reason' = KeptReasons(b)
                           /\ UNCHANGED learnts
                      ELSE /\ level' = [level EXCEPT ![Var(l)] = b]
                           /\ reason' = [KeptReasons(b) EXCEPT ![Var(l)] = learnt]
                           /\ learnts' = learnts \cup {learnt}
    BY DEF Learn
  <1> DEFINE uip == FirstUIP(confl)
             learnt == Minimized(uip)
             b == BacktrackLevel(uip)
  <1>2. PICK l \in AtCurrentLevel(uip) :
                   /\ trail' = Append(Kept(b), l)
                   /\ trail_lim' = KeptLevels(b)
                   /\ IF learnt = {l}
                      THEN /\ level' = [level EXCEPT ![Var(l)] = 0]
                           /\ reason' = KeptReasons(b)
                           /\ UNCHANGED learnts
                      ELSE /\ level' = [level EXCEPT ![Var(l)] = b]
                           /\ reason' = [KeptReasons(b) EXCEPT ![Var(l)] = learnt]
                           /\ learnts' = learnts \cup {learnt}
    BY <1>1
  <1>3. Asserts(learnt, l, b)
    BY <1>0, <1>1, AnalysisAsserts
  <1> HIDE DEF uip, learnt, b
  <1>4. /\ learnt \in SUBSET Literals /\ l \in learnt /\ l \in Literals
        /\ (\A m \in learnt : IsFalse(m)) /\ level[Var(l)] = D
        /\ (\A m \in learnt \ {l} : level[Var(m)] \in 1 .. b)
        /\ Entailed(Solutions, learnt)
        /\ b \in Nat /\ b >= R /\ b < D
        /\ b > R => \E m \in learnt : level[Var(m)] = b
    BY <1>3 DEF Asserts
  <1>5. R \in Nat /\ D \in Nat /\ D = Len(trail_lim) /\ Shaped(trail, trail_lim)
    BY <1>0, RootFacts
  <1> DEFINE t == Kept(b)
             lim == KeptLevels(b)
             rea == KeptReasons(b)
             cs2 == ClauseDatabase'
             h(d) == Height(trail, trail_lim, d)
  <1>6. /\ Shaped(t, lim) /\ CutTo(trail, trail_lim, t, lim, b)
        /\ TrailSound(R, t, lim, level, rea, ClauseDatabase)
        /\ MeaningSound(R, Solutions, Answers, t, lim, level, rea, ClauseDatabase)
    BY <1>0, <1>4, CancelSound
  <1>7. /\ level \in [Variables -> Int] /\ rea \in [Variables -> SUBSET Literals]
    BY <1>0, <1>4, KeptReasonsTyped DEF TrailTyped
  <1>8. Len(t) = h(b) /\ Len(lim) = b /\ \A i \in 1 .. Len(t) : t[i] = trail[i]
    BY <1>4, <1>5, <1>6 DEF CutTo
  <1>9. /\ \A d \in Nat : h(d) \in Nat /\ h(d) <= Len(trail)
        /\ \A d, e \in Nat : d <= e => h(d) <= h(e)
    BY <1>5, HeightFacts
  <1>10. /\ Len(trail) \in Nat /\ DOMAIN trail = 1 .. Len(trail)
         /\ \A i \in 1 .. Len(trail) :
               /\ trail[i] \in Literals
               /\ level[Var(trail[i])] > 0 =>
                     h(level[Var(trail[i])] - 1) < i /\ i <= h(level[Var(trail[i])])
    BY <1>0, TopOfTrail, TruthOnTrail
  <1>11. \A d \in Nat : d <= b => Height(t, lim, d) = h(d)
    BY <1>4, <1>5, <1>6, CutHeights
  <1> HIDE DEF t, lim, rea, cs2, h, D, R
  <1>12. ASSUME NEW m \in learnt
         PROVE  \E i \in 1 .. Len(trail) :
                   /\ trail[i] = -m /\ h(level[Var(m)] - 1) < i /\ i <= h(level[Var(m)])
    <2>1. PICK i \in 1 .. Len(trail) : trail[i] = -m
      BY <1>0, <1>4, TruthOnTrail
    <2>2. Var(trail[i]) = Var(m)
      BY <1>0, <1>4, <2>1, VarFacts
    <2>3. level[Var(m)] > 0
      BY <1>0, <1>4, <1>5
    <2>4. QED
      BY <1>10, <2>1, <2>2, <2>3
  <1>13. \A m \in learnt \ {l} : \E j \in 1 .. Len(t) : t[j] = -m
    <2> SUFFICES ASSUME NEW m \in learnt \ {l} PROVE \E j \in 1 .. Len(t) : t[j] = -m
      OBVIOUS
    <2>1. PICK i \in 1 .. Len(trail) : trail[i] = -m /\ i <= h(level[Var(m)])
      BY <1>12
    <2>2. level[Var(m)] \in Nat /\ level[Var(m)] <= b
      BY <1>4
    <2>3. h(level[Var(m)]) <= h(b) /\ h(level[Var(m)]) \in Nat /\ h(b) \in Nat
      BY <1>4, <1>9, <2>2
    <2>4. i \in 1 .. Len(t)
      BY <1>8, <1>10, <2>1, <2>3
    <2>5. QED
      BY <1>8, <2>1, <2>4
  <1>14. Open(t, Len(t), l)
    <2>1. PICK i \in 1 .. Len(trail) : trail[i] = -l /\ h(D - 1) < i
      BY <1>4, <1>12
    <2>2. D - 1 \in Nat /\ b <= D - 1
      BY <1>4, <1>5
    <2>3. h(b) <= h(D - 1) /\ h(b) \in Nat /\ h(D - 1) \in Nat
      BY <1>4, <1>9, <2>2
    <2>4. ASSUME NEW j \in 1 .. Len(t) PROVE t[j] # l /\ t[j] # -l
      <3>1. j \in 1 .. Len(trail) /\ j # i
        BY <1>8, <1>10, <2>1, <2>3
      <3>2. trail[j] # trail[i] /\ trail[j] # -trail[i]
        BY <1>0, <1>10, <3>1 DEF TrailInv, TrailSound, AssignedOnce
      <3>3. -(-l) = l /\ t[j] = trail[j]
        BY <1>0, <1>4, <1>8, VarFacts
      <3>4. QED
        BY <2>1, <3>2, <3>3
    <2>5. QED
      BY <2>4 DEF Open
  <1>15. b > R => \E m \in learnt \ {l} : level[Var(m)] = b
    BY <1>4, <1>5
  <1>16. \A d \in R .. Len(lim) - 1 : QuietAt(t, Height(t, lim, d), learnt)
    <2> SUFFICES ASSUME NEW d \in R .. Len(lim) - 1 PROVE QuietAt(t, Height(t, lim, d), learnt)
      OBVIOUS
    <2>1. d \in Nat /\ d <= b - 1 /\ d <= b /\ b - 1 \in Nat /\ b > R
      BY <1>4, <1>5, <1>8
    <2>2. Height(t, lim, d) = h(d)
      BY <1>11, <2>1
    <2>3. PICK m \in learnt \ {l} : level[Var(m)] = b
      BY <1>15, <2>1
    <2>4. PICK i \in 1 .. Len(trail) : trail[i] = -m /\ h(b - 1) < i
      BY <1>12, <2>3
    <2>5. h(d) <= h(b - 1) /\ h(d) <= h(b) /\ h(d) \in Nat /\ h(b - 1) \in Nat /\ h(b) \in Nat
      BY <1>4, <1>9, <2>1
    <2>6. Open(t, h(d), l)
      BY <1>8, <1>14, <2>5 DEF Open
    <2>7. Open(t, h(d), m)
      <3>1. ASSUME NEW j \in 1 .. h(d) PROVE t[j] # m /\ t[j] # -m
        <4>1. j \in 1 .. Len(trail) /\ j # i /\ j \in 1 .. Len(t)
          BY <1>8, <1>10, <2>4, <2>5
        <4>2. trail[j] # trail[i] /\ trail[j] # -trail[i]
          BY <1>0, <1>10, <4>1 DEF TrailInv, TrailSound, AssignedOnce
        <4>3. -(-m) = m /\ t[j] = trail[j]
          BY <1>0, <1>4, <1>8, <4>1, VarFacts
        <4>4. QED
          BY <2>4, <4>2, <4>3
      <3>2. QED
        BY <3>1 DEF Open
    <2>8. QED
      BY <1>4, <2>2, <2>6, <2>7 DEF QuietAt
  <1>17. Len(lim) <= R => Entailed(Answers, {l})
    BY <1>0, <1>4, <1>5, <1>6, <1>13, UnitImplied
  <1>18. CASE learnt = {l}
    <2>1. /\ trail' = Append(t, l) /\ trail_lim' = lim /\ cs2 = ClauseDatabase
          /\ level' = [level EXCEPT ![Var(l)] = 0] /\ reason' = rea
      BY <1>0, <1>2, <1>18 DEF t, lim, rea, cs2, ClauseDatabase
    <2>2. b = R
      BY <1>4, <1>5, <1>15, <1>18
    <2>3. rea[Var(l)] = {}
      <3>1. -l \in ToSet(trail) /\ -l \notin ToSet(t)
        <4>1. -l \in ToSet(trail)
          BY <1>4 DEF IsFalse
        <4>2. DOMAIN t = 1 .. Len(t)
          BY <1>6, HeightFacts
        <4>3. QED
          BY <1>14, <4>1, <4>2, ElementsOf DEF Open
      <3>2. Var(-l) \in ToSet(Undone(b))
        BY <1>0, <1>4, <3>1, UndoneIsRest DEF t
      <3>3. Var(-l) = Var(l) /\ Var(l) \in Variables
        BY <1>0, <1>4, VarFacts
      <3>4. QED
        BY <3>2, <3>3 DEF rea, KeptReasons
    <2>4. Pushed(t, level, rea, l, 0, {}, trail', level', reason')
      <3>1. rea = [rea EXCEPT ![Var(l)] = {}]
        BY <1>7, <2>3
      <3>2. QED
        BY <2>1, <3>1 DEF Pushed
    <2>5. MayPush(R, t, lim, level, ClauseDatabase, l, 0, {})
      <3>1. ~(Cardinality({}) > 2)
        BY FS_EmptySet
      <3>2. QED
        BY <1>5, <1>8, <1>14, <2>2, <3>1 DEF MayPush
    <2>6. MayClaim(R, Solutions, Answers, lim, l, 0, {})
      BY <1>4, <1>17, <1>18 DEF MayClaim
    <2>7. TrailSound(R, trail', lim, level', reason', ClauseDatabase)
      BY <1>0, <1>4, <1>5, <1>6, <1>7, <2>4, <2>5, PushSound
    <2>8. MeaningSound(R, Solutions, Answers, trail', lim, level', reason', ClauseDatabase)
      BY <1>0, <1>4, <1>5, <1>6, <1>7, <1>14, <2>4, <2>6, PushMeaning
    <2>9. QED
      BY <1>0, <2>1, <2>7, <2>8, SoundNext DEF cs2, R
  <1>19. CASE learnt # {l}
    <2>1. /\ trail' = Append(t, l) /\ trail_lim' = lim /\ cs2 = ClauseDatabase \cup {learnt}
          /\ level' = [level EXCEPT ![Var(l)] = b] /\ reason' = [rea EXCEPT ![Var(l)] = learnt]
      BY <1>0, <1>2, <1>19 DEF t, lim, rea, cs2, ClauseDatabase
    <2>2. b > 0
      <3>1. PICK m \in learnt \ {l} : TRUE
        BY <1>4, <1>19
      <3>2. level[Var(m)] \in 1 .. b
        BY <1>4, <3>1
      <3>3. QED
        BY <1>4, <3>2
    <2>3. Pushed(t, level, rea, l, b, learnt, trail', level', reason')
      BY <2>1 DEF Pushed
    <2>4. MayPush(R, t, lim, level, cs2, l, b, learnt)
      <3>1. learnt # {} /\ learnt \in cs2
        BY <1>4, <2>1
      <3>2. QED
        BY <1>4, <1>8, <1>13, <1>14, <1>15, <3>1 DEF MayPush
    <2>5. MayClaim(R, Solutions, Answers, lim, l, b, learnt)
      BY <1>4, <1>17, <2>2 DEF MayClaim
    <2>6. MayReplace(R, t, lim, rea, ClauseDatabase, cs2)
      BY <1>16, <2>1 DEF MayReplace
    <2>7. TrailSound(R, t, lim, level, rea, cs2)
      BY <1>6, <2>6, ReplaceSound
    <2>8. MeaningSound(R, Solutions, Answers, t, lim, level, rea, cs2)
      BY <1>4, <1>6, <2>1, ReplaceMeaning
    <2>9. TrailSound(R, trail', lim, level', reason', cs2)
      BY <1>0, <1>4, <1>5, <1>6, <1>7, <2>3, <2>4, <2>7, PushSound
    <2>10. MeaningSound(R, Solutions, Answers, trail', lim, level', reason', cs2)
      BY <1>0, <1>4, <1>5, <1>6, <1>7, <1>14, <2>3, <2>5, <2>8, PushMeaning
    <2>11. QED
      BY <1>0, <2>1, <2>9, <2>10, SoundNext DEF cs2, R
  <1>20. QED
    BY <1>18, <1>19

\* A clause of the problem is added without what is false for good.
LEMMA NewClauseNext ==
    ASSUME StepOf, NewClause, added \in Nat, trail_lim = << >>, ~ok => Solutions = {}
    PROVE  TrailInv' /\ MeaningInv' /\ (~ok' => Solutions = {})
  <1>0. /\ problem \in Problems /\ problem' = problem /\ ClausesTyped /\ TrailTyped /\ TrailTyped'
        /\ TrailInv /\ MeaningInv
    BY DEF StepOf
  <1>1. PICK ps : ps = problem.clauses[added + 1]
    OBVIOUS
  <1> DEFINE qs == {l \in ps : ~IsFalse(l)}
             superfluous == Satisfied(ps) \/ \E l \in ps : -l \in ps
  <1>2. /\ added < Len(problem.clauses) /\ learnts' = learnts
        /\ ok' = (ok /\ (superfluous \/ qs # {}))
        /\ clauses' = clauses \cup {qs} \/ clauses' = clauses
        /\ \/ Cardinality(qs) = 1 /\ \E l \in qs : Enqueue(l, {})
           \/ UNCHANGED trailVars
    BY <1>1 DEF NewClause
  <1>3. ps \in SUBSET Literals /\ Entailed(Solutions, ps)
    <2>1. problem.clauses \in Seq(SUBSET Literals)
      BY <1>0, ProblemTyped
    <2>2. added + 1 \in DOMAIN problem.clauses
      BY <1>2, <2>1
    <2>3. ps \in SUBSET Literals
      BY <1>1, <2>1, <2>2
    <2>4. Entailed(Solutions, ps)
      BY <1>1, <2>2 DEF Entailed, Solutions
    <2>5. QED
      BY <2>3, <2>4
  <1>4. /\ RootLevel \in Nat /\ Len(trail_lim) = 0 /\ DecisionLevel = 0 /\ Shaped(trail, trail_lim)
        /\ level \in [Variables -> Int] /\ reason \in [Variables -> SUBSET Literals]
        /\ Answers \subseteq Solutions
    BY <1>0, RootFacts DEF DecisionLevel
  <1>5. ASSUME NEW l \in Literals, IsFalse(l), NEW a \in Solutions PROVE l \notin a
    <2>1. PICK i \in 1 .. Len(trail) : trail[i] = -l
      BY <1>0, <1>5, TruthOnTrail
    <2>2. level[Var(trail[i])] = 0
      BY <1>0, <1>4, TopOfTrail
    <2>3. level[Var(l)] = 0
      BY <1>0, <2>1, <2>2, VarFacts
    <2>4. QED
      BY <1>0, <1>5, <2>3, FixedFalse
  <1>6. Entailed(Solutions, qs) /\ qs \in SUBSET Literals
    <2>1. ASSUME NEW a \in Solutions PROVE qs \cap a # {}
      <3>1. PICK y \in ps : y \in a
        BY <1>3 DEF Entailed
      <3>2. ~IsFalse(y)
        BY <1>3, <1>5, <3>1
      <3>3. QED
        BY <3>1, <3>2
    <2> HIDE DEF qs
    <2>2. Entailed(Solutions, qs)
      BY <2>1 DEF Entailed
    <2>3. QED
      BY <1>3, <2>2 DEF qs
  <1> HIDE DEF superfluous
  <1>7. ~ok' => Solutions = {}
    <2>1. CASE ok
      BY <1>2, <1>6, <2>1 DEF Entailed
    <2>2. CASE ~ok
      BY <2>2
    <2>3. QED
      BY <2>1, <2>2
  <1> DEFINE cs2 == ClauseDatabase'
  <1>8. ClauseDatabase \subseteq cs2 /\ cs2 \subseteq ClauseDatabase \cup {qs}
    BY <1>2 DEF ClauseDatabase
  <1>9. \A l \in qs : ~IsFalse(l)
    OBVIOUS
  <1> HIDE DEF qs, cs2
  <1>10. TrailSound(RootLevel, trail, trail_lim, level, reason, cs2)
    <2>1. RootLevel .. Len(trail_lim) - 1 = {}
      BY <1>4
    <2>2. MayReplace(RootLevel, trail, trail_lim, reason, ClauseDatabase, cs2)
      BY <1>8, <2>1 DEF MayReplace
    <2>3. QED
      BY <1>0, <2>2, ReplaceSound DEF TrailInv
  <1>11. MeaningSound(RootLevel, Solutions, Answers, trail, trail_lim, level, reason, cs2)
    <2>1. \A c \in cs2 : c \in ClauseDatabase \/ Entailed(Solutions, c)
      BY <1>6, <1>8
    <2>2. QED
      BY <1>0, <2>1, ReplaceMeaning DEF MeaningInv
  <1>12. CASE UNCHANGED trailVars
    <2>1. trail' = trail /\ trail_lim' = trail_lim /\ level' = level /\ reason' = reason
      BY <1>12 DEF trailVars
    <2>2. TrailInv' /\ MeaningInv'
      BY <1>0, <1>10, <1>11, <2>1, SoundNext DEF cs2
    <2>3. QED
      BY <1>7, <2>2
  <1>13. CASE Cardinality(qs) = 1 /\ \E l \in qs : Enqueue(l, {})
    <2>1. PICK l \in qs : Enqueue(l, {})
      BY <1>13
    <2>2. qs = {l} /\ l \in Literals
      BY <1>0, <1>6, <1>13, Singletons
    <2>3. Pushed(trail, level, reason, l, 0, {}, trail', level', reason') /\ trail_lim' = trail_lim
      BY <1>4, <2>1 DEF Enqueue, Pushed
    <2>4. CASE IsTrue(l)
      <3>1. FALSE
        <4>1. Satisfied(ps)
          BY <2>1, <2>4 DEF Satisfied, qs
        <4>2. UNCHANGED trailVars
          BY <1>1, <4>1 DEF NewClause
        <4>3. trail' = trail /\ trail' = Append(trail, l) /\ Len(trail) \in Nat
          BY <1>0, <2>1, <4>2, TruthOnTrail DEF Enqueue, trailVars
        <4>4. Len(trail') = Len(trail) + 1
          BY <1>0, <2>2, <4>3 DEF TrailTyped
        <4>5. QED
          BY <4>3, <4>4
      <3>2. QED
        BY <3>1
    <2>5. CASE ~IsTrue(l)
      <3>1. Open(trail, Len(trail), l)
        BY <1>0, <1>9, <2>1, <2>5, OpenIsUndef DEF IsUndef
      <3>2. MayPush(RootLevel, trail, trail_lim, level, cs2, l, 0, {})
        <4>1. ~(Cardinality({}) > 2)
          BY FS_EmptySet
        <4>2. QED
          BY <1>4, <3>1, <4>1 DEF MayPush
      <3>3. MayClaim(RootLevel, Solutions, Answers, trail_lim, l, 0, {})
        <4>1. Entailed(Solutions, {l}) /\ Entailed(Answers, {l})
          BY <1>4, <1>6, <2>2 DEF Entailed
        <4>2. QED
          BY <4>1 DEF MayClaim
      <3>4. TrailSound(RootLevel, trail', trail_lim, level', reason', cs2)
        BY <1>0, <1>4, <1>10, <2>2, <2>3, <3>2, PushSound
      <3>5. MeaningSound(RootLevel, Solutions, Answers, trail', trail_lim, level', reason', cs2)
        BY <1>0, <1>4, <1>11, <2>2, <2>3, <3>1, <3>3, PushMeaning
      <3>6. TrailInv' /\ MeaningInv'
        BY <1>0, <2>3, <3>4, <3>5, SoundNext DEF cs2
      <3>7. QED
        BY <1>7, <3>6
    <2>6. QED
      BY <2>4, <2>5
  <1>14. QED
    BY <1>2, <1>12, <1>13 DEF qs

(***************************************************************************)
(* The answers.                                                            *)
(***************************************************************************)
\* What is false before the first decision is in no answer.
LEMMA FalseUnderAssumptions ==
    ASSUME StepOf, DecisionLevel <= RootLevel, NEW l \in Literals, IsFalse(l), NEW a \in Answers
    PROVE  l \notin a
  <1>0. problem \in Problems /\ TrailTyped /\ MeaningInv
    BY DEF StepOf
  <1>1. PICK i \in 1 .. Len(trail) : trail[i] = -l
    BY <1>0, TruthOnTrail
  <1>2. Height(trail, trail_lim, RootLevel) = Len(trail)
    BY <1>0, RootFacts, HeightFacts
  <1>3. Entailed(Answers, {trail[i]})
    BY <1>0, <1>1, <1>2 DEF MeaningInv, MeaningSound
  <1>4. -l \in a /\ a \in Solutions
    BY <1>1, <1>3 DEF Entailed, Answers
  <1>5. QED
    BY <1>0, <1>4, SolutionFacts

\* What is asked of the assumption that is next.
LEMMA NextAssumption ==
    ASSUME problem \in Problems, TrailTyped, DecisionLevel < RootLevel
    PROVE  LET p == problem.assumptions[DecisionLevel + 1]
           IN p \in Literals /\ Entailed(Answers, {p})
  <1> DEFINE p == problem.assumptions[DecisionLevel + 1]
  <1>1. problem.assumptions \in Seq(Literals) /\ RootLevel = Len(problem.assumptions)
    BY ProblemTyped DEF RootLevel
  <1>2. DecisionLevel \in Nat
    BY RootFacts
  <1>3. DecisionLevel + 1 \in DOMAIN problem.assumptions
    BY <1>1, <1>2
  <1>4. p \in Literals
    BY <1>1, <1>3
  <1>5. p \in ToSet(problem.assumptions)
    BY <1>3, ElementsOf
  <1>6. Entailed(Answers, {p})
    BY <1>5 DEF Entailed, Answers
  <1>7. QED
    BY <1>4, <1>6

\* The solver says that there is no answer only if there is none.
LEMMA UnsatRight ==
    ASSUME StepOf, VerdictInv,
           \/ Solve /\ ~ok
           \/ Contradiction
           \/ MakeAssumption /\ IsFalse(problem.assumptions[DecisionLevel + 1])
    PROVE  Answers = {}
  <1>0. /\ problem \in Problems /\ ClausesTyped /\ TrailTyped /\ MeaningInv
        /\ Answers \subseteq Solutions
        /\ RootLevel \in Nat /\ DecisionLevel \in Nat
    BY RootFacts DEF StepOf
  <1>1. CASE Solve /\ ~ok
    BY <1>0, <1>1 DEF Solve, VerdictInv
  <1>2. CASE Contradiction
    <2>1. DecisionLevel <= RootLevel
      BY <1>0, <1>2 DEF Contradiction, Hopeless, VerdictInv
    <2>2. PICK c \in ClauseDatabase : Falsified(c)
      BY <1>2 DEF Contradiction
    <2>3. Entailed(Solutions, c) /\ c \in SUBSET Literals
      BY <1>0 DEF MeaningInv, MeaningSound, ClausesTyped, ClauseDatabase
    <2>4. SUFFICES ASSUME NEW a \in Answers PROVE FALSE
      OBVIOUS
    <2>5. PICK y \in c : y \in a
      BY <1>0, <2>3 DEF Entailed
    <2>6. QED
      BY <2>1, <2>2, <2>3, <2>5, FalseUnderAssumptions DEF Falsified
  <1>3. CASE MakeAssumption /\ IsFalse(problem.assumptions[DecisionLevel + 1])
    <2> DEFINE p == problem.assumptions[DecisionLevel + 1]
    <2>1. DecisionLevel < RootLevel
      BY <1>3 DEF MakeAssumption
    <2>2. p \in Literals /\ Entailed(Answers, {p})
      BY <1>0, <2>1, NextAssumption
    <2> HIDE DEF p
    <2>3. IsFalse(p) /\ DecisionLevel <= RootLevel
      BY <1>0, <1>3, <2>1 DEF p
    <2>4. SUFFICES ASSUME NEW a \in Answers PROVE FALSE
      OBVIOUS
    <2>5. p \in a
      BY <2>2 DEF Entailed
    <2>6. QED
      BY <2>2, <2>3, <2>5, FalseUnderAssumptions
  <1>4. QED
    BY <1>1, <1>2, <1>3

\* The model it finds is an answer.
LEMMA SatRight ==
    ASSUME StepOf, SolverInv, SearchInv, ModelFound
    PROVE  model' \in Answers
  <1>0. /\ problem \in Problems /\ problem' = problem /\ TrailTyped /\ TrailInv
        /\ model' = ToSet(trail) /\ verdict' = "sat"
    BY DEF StepOf, ModelFound
  <1>1. /\ \A v \in Variables : v \in model' \/ -v \in model'
        /\ \A i \in DOMAIN problem.clauses : problem.clauses[i] \cap model' # {}
        /\ ToSet(problem.assumptions) \subseteq model'
    <2>1. ModelSolves'
      BY ModelFoundSolves
    <2>2. QED
      BY <1>0, <2>1, ProblemStays DEF ModelSolves
  <1> DEFINE M == ToSet(trail)
             chosen == {v \in Variables : v \in M}
             a == {IF v \in chosen THEN v ELSE -v : v \in Variables}
  <1>2. ASSUME NEW x \in M PROVE x \in a
    <2>1. PICK i \in 1 .. Len(trail) : trail[i] = x
      BY <1>0, TruthOnTrail DEF IsTrue
    <2>2. x \in Literals
      BY <1>0, <2>1, TopOfTrail
    <2>3. Var(x) \in Variables /\ (x = Var(x) \/ x = -Var(x))
      BY <1>0, <2>2, VarFacts
    <2>4. CASE x = Var(x)
      BY <2>3, <2>4
    <2>5. CASE x = -Var(x)
      <3>1. Var(x) \in Literals
        BY <1>0, <2>3, LiteralFacts
      <3>2. Var(x) \notin M
        BY <1>0, <2>5, <3>1, NotBoth DEF IsTrue, IsFalse
      <3>3. QED
        BY <2>3, <2>5, <3>2
    <2>6. QED
      BY <2>3, <2>4, <2>5
  <1>3. ASSUME NEW x \in a PROVE x \in M
    BY <1>0, <1>1
  <1>4. M = a
    BY <1>2, <1>3
  <1>5. a \in Assignments
    BY DEF Assignments
  <1> HIDE DEF M, a
  <1>6. QED
    BY <1>0, <1>1, <1>4, <1>5 DEF Answers, Solutions, M

(***************************************************************************)
(* The invariant, and the theorems.                                        *)
(***************************************************************************)
LEMMA SoundInvInit == Init => SoundInv
  <1> SUFFICES ASSUME Init PROVE SoundInv
    OBVIOUS
  <1>1. /\ problem \in Problems /\ trail = << >> /\ trail_lim = << >> /\ ClauseDatabase = {}
        /\ phase = "add" /\ ok /\ verdict = "none" /\ model = {}
    BY DEF Init, ClauseDatabase
  <1>2. DOMAIN trail = {} /\ Len(trail) = 0 /\ Len(trail_lim) = 0 /\ RootLevel \in Nat
    BY <1>1, ProblemTyped
  <1>3. TrailInv
    BY <1>1, <1>2 DEF TrailInv, TrailSound, AssignedOnce, LevelsRight, FixedBelow, DecisionFirst,
                      Supported, LevelSupported, ReasonsKept, QuietBelow
  <1>4. Height(trail, trail_lim, RootLevel) = 0
    BY <1>2 DEF Height
  <1>5. MeaningInv
    BY <1>1, <1>2, <1>4 DEF MeaningInv, MeaningSound
  <1>6. VerdictInv
    BY <1>1 DEF VerdictInv
  <1>7. QED
    BY <1>3, <1>5, <1>6 DEF SoundInv

LEMMA SoundInvNext == SolverInv /\ SolverInv' /\ SearchInv /\ SoundInv /\ [Next]_solverVars => SoundInv'
  <1> SUFFICES ASSUME SolverInv, SolverInv', SearchInv, SoundInv, [Next]_solverVars PROVE SoundInv'
    OBVIOUS
  <1>1. problem' = problem
    BY DEF Next, solverVars, NewClause, Solve, Propagate, Contradiction, Learn,
           MakeAssumption, StartSearch, Restart, Decide, ModelFound
  <1>2. StepOf
    BY <1>1 DEF SolverInv, SoundInv, StepOf
  <1>3. /\ problem \in Problems /\ added \in Nat /\ TrailTyped /\ VerdictInv
        /\ RootLevel \in Nat /\ DecisionLevel \in Nat /\ DecisionLevel = Len(trail_lim)
    BY RootFacts DEF SolverInv, SoundInv
  <1>4. Solutions' = Solutions /\ RootLevel' = RootLevel
    BY <1>1 DEF Solutions, Assignments, Variables, RootLevel
  <1>5. ASSUME CancelUntil(0), clauses' = clauses, learnts' = learnts PROVE TrailInv' /\ MeaningInv'
    <2>1. ClauseDatabase' = ClauseDatabase
      BY <1>5 DEF ClauseDatabase
    <2>2. QED
      BY <1>2, <1>5, <2>1, CancelNext DEF CancelUntil
  <1>6. ASSUME UNCHANGED <<trail, trail_lim, level, reason>>, clauses' = clauses, learnts' = learnts
        PROVE  TrailInv' /\ MeaningInv'
    <2>1. ClauseDatabase' = ClauseDatabase
      BY <1>6 DEF ClauseDatabase
    <2>2. QED
      BY <1>1, <1>2, <1>6, <2>1, SoundNext DEF StepOf, TrailInv, MeaningInv
  <1>7. CASE NewClause
    <2>1. trail_lim = << >> /\ (~ok => Solutions = {})
      BY <1>3, <1>7 DEF NewClause, SearchInv, VerdictInv
    <2>2. TrailInv' /\ MeaningInv' /\ (~ok' => Solutions = {})
      BY <1>2, <1>3, <1>7, <2>1, NewClauseNext
    <2>3. VerdictInv'
      BY <1>3, <1>4, <1>7, <2>2 DEF NewClause, VerdictInv, answerVars
    <2>4. QED
      BY <2>2, <2>3 DEF SoundInv
  <1>8. CASE Solve
    <2>1. CASE ok
      <3>1. UNCHANGED <<trail, trail_lim, level, reason>> /\ UNCHANGED answerVars /\ phase' = "assume"
            /\ clauses' = clauses /\ learnts' = learnts
        BY <1>8, <2>1 DEF Solve, trailVars
      <3>2. DecisionLevel' = 0
        BY <1>8, <3>1 DEF Solve, SearchInv, DecisionLevel
      <3>3. VerdictInv'
        BY <1>3, <1>4, <3>1, <3>2 DEF VerdictInv, answerVars
      <3>4. QED
        BY <1>6, <3>1, <3>3 DEF SoundInv
    <2>2. CASE ~ok
      <3>1. CancelUntil(0) /\ phase' = "done" /\ verdict' = "unsat"
            /\ clauses' = clauses /\ learnts' = learnts
        BY <1>8, <2>2 DEF Solve, Answer
      <3>2. VerdictInv'
        BY <3>1 DEF VerdictInv
      <3>3. QED
        BY <1>5, <3>1, <3>2 DEF SoundInv
    <2>3. QED
      BY <2>1, <2>2
  <1>9. CASE Propagate
    <2>1. TrailInv' /\ MeaningInv'
      BY <1>2, <1>9, PropagateNext
    <2>2. trail_lim' = trail_lim /\ phase' = phase /\ ok' = ok /\ UNCHANGED answerVars
      BY <1>9 DEF Propagate, Enqueue
    <2>3. VerdictInv'
      BY <1>3, <1>4, <2>2 DEF VerdictInv, answerVars, DecisionLevel
    <2>4. QED
      BY <2>1, <2>3 DEF SoundInv
  <1>10. CASE Contradiction
    <2>1. CancelUntil(0) /\ phase' = "done" /\ verdict' = "unsat"
          /\ clauses' = clauses /\ learnts' = learnts
      BY <1>10 DEF Contradiction, Answer
    <2>2. VerdictInv'
      BY <2>1 DEF VerdictInv
    <2>3. QED
      BY <1>5, <2>1, <2>2 DEF SoundInv
  <1>11. CASE Learn
    <2>1. TrailInv' /\ MeaningInv'
      BY <1>2, <1>11, LearnNext
    <2>2. phase = "search" /\ phase' = phase /\ UNCHANGED answerVars
      BY <1>11 DEF Learn
    <2>3. VerdictInv'
      BY <1>3, <2>2 DEF VerdictInv, answerVars
    <2>4. QED
      BY <2>1, <2>3 DEF SoundInv
  <1>12. CASE MakeAssumption
    <2> DEFINE p == problem.assumptions[DecisionLevel + 1]
    <2>1. /\ Quiescent /\ DecisionLevel < RootLevel /\ learnts' = learnts /\ phase = "assume"
          /\ \E due \in BOOLEAN : clauses' = Simplified(clauses, due)
          /\ IF IsFalse(p) THEN Answer("unsat", {})
             ELSE Assume(p) /\ UNCHANGED <<phase, order, answerVars>>
      BY <1>12 DEF MakeAssumption
    <2>2. /\ ClauseDatabase' \subseteq ClauseDatabase
          /\ \A c \in ClauseDatabase : Cardinality(c) > 2 /\ Locked(c) => c \in ClauseDatabase'
      BY <2>1, HousekeepingReduces
    <2>3. p \in Literals /\ Entailed(Answers, {p})
      BY <1>3, <2>1, NextAssumption
    <2> HIDE DEF p
    <2>4. CASE IsFalse(p)
      <3>1. CancelUntil(0) /\ phase' = "done" /\ verdict' = "unsat"
        BY <2>1, <2>4 DEF Answer
      <3>2. TrailInv' /\ MeaningInv'
        BY <1>2, <2>2, <3>1, CancelNext DEF CancelUntil
      <3>3. VerdictInv'
        BY <3>1 DEF VerdictInv
      <3>4. QED
        BY <3>2, <3>3 DEF SoundInv
    <2>5. CASE ~IsFalse(p)
      <3>1. Assume(p) /\ phase' = phase /\ UNCHANGED answerVars
        BY <2>1, <2>5
      <3>2. TrailInv' /\ MeaningInv'
        BY <1>2, <2>1, <2>2, <2>3, <2>5, <3>1, AssumeNext
      <3>3. DecisionLevel' = DecisionLevel + 1
        <4>1. trail_lim' = Append(trail_lim, Len(trail))
          BY <3>1 DEF Assume
        <4>2. trail_lim \in Seq(Nat) /\ Len(trail) \in Nat
          BY <1>3 DEF TrailTyped, LevelsTyped
        <4>3. QED
          BY <4>1, <4>2 DEF DecisionLevel
      <3>4. VerdictInv'
        BY <1>3, <1>4, <2>1, <3>1, <3>3 DEF VerdictInv, answerVars
      <3>5. QED
        BY <3>2, <3>4 DEF SoundInv
    <2>6. QED
      BY <2>4, <2>5
  <1>13. CASE StartSearch
    <2>1. UNCHANGED <<trail, trail_lim, level, reason>> /\ UNCHANGED answerVars /\ phase' = "search"
          /\ clauses' = clauses /\ learnts' = learnts
      BY <1>13 DEF StartSearch, trailVars
    <2>2. VerdictInv'
      BY <1>3, <2>1 DEF VerdictInv, answerVars
    <2>3. QED
      BY <1>6, <2>1, <2>2 DEF SoundInv
  <1>14. CASE Restart
    <2>1. CancelUntil(RootLevel) /\ phase = "search" /\ phase' = phase /\ UNCHANGED answerVars
          /\ clauses' = clauses /\ learnts' = learnts
      BY <1>14 DEF Restart
    <2>2. ClauseDatabase' = ClauseDatabase
      BY <2>1 DEF ClauseDatabase
    <2>3. TrailInv' /\ MeaningInv'
      BY <1>2, <1>3, <2>1, <2>2, CancelNext DEF CancelUntil
    <2>4. VerdictInv'
      BY <1>3, <2>1 DEF VerdictInv, answerVars
    <2>5. QED
      BY <2>3, <2>4 DEF SoundInv
  <1>15. CASE Decide
    <2>1. PICK k \in Selectable : Assume(Decision(order[k]))
      BY <1>15 DEF Decide
    <2>2. /\ Quiescent /\ Housekeeping /\ phase = "search" /\ phase' = phase /\ UNCHANGED answerVars
      BY <1>15 DEF Decide
    <2>3. /\ ClauseDatabase' \subseteq ClauseDatabase
          /\ \A c \in ClauseDatabase : Cardinality(c) > 2 /\ Locked(c) => c \in ClauseDatabase'
      BY <2>2, HousekeepingReduces
    <2>4. order[k] \in Variables
      BY <1>3 DEF TrailTyped, Selectable
    <2>5. -order[k] \in Literals /\ ~IsFalse(-order[k]) /\ Decision(order[k]) = -order[k]
      <3>1. -order[k] \in Literals /\ -(-order[k]) = order[k]
        BY <1>3, <2>4, LiteralFacts, VarFacts
      <3>2. ~IsTrue(order[k])
        BY DEF Selectable, IsUndef
      <3>3. QED
        BY <3>1, <3>2 DEF IsTrue, IsFalse, Decision
    <2>6. ~(DecisionLevel < RootLevel)
      BY <1>3, <2>2 DEF SearchInv
    <2>7. TrailInv' /\ MeaningInv'
      BY <1>2, <2>1, <2>2, <2>3, <2>5, <2>6, AssumeNext
    <2>8. VerdictInv'
      BY <1>3, <2>2 DEF VerdictInv, answerVars
    <2>9. QED
      BY <2>7, <2>8 DEF SoundInv
  <1>16. CASE ModelFound
    <2>1. /\ Housekeeping /\ phase' = "done" /\ verdict' = "sat" /\ trail' = Kept(0)
          /\ trail_lim' = << >> /\ reason' = KeptReasons(0) /\ level' = level
      BY <1>16 DEF ModelFound
    <2>2. /\ ClauseDatabase' \subseteq ClauseDatabase
          /\ \A c \in ClauseDatabase : Cardinality(c) > 2 /\ Locked(c) => c \in ClauseDatabase'
      BY <2>1, HousekeepingReduces
    <2>3. KeptLevels(0) = << >>
      <3>1. KeptLevels(0) \in Seq(Nat) /\ Len(KeptLevels(0)) = 0
        BY <1>3, KeptLevelsTyped, CancelledLevels
      <3>2. QED
        BY <3>1
    <2>4. TrailInv' /\ MeaningInv'
      BY <1>2, <2>1, <2>2, <2>3, CancelNext
    <2>5. VerdictInv'
      BY <2>1 DEF VerdictInv
    <2>6. QED
      BY <2>4, <2>5 DEF SoundInv
  <1>17. CASE UNCHANGED solverVars
    <2>1. /\ UNCHANGED <<trail, trail_lim, level, reason>> /\ UNCHANGED answerVars
          /\ clauses' = clauses /\ learnts' = learnts /\ phase' = phase /\ ok' = ok
      BY <1>17 DEF solverVars, trailVars
    <2>2. VerdictInv'
      BY <1>3, <1>4, <2>1 DEF VerdictInv, answerVars, DecisionLevel
    <2>3. QED
      BY <1>6, <2>1, <2>2 DEF SoundInv
  <1>18. QED
    BY <1>7, <1>8, <1>9, <1>10, <1>11, <1>12, <1>13, <1>14, <1>15, <1>16, <1>17 DEF Next

LEMMA SoundInvHolds == Spec => [](SolverInv /\ SearchInv /\ SoundInv)
  <1>1. Init => SolverInv /\ SearchInv /\ SoundInv
    BY SolverInvInit, SearchInvInit, SoundInvInit
  <1>2. SolverInv /\ SearchInv /\ SoundInv /\ [Next]_solverVars => (SolverInv /\ SearchInv /\ SoundInv)'
    BY SolverInvNext, SearchInvNext, SoundInvNext
  <1>3. QED
    BY <1>1, <1>2, PTL DEF Spec

\* Whatever the problem, an implied literal stays supported by its reason, and a
\* reason that is freed with its memory is never freed while it is one
\* (Solver.cpp:526-545 and 556-595).
THEOREM ReasonsAlwaysSupported == Spec => []ReasonsSupported
  <1>1. SolverInv /\ SoundInv => ReasonsSupported
    BY DEF SoundInv, TrailInv, TrailSound, Supported, SupportedAt, ReasonsKept, ReasonsSupported
  <1>2. QED
    BY <1>1, SoundInvHolds, PTL

\* Whatever the problem, a conflict is analysed into a clause that asserts a literal
\* at the level the search goes back to, minimized or not (Solver.cpp:237-320).
THEOREM ConflictsAssert == Spec => []LearntAsserts
  <1>1. SolverInv /\ SearchInv /\ SoundInv => LearntAsserts
    <2> SUFFICES ASSUME SolverInv, SoundInv, DecisionLevel > RootLevel,
                        NEW confl \in ClauseDatabase, Falsified(confl)
                 PROVE  LET uip == FirstUIP(confl)
                            learnt == Minimized(uip)
                            b == BacktrackLevel(uip)
                        IN /\ Falsified(learnt)
                           /\ Cardinality(AtCurrentLevel(learnt)) = 1
                           /\ b < DecisionLevel
                           /\ b > RootLevel => \E l \in learnt : level[Var(l)] = b
      BY DEF LearntAsserts
    <2> DEFINE uip == FirstUIP(confl)
               learnt == Minimized(uip)
               b == BacktrackLevel(uip)
    <2>1. problem \in Problems /\ ClausesTyped /\ TrailTyped /\ TrailInv /\ MeaningInv
      BY DEF SolverInv, SoundInv
    <2>2. PICK l : AtCurrentLevel(uip) = {l}
      BY <2>1, FirstUIPAnalysed
    <2>3. Asserts(learnt, l, b)
      BY <2>1, <2>2, AnalysisAsserts
    <2> HIDE DEF b, uip
    <2>4. learnt \subseteq uip
      BY DEF Minimized
    <2> HIDE DEF learnt
    <2>5. AtCurrentLevel(learnt) = {l}
      BY <2>2, <2>3, <2>4 DEF Asserts, AtCurrentLevel
    <2>6. Cardinality(AtCurrentLevel(learnt)) = 1
      BY <2>5, FS_Singleton
    <2>7. QED
      BY <2>3, <2>6 DEF Asserts, Falsified, learnt, b, uip
  <1>2. QED
    BY <1>1, SoundInvHolds, PTL

\* Whatever the problem, what is learnt and what is fixed for good follows from the
\* clauses alone (Solver.cpp:638).
THEOREM LearntAlwaysImplied == Spec => []LearntImplied
  <1>1. SolverInv /\ SoundInv => LearntImplied
    <2> SUFFICES ASSUME SolverInv, SoundInv PROVE LearntImplied
      OBVIOUS
    <2>1. problem \in Problems /\ TrailTyped /\ MeaningInv
      BY DEF SolverInv, SoundInv
    <2>2. \A c \in learnts : \A a \in Solutions : c \cap a # {}
      BY <2>1 DEF MeaningInv, MeaningSound, ClauseDatabase, Entailed
    <2>3. ASSUME NEW l \in ToSet(trail), level[Var(l)] = 0, NEW a \in Solutions PROVE l \in a
      <3>1. PICK i \in DOMAIN trail : trail[i] = l
        BY ElementsOf
      <3>2. Entailed(Solutions, {trail[i]})
        BY <2>1, <2>3, <3>1 DEF MeaningInv, MeaningSound
      <3>3. QED
        BY <3>1, <3>2 DEF Entailed
    <2>4. QED
      BY <2>2, <2>3 DEF LearntImplied
  <1>2. QED
    BY <1>1, SoundInvHolds, PTL

\* A step of the solver is a step of the promise, or changes nothing it speaks of.
LEMMA AnswerNext ==
    SolverInv /\ SolverInv' /\ SearchInv /\ SoundInv /\ [Next]_solverVars
        => [Promise!Next]_<<Answers, verdict, model>>
  <1> SUFFICES ASSUME SolverInv, SolverInv', SearchInv, SoundInv, [Next]_solverVars
               PROVE  [Promise!Next]_<<Answers, verdict, model>>
    OBVIOUS
  <1>1. problem' = problem
    BY DEF Next, solverVars, NewClause, Solve, Propagate, Contradiction, Learn,
           MakeAssumption, StartSearch, Restart, Decide, ModelFound
  <1>2. StepOf /\ VerdictInv
    BY <1>1 DEF SolverInv, SoundInv, StepOf
  <1>3. Answers' = Answers
    BY <1>1 DEF Answers, Solutions, Assignments, Variables
  <1>4. phase \in {"add", "assume", "search"} => verdict = "none" /\ model = {}
    BY <1>2 DEF SearchInv, VerdictInv
  <1>5. CASE UNCHANGED answerVars
    BY <1>3, <1>5 DEF answerVars
  <1>6. ASSUME phase \in {"add", "assume", "search"}, Answer("unsat", {}), Answers = {}
        PROVE  Promise!Refute
    BY <1>3, <1>4, <1>6 DEF Promise!Refute, Answer
  <1>7. CASE Solve
    <2>1. CASE ok
      BY <1>5, <1>7, <2>1 DEF Solve
    <2>2. CASE ~ok
      <3>1. phase = "add" /\ Answer("unsat", {}) /\ Answers = {}
        BY <1>2, <1>7, <2>2, UnsatRight DEF Solve
      <3>2. QED
        BY <1>6, <3>1 DEF Promise!Next
    <2>3. QED
      BY <2>1, <2>2
  <1>8. CASE Contradiction
    <2>1. phase \in {"assume", "search"} /\ Answer("unsat", {}) /\ Answers = {}
      BY <1>2, <1>8, UnsatRight DEF Contradiction
    <2>2. QED
      BY <1>6, <2>1 DEF Promise!Next
  <1>9. CASE MakeAssumption
    <2> DEFINE p == problem.assumptions[DecisionLevel + 1]
    <2>1. /\ phase = "assume"
          /\ IF IsFalse(p) THEN Answer("unsat", {})
             ELSE Assume(p) /\ UNCHANGED <<phase, order, answerVars>>
      BY <1>9 DEF MakeAssumption
    <2>2. CASE IsFalse(p)
      <3>1. Answers = {}
        BY <1>2, <1>9, <2>2, UnsatRight
      <3>2. QED
        BY <1>6, <2>1, <2>2, <3>1 DEF Promise!Next
    <2>3. CASE ~IsFalse(p)
      BY <1>5, <2>1, <2>3
    <2>4. QED
      BY <2>2, <2>3
  <1>10. CASE ModelFound
    <2>1. phase = "search" /\ verdict' = "sat"
      BY <1>10 DEF ModelFound
    <2>2. model' \in Answers
      BY <1>2, <1>10, SatRight
    <2>3. Promise!FindModel
      BY <1>3, <1>4, <2>1, <2>2 DEF Promise!FindModel
    <2>4. QED
      BY <2>3 DEF Promise!Next
  <1>11. CASE UNCHANGED solverVars
    BY <1>5, <1>11 DEF solverVars
  <1>12. CASE NewClause \/ Propagate \/ Learn \/ StartSearch \/ Restart \/ Decide
    BY <1>5, <1>12 DEF NewClause, Propagate, Learn, StartSearch, Restart, Decide
  <1>13. QED
    BY <1>7, <1>8, <1>9, <1>10, <1>11, <1>12 DEF Next

\* Whatever the problem, the solver gives one answer, and it is the right one: a model
\* that solves the problem, or that there is none (Solver.cpp:675-780). It does not
\* matter which clauses were dropped, when it was restarted, and what was learnt.
THEOREM AnswersRight == Spec => AnswersAsPromised
  <1>1. Init => Promise!Init
    BY DEF Init, Promise!Init
  <1>2. SolverInv /\ SearchInv /\ SoundInv /\ SolverInv' /\ [Next]_solverVars
            => [Promise!Next]_<<Answers, verdict, model>>
    BY AnswerNext
  <1>3. QED
    BY <1>1, <1>2, SoundInvHolds, PTL DEF Spec, AnswersAsPromised, Promise!Spec

(***************************************************************************)
(* The types: above the assumptions every level has a literal of its own,  *)
(* so there are never more levels than variables and assumptions.          *)
(***************************************************************************)
Owned(R, t, lim) == \A d \in R .. Len(lim) : d - R <= Height(t, lim, d)

LEMMA CutOwned ==
    ASSUME NEW R \in Nat, NEW t, NEW lim, NEW t2, NEW lim2, NEW b \in Nat,
           Shaped(t, lim), Shaped(t2, lim2), CutTo(t, lim, t2, lim2, b), Owned(R, t, lim)
    PROVE  Owned(R, t2, lim2)
  <1> SUFFICES ASSUME NEW d \in R .. Len(lim2) PROVE d - R <= Height(t2, lim2, d)
    BY DEF Owned
  <1>1. Len(lim2) <= b /\ Len(lim2) <= Len(lim) /\ Len(lim) \in Nat /\ Len(lim2) \in Nat
    BY CutHeights, HeightFacts
  <1>2. d \in Nat /\ d <= b /\ d \in R .. Len(lim)
    BY <1>1
  <1>3. Height(t2, lim2, d) = Height(t, lim, d)
    BY <1>2, CutHeights
  <1>4. QED
    BY <1>2, <1>3 DEF Owned

LEMMA PushOwned ==
    ASSUME NEW R \in Nat, NEW t, NEW lim, NEW l \in Literals, Shaped(t, lim), Owned(R, t, lim)
    PROVE  Owned(R, Append(t, l), lim)
  <1> DEFINE t2 == Append(t, l)
  <1> SUFFICES ASSUME NEW d \in R .. Len(lim) PROVE d - R <= Height(t2, lim, d)
    BY DEF Owned
  <1>1. Grown(t, lim, l, t2)
    BY PushHeights
  <1> HIDE DEF t2
  <1>2. Len(lim) \in Nat /\ \A e \in Nat : Height(t, lim, e) \in Nat
    BY HeightFacts
  <1>3. /\ \A e \in Nat : Height(t, lim, e) <= Height(t2, lim, e)
        /\ \A e \in Nat : Height(t2, lim, e) \in Nat
    BY <1>1 DEF Grown
  <1>4. d \in Nat /\ d - R <= Height(t, lim, d)
    BY <1>2 DEF Owned
  <1>5. Height(t, lim, d) <= Height(t2, lim, d) /\ Height(t, lim, d) \in Nat /\ Height(t2, lim, d) \in Nat
    BY <1>2, <1>3, <1>4
  <1>6. QED
    BY <1>4, <1>5

\* A level is opened with a literal, unless it is a level of the assumptions.
LEMMA OpenOwned ==
    ASSUME NEW R \in Nat, NEW t, NEW lim, NEW t2, NEW lim2, Shaped(t, lim), Shaped(t2, lim2),
           lim2 = Append(lim, Len(t)), Owned(R, t, lim),
           t2 = t \/ \E l \in Literals : t2 = Append(t, l),
           Len(lim) >= R => Len(t2) = Len(t) + 1
    PROVE  Owned(R, t2, lim2)
  <1>1. /\ Len(lim) \in Nat /\ Len(t) \in Nat /\ Len(t2) \in Nat
        /\ \A d \in Nat : Height(t, lim, d) \in Nat
        /\ \A d \in Nat : d >= Len(lim) => Height(t, lim, d) = Len(t)
        /\ \A d \in Nat : d >= Len(lim2) => Height(t2, lim2, d) = Len(t2)
    BY HeightFacts
  <1>2. Opened(t, lim, lim2)
    BY OpenHeights
  <1>3. Len(lim2) = Len(lim) + 1
    BY <1>2 DEF Opened
  <1>4. \A d \in Nat : d <= Len(lim) => Height(t2, lim2, d) = Height(t, lim, d)
    <2> SUFFICES ASSUME NEW d \in Nat, d <= Len(lim) PROVE Height(t2, lim2, d) = Height(t, lim, d)
      OBVIOUS
    <2>1. d < Len(lim2)
      BY <1>1, <1>3
    <2>2. Height(t2, lim2, d) = Height(t, lim2, d)
      BY <2>1 DEF Height
    <2>3. QED
      BY <1>2, <2>2 DEF Opened
  <1>5. ASSUME NEW d \in R .. Len(lim2) PROVE d - R <= Height(t2, lim2, d)
    <2>1. CASE d <= Len(lim)
      <3>1. d \in Nat /\ d \in R .. Len(lim)
        BY <1>1, <1>3, <2>1
      <3>2. QED
        BY <1>4, <2>1, <3>1 DEF Owned
    <2>2. CASE ~(d <= Len(lim))
      <3>1. d = Len(lim) + 1 /\ d \in Nat /\ d >= Len(lim2)
        BY <1>1, <1>3, <2>2
      <3>2. Height(t2, lim2, d) = Len(t2)
        BY <1>1, <3>1
      <3>3. CASE Len(lim) >= R
        <4>1. Len(lim) - R <= Height(t, lim, Len(lim))
          BY <1>1, <3>3 DEF Owned
        <4>2. Height(t, lim, Len(lim)) = Len(t) /\ Len(t2) = Len(t) + 1
          BY <1>1, <3>3
        <4>3. QED
          BY <1>1, <3>1, <3>2, <4>1, <4>2
      <3>4. CASE ~(Len(lim) >= R)
        BY <1>1, <3>1, <3>2, <3>4
      <3>5. QED
        BY <3>3, <3>4
    <2>3. QED
      BY <2>1, <2>2
  <1>6. QED
    BY <1>5 DEF Owned

\* No variable is assigned twice, so the trail is no longer than there are variables.
LEMMA LevelsFit ==
    ASSUME problem \in Problems, NEW t, NEW lim, Shaped(t, lim), AssignedOnce(t),
           Owned(RootLevel, t, lim)
    PROVE  Len(t) <= problem.vars /\ Len(lim) <= problem.vars + RootLevel
  <1> DEFINE n == Len(t)
             f == [i \in 1 .. n |-> Var(t[i])]
  <1>1. /\ n \in Nat /\ Len(lim) \in Nat /\ \A i \in 1 .. n : t[i] \in Literals
        /\ DOMAIN t = 1 .. n
        /\ problem.vars \in Nat /\ RootLevel \in Nat
    BY HeightFacts, ProblemTyped
  <1>a. Height(t, lim, Len(lim)) = n
    BY <1>1, HeightFacts
  <1> HIDE DEF n
  <1>2. f \in [1 .. n -> Variables]
    BY <1>1, VarFacts
  <1>3. ASSUME NEW i \in 1 .. n, NEW j \in 1 .. n, i # j PROVE f[i] # f[j]
    <2>1. t[i] # t[j] /\ t[i] # -t[j]
      BY <1>1, <1>3 DEF AssignedOnce
    <2>2. QED
      BY <1>1, <2>1, VarFacts
  <1>4. f \in Injection(1 .. n, Variables)
    BY <1>2, <1>3 DEF Injection, IsInjective
  <1>5. /\ IsFiniteSet(1 .. n) /\ Cardinality(1 .. n) = n
        /\ IsFiniteSet(1 .. problem.vars) /\ Cardinality(1 .. problem.vars) = problem.vars
    <2>1. ASSUME NEW k \in Nat PROVE IsFiniteSet(1 .. k) /\ Cardinality(1 .. k) = k
      <3>1. /\ IsFiniteSet(1 .. k)
            /\ Cardinality(1 .. k) = IF 1 > k THEN 0 ELSE k - 1 + 1
        BY FS_Interval
      <3>2. QED
        BY <3>1
    <2>2. QED
      BY <1>1, <2>1
  <1>6. n <= problem.vars
    BY <1>1, <1>4, <1>5, FS_Injection DEF Variables
  <1>7. Len(lim) <= problem.vars + RootLevel
    <2>1. CASE Len(lim) < RootLevel
      BY <1>1, <2>1
    <2>2. CASE Len(lim) >= RootLevel
      <3>1. Len(lim) - RootLevel <= Height(t, lim, Len(lim))
        BY <1>1, <2>2 DEF Owned
      <3>2. QED
        BY <1>1, <1>6, <1>a, <3>1
    <2>3. QED
      BY <1>1, <2>1, <2>2
  <1>8. QED
    BY <1>6, <1>7 DEF n

RangeInv ==
    /\ phase \in {"add", "assume", "search", "done"}
    /\ added <= Len(problem.clauses)
    /\ ok \in BOOLEAN
    /\ Owned(RootLevel, trail, trail_lim)
    /\ level \in [Variables -> -1 .. problem.vars + RootLevel]
    /\ conflictC \in Nat /\ limit \in Nat
    /\ verdict \in {"none", "sat", "unsat"}
    /\ model \subseteq Literals

\* What a step may do to the trail, its levels and the levels of the variables.
LevelStep ==
    \/ UNCHANGED <<trail, trail_lim, level>>
    \/ \E b \in Nat : trail' = Kept(b) /\ trail_lim' = KeptLevels(b) /\ level' = level
    \/ \E l \in Literals : /\ trail' = Append(trail, l) /\ trail_lim' = trail_lim
                            /\ level' = [level EXCEPT ![Var(l)] = DecisionLevel]
    \/ \E l \in Literals : Assume(l) /\ (DecisionLevel >= RootLevel => ~IsTrue(l))
    \/ \E l \in Literals, b \in Nat :
          /\ trail' = Append(Kept(b), l) /\ trail_lim' = KeptLevels(b)
          /\ b < DecisionLevel
          /\ level' = [level EXCEPT ![Var(l)] = 0] \/ level' = [level EXCEPT ![Var(l)] = b]

LEMMA LevelStepOwned ==
    ASSUME StepOf, Owned(RootLevel, trail, trail_lim), LevelStep
    PROVE  Owned(RootLevel, trail', trail_lim')
  <1>1. /\ RootLevel \in Nat /\ DecisionLevel \in Nat /\ DecisionLevel = Len(trail_lim)
        /\ Shaped(trail, trail_lim) /\ Shaped(trail', trail_lim')
    BY RootFacts, ShapedNext DEF StepOf
  <1>2. ASSUME NEW b \in Nat
        PROVE  Shaped(Kept(b), KeptLevels(b)) /\ Owned(RootLevel, Kept(b), KeptLevels(b))
    <2>1. Shaped(Kept(b), KeptLevels(b)) /\ CutTo(trail, trail_lim, Kept(b), KeptLevels(b), b)
      BY CancelSound DEF StepOf
    <2>2. QED
      BY <1>1, <2>1, CutOwned
  <1>3. CASE UNCHANGED <<trail, trail_lim, level>>
    BY <1>3
  <1>4. CASE \E b \in Nat : trail' = Kept(b) /\ trail_lim' = KeptLevels(b) /\ level' = level
    BY <1>2, <1>4
  <1>5. ASSUME NEW l \in Literals, trail' = Append(trail, l), trail_lim' = trail_lim
        PROVE  Owned(RootLevel, trail', trail_lim')
    BY <1>1, <1>5, PushOwned
  <1>6. ASSUME NEW l \in Literals, Assume(l), DecisionLevel >= RootLevel => ~IsTrue(l)
        PROVE  Owned(RootLevel, trail', trail_lim')
    <2>1. trail_lim' = Append(trail_lim, Len(trail)) /\ (trail' = trail \/ trail' = Append(trail, l))
      BY <1>6 DEF Assume
    <2>2. DecisionLevel >= RootLevel => trail' = Append(trail, l)
      BY <1>6 DEF Assume
    <2>3. trail \in Seq(Literals)
      BY <1>1 DEF Shaped
    <2>4. DecisionLevel >= RootLevel => Len(trail') = Len(trail) + 1
      BY <2>2, <2>3
    <2>5. QED
      BY <1>1, <2>1, <2>4, OpenOwned
  <1>7. ASSUME NEW l \in Literals, NEW b \in Nat,
               trail' = Append(Kept(b), l), trail_lim' = KeptLevels(b)
        PROVE  Owned(RootLevel, trail', trail_lim')
    BY <1>1, <1>2, <1>7, PushOwned
  <1>8. QED
    BY <1>3, <1>4, <1>5, <1>6, <1>7 DEF LevelStep

LEMMA LevelStepRange ==
    ASSUME StepOf, AssignedOnce(trail'), RangeInv, LevelStep
    PROVE  /\ Owned(RootLevel, trail', trail_lim')
           /\ level' \in [Variables -> -1 .. problem.vars + RootLevel]
  <1>1. /\ RootLevel \in Nat /\ DecisionLevel \in Nat /\ DecisionLevel = Len(trail_lim)
        /\ Shaped(trail', trail_lim') /\ problem \in Problems /\ problem.vars \in Nat
        /\ level \in [Variables -> -1 .. problem.vars + RootLevel]
        /\ trail_lim \in Seq(Nat) /\ Len(trail) \in Nat /\ TrailTyped
    BY RootFacts, ShapedNext, ProblemTyped DEF StepOf, RangeInv, TrailTyped, LevelsTyped
  <1>2. Owned(RootLevel, trail', trail_lim')
    BY LevelStepOwned DEF RangeInv
  <1>3. Len(trail_lim') <= problem.vars + RootLevel /\ Len(trail_lim') \in Nat
    <2>1. Len(trail_lim') <= problem.vars + RootLevel
      BY <1>1, <1>2, LevelsFit
    <2>2. QED
      BY <1>1, <2>1, HeightFacts
  <1>4. ASSUME NEW l \in Literals, NEW x \in Nat, x <= Len(trail_lim'),
               level' = [level EXCEPT ![Var(l)] = x]
        PROVE  level' \in [Variables -> -1 .. problem.vars + RootLevel]
    <2>1. x \in -1 .. problem.vars + RootLevel
      BY <1>1, <1>3, <1>4
    <2>2. QED
      BY <1>1, <1>4, <2>1
  <1>5. ASSUME NEW l \in Literals, Assume(l)
        PROVE  level' \in [Variables -> -1 .. problem.vars + RootLevel]
    <2>1. Len(trail_lim') = DecisionLevel + 1
      BY <1>1, <1>5 DEF Assume
    <2>2. level' = level \/ level' = [level EXCEPT ![Var(l)] = DecisionLevel + 1]
      BY <1>5 DEF Assume
    <2>3. QED
      BY <1>1, <1>4, <2>1, <2>2
  <1>6. ASSUME NEW l \in Literals, NEW b \in Nat, b < DecisionLevel, trail_lim' = KeptLevels(b),
               level' = [level EXCEPT ![Var(l)] = 0] \/ level' = [level EXCEPT ![Var(l)] = b]
        PROVE  level' \in [Variables -> -1 .. problem.vars + RootLevel]
    <2>1. Len(trail_lim') = b
      BY <1>1, <1>6, CancelledLevels
    <2>2. QED
      BY <1>4, <1>6, <2>1
  <1>7. ASSUME NEW l \in Literals, level' = [level EXCEPT ![Var(l)] = DecisionLevel],
               trail_lim' = trail_lim
        PROVE  level' \in [Variables -> -1 .. problem.vars + RootLevel]
    <2>1. DecisionLevel \in Nat /\ DecisionLevel <= Len(trail_lim')
      BY <1>1, <1>7
    <2>2. level' = [level EXCEPT ![Var(l)] = DecisionLevel]
      BY <1>7
    <2>3. QED
      BY <1>4, <2>1, <2>2
  <1>8. level' = level => level' \in [Variables -> -1 .. problem.vars + RootLevel]
    BY <1>1
  <1>9. QED
    BY <1>2, <1>5, <1>6, <1>7, <1>8 DEF LevelStep

LEMMA NextLevels ==
    ASSUME StepOf, RangeInv, added \in Nat, Next
    PROVE  LevelStep
  <1>1. /\ problem \in Problems /\ ClausesTyped /\ TrailTyped /\ TrailInv /\ MeaningInv
        /\ RootLevel \in Nat /\ DecisionLevel \in Nat /\ DecisionLevel = Len(trail_lim)
    BY RootFacts DEF StepOf
  <1>2. ASSUME NEW b \in Nat, CancelUntil(b) PROVE LevelStep
    BY <1>2 DEF CancelUntil, LevelStep
  <1>3. ASSUME NEW l \in Literals, NEW why, Enqueue(l, why) PROVE LevelStep
    BY <1>3 DEF Enqueue, LevelStep
  <1>4. ASSUME UNCHANGED trailVars PROVE LevelStep
    BY <1>4 DEF trailVars, LevelStep
  <1>5. CASE NewClause
    <2> DEFINE ps == problem.clauses[added + 1]
               qs == {l \in ps : ~IsFalse(l)}
    <2>1. UNCHANGED trailVars \/ \E l \in qs : Enqueue(l, {})
      BY <1>5 DEF NewClause
    <2>2. qs \in SUBSET Literals
      <3>1. added \in Nat /\ added < Len(problem.clauses)
        BY <1>5 DEF NewClause
      <3>2. problem.clauses \in Seq(SUBSET Literals) /\ added + 1 \in DOMAIN problem.clauses
        BY <1>1, <3>1, ProblemTyped
      <3>3. ps \in SUBSET Literals
        BY <3>2
      <3>4. QED
        BY <3>3
    <2> HIDE DEF qs
    <2>3. QED
      BY <1>3, <1>4, <2>1, <2>2
  <1>6. CASE Solve
    <2>1. UNCHANGED trailVars \/ CancelUntil(0)
      BY <1>6 DEF Solve, Answer
    <2>2. QED
      BY <1>2, <1>4, <2>1
  <1>7. CASE Propagate
    <2>1. \E c \in ClauseDatabase : \E l \in c : Enqueue(l, c)
      BY <1>7 DEF Propagate
    <2>2. \A c \in ClauseDatabase : c \subseteq Literals
      BY <1>1 DEF ClausesTyped, ClauseDatabase
    <2>3. QED
      BY <1>3, <2>1, <2>2
  <1>8. CASE Contradiction
    BY <1>2, <1>8 DEF Contradiction, Answer
  <1>9. CASE Learn
    <2>1. DecisionLevel > RootLevel
      BY <1>9 DEF Learn
    <2>2. PICK confl \in ClauseDatabase :
            /\ Falsified(confl)
            /\ LET uip == FirstUIP(confl)
                   learnt == Minimized(uip)
                   b == BacktrackLevel(uip)
               IN \E l \in AtCurrentLevel(uip) :
                     /\ trail' = Append(Kept(b), l)
                     /\ trail_lim' = KeptLevels(b)
                     /\ \/ level' = [level EXCEPT ![Var(l)] = 0]
                        \/ level' = [level EXCEPT ![Var(l)] = b]
      BY <1>9 DEF Learn
    <2> DEFINE uip == FirstUIP(confl)
               b == BacktrackLevel(uip)
    <2>3. PICK l \in AtCurrentLevel(uip) :
            /\ trail' = Append(Kept(b), l)
            /\ trail_lim' = KeptLevels(b)
            /\ level' = [level EXCEPT ![Var(l)] = 0] \/ level' = [level EXCEPT ![Var(l)] = b]
      BY <2>2
    <2>4. Asserts(Minimized(uip), l, b)
      BY <1>1, <2>1, <2>2, AnalysisAsserts
    <2> HIDE DEF uip, b
    <2>5. l \in Literals /\ b \in Nat /\ b < DecisionLevel
      BY <2>4 DEF Asserts
    <2>6. QED
      BY <2>3, <2>5 DEF LevelStep
  <1>10. CASE MakeAssumption
    <2> DEFINE p == problem.assumptions[DecisionLevel + 1]
    <2>1. DecisionLevel < RootLevel /\ (CancelUntil(0) \/ Assume(p))
      BY <1>10 DEF MakeAssumption, Answer
    <2>2. p \in Literals
      BY <1>1, <2>1, NextAssumption
    <2> HIDE DEF p
    <2>3. Assume(p) => LevelStep
      BY <1>1, <2>1, <2>2 DEF LevelStep
    <2>4. QED
      BY <1>2, <2>1, <2>3
  <1>11. CASE StartSearch
    BY <1>4, <1>11 DEF StartSearch
  <1>12. CASE Restart
    BY <1>1, <1>2, <1>12 DEF Restart
  <1>13. CASE Decide
    <2>1. PICK k \in Selectable : Assume(Decision(order[k]))
      BY <1>13 DEF Decide
    <2>2. order[k] \in Variables /\ ~IsFalse(order[k])
      BY <1>1 DEF TrailTyped, Selectable, IsUndef
    <2>3. -order[k] \in Literals /\ ~IsTrue(-order[k])
      BY <1>1, <2>2, LiteralFacts DEF IsTrue, IsFalse
    <2>4. Decision(order[k]) = -order[k]
      BY DEF Decision
    <2>5. QED
      BY <2>1, <2>3, <2>4 DEF LevelStep
  <1>14. CASE ModelFound
    <2>1. trail' = Kept(0) /\ trail_lim' = << >> /\ level' = level
      BY <1>14 DEF ModelFound
    <2>2. KeptLevels(0) = << >>
      <3>1. KeptLevels(0) \in Seq(Nat) /\ Len(KeptLevels(0)) = 0
        BY <1>1, KeptLevelsTyped, CancelledLevels
      <3>2. QED
        BY <3>1
    <2>3. QED
      BY <2>1, <2>2 DEF LevelStep
  <1>15. QED
    BY <1>5, <1>6, <1>7, <1>8, <1>9, <1>10, <1>11, <1>12, <1>13, <1>14 DEF Next

LEMMA RangeInvNext ==
    /\ SolverInv /\ SolverInv' /\ SearchInv /\ SoundInv /\ SoundInv' /\ RangeInv
    /\ [Next]_solverVars
    => RangeInv'
  <1> SUFFICES ASSUME SolverInv, SolverInv', SearchInv, SoundInv, SoundInv', RangeInv,
                      [Next]_solverVars
               PROVE  RangeInv'
    OBVIOUS
  <1>1. problem' = problem
    BY DEF Next, solverVars, NewClause, Solve, Propagate, Contradiction, Learn,
           MakeAssumption, StartSearch, Restart, Decide, ModelFound
  <1>2. /\ StepOf /\ AssignedOnce(trail') /\ added \in Nat /\ problem \in Problems /\ TrailTyped
        /\ RootLevel' = RootLevel /\ Variables' = Variables /\ Literals' = Literals
    BY <1>1, ProblemStays DEF SolverInv, SoundInv, StepOf, TrailInv, TrailSound, RootLevel
  <1>3. LevelStep
    BY <1>2, NextLevels DEF LevelStep, solverVars, trailVars
  <1>4. /\ Owned(RootLevel, trail', trail_lim')
        /\ level' \in [Variables -> -1 .. problem.vars + RootLevel]
    BY <1>2, <1>3, LevelStepRange
  <1>5. phase' \in {"add", "assume", "search", "done"} /\ verdict' \in {"none", "sat", "unsat"}
    BY DEF RangeInv, Next, solverVars, answerVars, NewClause, Solve, Propagate, Contradiction,
           Learn, MakeAssumption, StartSearch, Restart, Decide, ModelFound, Answer
  <1>6. ok' \in BOOLEAN
    BY DEF RangeInv, Next, solverVars, NewClause, Solve, Propagate, Contradiction,
           Learn, MakeAssumption, StartSearch, Restart, Decide, ModelFound
  <1>7. added' <= Len(problem.clauses)
    <2>1. Len(problem.clauses) \in Nat
      BY <1>2, ProblemTyped
    <2>2. added' = added \/ (added < Len(problem.clauses) /\ added' = added + 1)
      BY DEF Next, solverVars, NewClause, Solve, Propagate, Contradiction,
             Learn, MakeAssumption, StartSearch, Restart, Decide, ModelFound
    <2>3. QED
      BY <1>2, <2>1, <2>2 DEF RangeInv
  <1>8. conflictC' \in Nat /\ limit' \in Nat
    <2>1. conflictC' \in {conflictC, conflictC + 1, 0} /\ limit' \in {limit, NextLimit}
      BY DEF Next, solverVars, searchVars, NewClause, Solve, Propagate, Contradiction,
             Learn, MakeAssumption, StartSearch, Restart, Decide, ModelFound
    <2>2. conflictC \in Nat /\ limit \in Nat /\ NextLimit \in Nat
      BY DEF RangeInv, NextLimit
    <2>3. QED
      BY <2>1, <2>2
  <1>9. model' \subseteq Literals
    <2>1. model' = model \/ model' = {} \/ model' = ToSet(trail)
      BY DEF Next, solverVars, answerVars, NewClause, Solve, Propagate, Contradiction,
             Learn, MakeAssumption, StartSearch, Restart, Decide, ModelFound, Answer
    <2>2. ToSet(trail) \subseteq Literals
      BY <1>2, ElementsOf DEF TrailTyped
    <2>3. QED
      BY <2>1, <2>2 DEF RangeInv
  <1>10. QED
    BY <1>1, <1>2, <1>4, <1>5, <1>6, <1>7, <1>8, <1>9 DEF RangeInv

\* Whatever the problem, the solver's state has its types: above the assumptions there
\* are never more levels than variables, since every decision assigns one and a
\* backjump undoes whole levels (Solver.cpp:198-217, 636 and 670).
THEOREM SolverTypeCorrect == Spec => []SolverTypeOK
  <1>1. Init => RangeInv
    <2> SUFFICES ASSUME Init PROVE RangeInv
      OBVIOUS
    <2>1. /\ problem \in Problems /\ RootLevel \in Nat /\ problem.vars \in Nat
          /\ Len(problem.clauses) \in Nat
          /\ Len(trail_lim) = 0 /\ Len(trail) = 0 /\ limit = ConflictLimit /\ ConflictLimit \in Nat
      BY ProblemTyped, SolverAssumption DEF Init
    <2>2. Owned(RootLevel, trail, trail_lim)
      BY <2>1 DEF Owned, Height
    <2>3. QED
      BY <2>1, <2>2 DEF Init, RangeInv
  <1>2. SolverInv /\ RangeInv => SolverTypeOK
    <2> SUFFICES ASSUME SolverInv, RangeInv PROVE SolverTypeOK
      OBVIOUS
    <2>1. problem \in Problems /\ added \in Nat /\ ClausesTyped /\ TrailTyped
      BY DEF SolverInv
    <2>2. Len(problem.clauses) \in Nat
      BY <2>1, ProblemTyped
    <2>3. added \in 0 .. Len(problem.clauses)
      BY <2>1, <2>2 DEF RangeInv
    <2>4. trail_lim \in Seq(0 .. Len(trail))
      <3>1. /\ trail_lim \in Seq(Nat) /\ Len(trail) \in Nat
            /\ \A i \in DOMAIN trail_lim : trail_lim[i] <= Len(trail)
        BY <2>1 DEF TrailTyped, LevelsTyped
      <3>2. \A i \in 1 .. Len(trail_lim) : trail_lim[i] \in 0 .. Len(trail)
        BY <3>1
      <3>3. QED
        BY <3>1, <3>2
    <2>5. QED
      BY <2>1, <2>3, <2>4 DEF RangeInv, ClausesTyped, TrailTyped, SolverTypeOK
  <1>3. SolverInv /\ SearchInv /\ SoundInv /\ RangeInv /\ SolverInv' /\ SoundInv' /\ [Next]_solverVars
            => RangeInv'
    BY RangeInvNext
  <1>4. QED
    BY <1>1, <1>2, <1>3, SoundInvHolds, PTL DEF Spec

(***************************************************************************)
(* Assignments and selections.                                             *)
(***************************************************************************)
\* The assignment that selects sel.
Selecting(sel) == {IF v \in sel THEN v ELSE -v : v \in Variables}

LEMMA SelectingFacts ==
    ASSUME problem \in Problems, NEW sel \in SUBSET Variables
    PROVE  /\ Selecting(sel) \in Assignments
           /\ Chosen(Selecting(sel)) = sel
           /\ \A l \in Literals :
                 l \in Selecting(sel) <=> IF l > 0 THEN l \in sel ELSE -l \notin sel
  <1>1. \A v \in Variables : v \in Int /\ v > 0 /\ ~(-v > 0) /\ -(-v) = v
    BY ProblemTyped DEF Variables
  <1>2. ASSUME NEW l \in Literals
        PROVE  l \in Selecting(sel) <=> IF l > 0 THEN l \in sel ELSE -l \notin sel
    <2>1. l \in Int /\ l # 0 /\ (l > 0 => l \in Variables) /\ (~(l > 0) => -l \in Variables /\ -(-l) = l)
      BY ProblemTyped DEF Literals, Variables
    <2>2. CASE l > 0
      <3>1. ASSUME NEW v \in Variables, l = IF v \in sel THEN v ELSE -v PROVE l = v /\ v \in sel
        BY <1>1, <2>2, <3>1
      <3>2. QED
        BY <2>1, <2>2, <3>1 DEF Selecting
    <2>3. CASE ~(l > 0)
      <3>1. ASSUME NEW v \in Variables, l = IF v \in sel THEN v ELSE -v PROVE -l = v /\ v \notin sel
        BY <1>1, <2>3, <3>1
      <3>2. -l \notin sel => l = IF -l \in sel THEN -l ELSE -(-l)
        BY <2>1, <2>3
      <3>3. QED
        BY <2>1, <2>3, <3>1, <3>2 DEF Selecting
    <2>4. QED
      BY <2>2, <2>3
  <1>3. Variables \subseteq Literals
    BY LiteralFacts
  <1>4. Chosen(Selecting(sel)) = sel
    BY <1>1, <1>2, <1>3 DEF Chosen
  <1>5. Selecting(sel) \in Assignments
    BY DEF Selecting, Assignments
  <1>6. QED
    BY <1>2, <1>4, <1>5

LEMMA EverySelecting ==
    ASSUME problem \in Problems, NEW a \in Assignments
    PROVE  Chosen(a) \in SUBSET Variables /\ a = Selecting(Chosen(a))
  <1>1. PICK sel \in SUBSET Variables : a = Selecting(sel)
    BY DEF Assignments, Selecting
  <1>2. QED
    BY <1>1, SelectingFacts DEF Chosen

\* A clause of literals is true under an assignment exactly if it holds of the selection.
LEMMA ClauseHolds ==
    ASSUME problem \in Problems, NEW sel \in SUBSET Variables, NEW cl \in SUBSET Literals
    PROVE  cl \cap Selecting(sel) # {} <=> Holds(sel, cl)
  BY SelectingFacts DEF Holds

(***************************************************************************)
(* The problem posed.                                                      *)
(***************************************************************************)
LEMMA OnlyProvider ==
    ASSUME problem \in Problems, NEW c \in Cases, problem.vars = Len(c.db),
           NEW r, OnlyChoice(c.db, r)
    PROVE  \E i \in Variables : Providers(c.db, r) = {i}
  <1>1. Providers(c.db, r) \subseteq Variables
    BY DEF Providers, Indices, Variables
  <1>2. Providers(c.db, r) \in SUBSET Literals
    BY <1>1, LiteralFacts
  <1>3. PICK x : Providers(c.db, r) = {x}
    BY <1>2, Singletons DEF OnlyChoice
  <1>4. QED
    BY <1>1, <1>3

\* The assignment is an answer exactly if the selection satisfies every clause, those of
\* the requests that are assumed included.
LEMMA AnswersAreModels ==
    ASSUME problem \in Problems, NEW c \in Cases, Poses(problem, c), NEW sel \in SUBSET Variables
    PROVE  Selecting(sel) \in Answers <=> sel \in Models(c.db, c.requests, c.ignoreSource)
  <1> DEFINE a == Selecting(sel)
             rest == Clauses(c.db, << >>, c.ignoreSource)
             reqs == ToSet(c.requests)
  <1>1. PICK forced \in SUBSET {r \in reqs : OnlyChoice(c.db, r)} :
          /\ ToSet(problem.clauses) = {Providers(c.db, r) : r \in reqs \ forced} \cup rest
          /\ ToSet(problem.assumptions) = UNION {Providers(c.db, r) : r \in forced}
    BY DEF Poses
  <1>2. problem.vars = Len(c.db) /\ Indices(c.db) = Variables
    BY DEF Poses, Indices, Variables
  <1>3. Clauses(c.db, c.requests, c.ignoreSource) = {Providers(c.db, r) : r \in reqs} \cup rest
    <2>1. ToSet(<< >>) = {}
      BY DEF ToSet
    <2>2. QED
      BY <2>1 DEF Clauses, RequestClauses
  <1> HIDE DEF rest, reqs
  <1>4. \A cl \in ToSet(problem.clauses) : cl \in SUBSET Literals
    BY ProblemTyped, ElementsOf
  <1>5. a \in Solutions <=> \A cl \in ToSet(problem.clauses) : Holds(sel, cl)
    <2>1. a \in Assignments
      BY SelectingFacts
    <2>2. a \in Solutions <=> \A cl \in ToSet(problem.clauses) : cl \cap a # {}
      BY <2>1, ElementsOf DEF Solutions
    <2> HIDE DEF a
    <2>3. \A cl \in ToSet(problem.clauses) : cl \cap a # {} <=> Holds(sel, cl)
      BY <1>4, ClauseHolds DEF a
    <2>4. QED
      BY <2>2, <2>3
  <1>6. ASSUME NEW r \in forced
        PROVE  Holds(sel, Providers(c.db, r)) <=> Providers(c.db, r) \subseteq a
    <2>1. PICK i \in Variables : Providers(c.db, r) = {i}
      BY <1>1, <1>2, OnlyProvider
    <2>2. i > 0 /\ i \in Literals
      BY LiteralFacts, ProblemTyped DEF Variables
    <2>3. i \in a <=> i \in sel
      BY <2>2, SelectingFacts
    <2>4. QED
      BY <2>1, <2>2, <2>3 DEF Holds
  <1>7. ToSet(problem.assumptions) \subseteq a <=> \A r \in forced : Holds(sel, Providers(c.db, r))
    BY <1>1, <1>6
  <1>8. a \in Answers <=> /\ \A r \in reqs : Holds(sel, Providers(c.db, r))
                          /\ \A cl \in rest : Holds(sel, cl)
    <2>1. (\A cl \in ToSet(problem.clauses) : Holds(sel, cl))
            <=> /\ \A r \in reqs \ forced : Holds(sel, Providers(c.db, r))
                /\ \A cl \in rest : Holds(sel, cl)
      BY <1>1
    <2>2. QED
      BY <1>1, <1>5, <1>7, <2>1 DEF Answers
  <1>9. QED
    BY <1>2, <1>3, <1>8 DEF Models

(***************************************************************************)
(* The answer.                                                             *)
(***************************************************************************)
DoneRight == phase = "done" => IF verdict = "sat" THEN model \in Answers ELSE Answers = {}

LEMMA DoneRightNext ==
    SolverInv /\ SolverInv' /\ SearchInv /\ SoundInv /\ DoneRight /\ [Next]_solverVars => DoneRight'
  <1> SUFFICES ASSUME SolverInv, SolverInv', SearchInv, SoundInv, DoneRight, [Next]_solverVars
               PROVE  DoneRight'
    OBVIOUS
  <1>1. problem' = problem
    BY DEF Next, solverVars, NewClause, Solve, Propagate, Contradiction, Learn,
           MakeAssumption, StartSearch, Restart, Decide, ModelFound
  <1>2. StepOf /\ VerdictInv
    BY <1>1 DEF SolverInv, SoundInv, StepOf
  <1>3. Answers' = Answers
    BY <1>1 DEF Answers, Solutions, Assignments, Variables
  <1>4. ASSUME Answer("unsat", {}), Answers = {} PROVE DoneRight'
    BY <1>3, <1>4 DEF DoneRight, Answer
  <1>5. ASSUME phase' # "done" PROVE DoneRight'
    BY <1>5 DEF DoneRight
  <1>6. CASE Solve
    <2>1. CASE ok
      BY <1>5, <1>6, <2>1 DEF Solve
    <2>2. CASE ~ok
      BY <1>2, <1>4, <1>6, <2>2, UnsatRight DEF Solve
    <2>3. QED
      BY <2>1, <2>2
  <1>7. CASE Contradiction
    BY <1>2, <1>4, <1>7, UnsatRight DEF Contradiction
  <1>8. CASE MakeAssumption
    <2> DEFINE p == problem.assumptions[DecisionLevel + 1]
    <2>1. /\ phase = "assume"
          /\ IF IsFalse(p) THEN Answer("unsat", {})
             ELSE Assume(p) /\ UNCHANGED <<phase, order, answerVars>>
      BY <1>8 DEF MakeAssumption
    <2>2. CASE IsFalse(p)
      <3>1. Answers = {}
        BY <1>2, <1>8, <2>2, UnsatRight
      <3>2. QED
        BY <1>4, <2>1, <2>2, <3>1
    <2>3. CASE ~IsFalse(p)
      BY <1>5, <2>1, <2>3
    <2>4. QED
      BY <2>2, <2>3
  <1>9. CASE ModelFound
    <2>1. verdict' = "sat"
      BY <1>9 DEF ModelFound
    <2>2. model' \in Answers
      BY <1>2, <1>9, SatRight
    <2>3. QED
      BY <1>3, <2>1, <2>2 DEF DoneRight
  <1>10. CASE UNCHANGED solverVars
    BY <1>3, <1>10 DEF solverVars, answerVars, DoneRight
  <1>11. CASE NewClause \/ Propagate \/ Learn \/ StartSearch \/ Restart \/ Decide
    BY <1>5, <1>11 DEF NewClause, Propagate, Learn, StartSearch, Restart, Decide
  <1>12. QED
    BY <1>6, <1>7, <1>8, <1>9, <1>10, <1>11 DEF Next

\* Whatever the database and the requests, the engine is told a consistent selection, or
\* that there is none, and both are true (solve.cpp:185-263): from what the lookup
\* finds, over the clauses and the assumptions, to the end of the search.
THEOREM SelectionsRight == Spec => []SelectionRight
  <1>1. Init => DoneRight
    BY DEF Init, DoneRight
  <1>2. SolverInv /\ SolverInv' /\ SearchInv /\ SoundInv /\ DoneRight /\ [Next]_solverVars
            => DoneRight'
    BY DoneRightNext
  <1>3. SolverInv /\ DoneRight => SelectionRight
    <2> SUFFICES ASSUME SolverInv, DoneRight, phase = "done", NEW c \in Cases, Poses(problem, c)
                 PROVE  IF verdict = "sat"
                        THEN Consistent(c.db, Chosen(model), c.requests, c.ignoreSource)
                        ELSE \A sel \in SUBSET Indices(c.db) :
                                ~Consistent(c.db, sel, c.requests, c.ignoreSource)
      BY DEF SelectionRight
    <2>1. /\ problem \in Problems /\ Indices(c.db) = Variables
          /\ Len(c.db) \in Nat /\ DOMAIN c.db = 1 .. Len(c.db) /\ Neighbours(c.db)
          /\ c.ignoreSource \in BOOLEAN
      BY CasesAssumption DEF SolverInv, Poses, Indices, Variables, Neighbours
    <2>2. CASE verdict = "sat"
      <3>1. model \in Answers /\ model \in Assignments
        BY <2>2 DEF DoneRight, Answers, Solutions
      <3>2. Chosen(model) \in SUBSET Variables /\ model = Selecting(Chosen(model))
        BY <2>1, <3>1, EverySelecting
      <3>3. Chosen(model) \in Models(c.db, c.requests, c.ignoreSource)
        BY <2>1, <3>1, <3>2, AnswersAreModels
      <3>4. QED
        BY <2>1, <2>2, <3>3, ModelIsConsistent
    <2>3. CASE verdict # "sat"
      <3>1. SUFFICES ASSUME NEW sel \in SUBSET Variables,
                            Consistent(c.db, sel, c.requests, c.ignoreSource)
                     PROVE  FALSE
        BY <2>1, <2>3
      <3>2. sel \in Models(c.db, c.requests, c.ignoreSource)
        BY <2>1, <3>1, ConsistentIsModel
      <3>3. Selecting(sel) \in Answers
        BY <2>1, <3>2, AnswersAreModels
      <3>4. QED
        BY <2>3, <3>3 DEF DoneRight
    <2>4. QED
      BY <2>2, <2>3
  <1>4. QED
    BY <1>1, <1>2, <1>3, SoundInvHolds, PTL DEF Spec
=============================================================================
