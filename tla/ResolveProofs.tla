--------------------------- MODULE ResolveProofs ---------------------------
(***************************************************************************)
(* Proofs about modules Resolve and TopoSort, for databases, selections    *)
(* and graphs of any size.                                                 *)
(*                                                                         *)
(* The clauses of solve.cpp say what they are meant to say: for every      *)
(* database in which the implementations of a project are neighbours, a    *)
(* selection satisfies them exactly if it is consistent, by a definition   *)
(* that knows nothing of clauses and positions.                            *)
(*                                                                         *)
(* The depth-first search ends, reports a cycle if and only if there is    *)
(* one, and otherwise puts every provider before what depends on it.       *)
(***************************************************************************)
EXTENDS TopoSort, Recursion, FiniteSetTheorems

Neighbours(db) ==
    \A i, j, k \in DOMAIN db : (i < j /\ j < k /\ db[i].id = db[k].id) => db[j].id = db[i].id

\* The index of a database entry is a literal, its negation another.
LEMMA IndicesPositive ==
    ASSUME NEW db, Len(db) \in Nat
    PROVE  \A i \in Indices(db) : i \in Int /\ i > 0 /\ -i < 0 /\ -(-i) = i
  BY DEF Indices

\* A clause of positive literals holds if one of them is selected.
LEMMA PositiveClause ==
    ASSUME NEW db, Len(db) \in Nat, NEW sel, NEW spec
    PROVE  Holds(sel, Providers(db, spec)) <=> \E i \in sel : i \in Providers(db, spec)
  <1>1. \A i \in Providers(db, spec) : i > 0
    BY IndicesPositive DEF Providers
  <1>2. QED
    BY <1>1 DEF Holds

\* A dependency is needed only by what is selected (solve.cpp:96-110).
LEMMA DependencyClause ==
    ASSUME NEW db, Len(db) \in Nat, NEW sel, NEW spec, NEW i \in Indices(db)
    PROVE  Holds(sel, {-i} \cup Providers(db, spec)) <=>
               (i \in sel => \E k \in sel : k \in Providers(db, spec))
  <1>1. \A k \in Providers(db, spec) : k > 0
    BY IndicesPositive DEF Providers
  <1>2. ~(-i > 0) /\ -(-i) = i
    BY IndicesPositive
  <1>3. QED
    BY <1>1, <1>2 DEF Holds

\* Of two conflicting entries one is left out.
LEMMA ConflictClause ==
    ASSUME NEW db, Len(db) \in Nat, NEW sel, NEW i \in Indices(db), NEW k \in Indices(db)
    PROVE  Holds(sel, {-i, -k}) <=> ~(i \in sel /\ k \in sel)
  <1>1. ~(-i > 0) /\ -(-i) = i /\ ~(-k > 0) /\ -(-k) = k
    BY IndicesPositive
  <1>2. QED
    BY <1>1 DEF Holds

\* The clauses, family by family, as what they demand of a selection.
Demands(db, sel, requests, ignoreSource) ==
    /\ \A r \in ToSet(requests) : Provided(db, sel, r)
    /\ \A i \in sel : \A s \in ToSet(db[i].depends) : Provided(db, sel, s)
    /\ \A i, k \in sel : \A s \in ToSet(db[i].conflicts) : ~Satisfies(db[k], s)
    /\ \A i, k \in sel : ~(Reached(db, i, k) /\ Clash(db[i], db[k]))
    /\ ignoreSource \/ \A i, k \in sel :
          ~(/\ db[i].component = Source /\ db[k].component # Source
            /\ \E s \in ToSet(db[k].depends) : Satisfies(db[i], s))

LEMMA ProvidedByIndex ==
    ASSUME NEW db, NEW sel \in SUBSET Indices(db), NEW spec
    PROVE  Provided(db, sel, spec) <=> \E i \in sel : i \in Providers(db, spec)
  BY DEF Provided, Providers

\* Requests and dependencies.
LEMMA NeedsDemanded ==
    ASSUME NEW db, Len(db) \in Nat, NEW sel \in SUBSET Indices(db), NEW requests
    PROVE  /\ (\A c \in RequestClauses(db, requests) : Holds(sel, c)) <=>
                 \A r \in ToSet(requests) : Provided(db, sel, r)
           /\ (\A c \in DependencyClauses(db) : Holds(sel, c)) <=>
                 \A i \in sel : \A s \in ToSet(db[i].depends) : Provided(db, sel, s)
  <1>1. (\A c \in RequestClauses(db, requests) : Holds(sel, c)) <=>
           \A r \in ToSet(requests) : Provided(db, sel, r)
    BY PositiveClause, ProvidedByIndex DEF RequestClauses
  <1>2. (\A c \in DependencyClauses(db) : Holds(sel, c)) <=>
           \A i \in Indices(db) : \A s \in ToSet(db[i].depends) : Holds(sel, {-i} \cup Providers(db, s))
    <2>1. ASSUME \A c \in DependencyClauses(db) : Holds(sel, c),
                 NEW i \in Indices(db), NEW s \in ToSet(db[i].depends)
          PROVE  Holds(sel, {-i} \cup Providers(db, s))
      <3> DEFINE Of(j) == {{-j} \cup Providers(db, t) : t \in ToSet(db[j].depends)}
      <3>1. {-i} \cup Providers(db, s) \in Of(i)
        OBVIOUS
      <3>2. DependencyClauses(db) = UNION {Of(j) : j \in Indices(db)}
        BY DEF DependencyClauses
      <3> HIDE DEF Of
      <3>3. {-i} \cup Providers(db, s) \in DependencyClauses(db)
        BY <3>1, <3>2
      <3>4. QED
        BY <2>1, <3>3
    <2>2. ASSUME NEW c \in DependencyClauses(db)
          PROVE  \E i \in Indices(db) : \E s \in ToSet(db[i].depends) : c = {-i} \cup Providers(db, s)
      BY Zenon DEF DependencyClauses
    <2>3. ASSUME \A i \in Indices(db) : \A s \in ToSet(db[i].depends) : Holds(sel, {-i} \cup Providers(db, s)),
                 NEW c \in DependencyClauses(db)
          PROVE  Holds(sel, c)
      <3>1. PICK i \in Indices(db) : \E s \in ToSet(db[i].depends) : c = {-i} \cup Providers(db, s)
        BY <2>2
      <3>2. PICK s \in ToSet(db[i].depends) : c = {-i} \cup Providers(db, s)
        BY <3>1
      <3>3. QED
        BY <2>3, <3>2
    <2>4. QED
      BY <2>1, <2>3, Zenon
  <1>3. ASSUME NEW i \in Indices(db), NEW s
        PROVE  Holds(sel, {-i} \cup Providers(db, s)) <=> (i \in sel => Provided(db, sel, s))
    BY DependencyClause, ProvidedByIndex
  <1>4. QED
    BY <1>1, <1>2, <1>3

\* A clause for every pair of a relation.
LEMMA PairClauses ==
    ASSUME NEW I, NEW R \in SUBSET (I \X I), NEW sel
    PROVE  (\A c \in {{-p[1], -p[2]} : p \in R} : Holds(sel, c)) <=>
              \A i, k \in I : <<i, k>> \in R => Holds(sel, {-i, -k})
  <1>1. ASSUME \A c \in {{-p[1], -p[2]} : p \in R} : Holds(sel, c),
               NEW i \in I, NEW k \in I, <<i, k>> \in R
        PROVE  Holds(sel, {-i, -k})
    <2>1. {-i, -k} \in {{-p[1], -p[2]} : p \in R}
      BY <1>1
    <2>2. QED
      BY <1>1, <2>1
  <1>2. ASSUME \A i, k \in I : <<i, k>> \in R => Holds(sel, {-i, -k}),
               NEW c \in {{-p[1], -p[2]} : p \in R}
        PROVE  Holds(sel, c)
    <2>1. PICK p \in R : c = {-p[1], -p[2]}
      OBVIOUS
    <2>2. p = <<p[1], p[2]>> /\ p[1] \in I /\ p[2] \in I
      OBVIOUS
    <2>3. QED
      BY <1>2, <2>1, <2>2
  <1>3. QED
    BY <1>1, <1>2

\* The three kinds of conflicts.
LEMMA ConflictsDemanded ==
    ASSUME NEW db, Len(db) \in Nat, NEW sel \in SUBSET Indices(db)
    PROVE  /\ (\A c \in ExplicitConflictClauses(db) : Holds(sel, c)) <=>
                 \A i, k \in sel : \A s \in ToSet(db[i].conflicts) : ~Satisfies(db[k], s)
           /\ (\A c \in ImplicitConflictClauses(db) : Holds(sel, c)) <=>
                 \A i, k \in sel : ~(Reached(db, i, k) /\ Clash(db[i], db[k]))
           /\ (\A c \in SourceConflictClauses(db) : Holds(sel, c)) <=>
                 \A i, k \in sel :
                    ~(/\ db[i].component = Source /\ db[k].component # Source
                      /\ \E s \in ToSet(db[k].depends) : Satisfies(db[i], s))
  <1>1. (\A c \in ExplicitConflictClauses(db) : Holds(sel, c)) <=>
           \A i \in Indices(db) : \A s \in ToSet(db[i].conflicts) : \A k \in Providers(db, s) :
              Holds(sel, {-i, -k})
    BY DEF ExplicitConflictClauses
  <1>2. (\A c \in ExplicitConflictClauses(db) : Holds(sel, c)) <=>
           \A i \in Indices(db) : \A s \in ToSet(db[i].conflicts) : \A k \in Providers(db, s) :
              ~(i \in sel /\ k \in sel)
    <2>1. \A s : \A k \in Providers(db, s) : k \in Indices(db)
      BY DEF Providers
    <2>2. QED
      BY <1>1, <2>1, ConflictClause
  <1>3. \A s : \A k \in Indices(db) : k \in Providers(db, s) <=> Satisfies(db[k], s)
    BY DEF Providers
  <1>4. (\A c \in ImplicitConflictClauses(db) : Holds(sel, c)) <=>
           \A i, k \in Indices(db) : (Reached(db, i, k) /\ Clash(db[i], db[k])) => Holds(sel, {-i, -k})
    <2> DEFINE R == {q \in Indices(db) \X Indices(db) : Reached(db, q[1], q[2]) /\ Clash(db[q[1]], db[q[2]])}
    <2>1. \A i, k \in Indices(db) : <<i, k>> \in R <=> (Reached(db, i, k) /\ Clash(db[i], db[k]))
      OBVIOUS
    <2>2. R \subseteq Indices(db) \X Indices(db) /\ ImplicitConflictClauses(db) = {{-p[1], -p[2]} : p \in R}
      BY DEF ImplicitConflictClauses
    <2> HIDE DEF R
    <2>3. QED
      BY <2>1, <2>2, PairClauses
  <1>5. (\A c \in SourceConflictClauses(db) : Holds(sel, c)) <=>
           \A i, k \in Indices(db) :
              (/\ db[i].component = Source /\ db[k].component # Source
               /\ \E s \in ToSet(db[k].depends) : Satisfies(db[i], s)) => Holds(sel, {-i, -k})
    <2> DEFINE R == {q \in Indices(db) \X Indices(db) :
                       /\ db[q[1]].component = Source
                       /\ db[q[2]].component # Source
                       /\ \E s \in ToSet(db[q[2]].depends) : Satisfies(db[q[1]], s)}
    <2>1. \A i, k \in Indices(db) : <<i, k>> \in R <=>
             (/\ db[i].component = Source /\ db[k].component # Source
              /\ \E s \in ToSet(db[k].depends) : Satisfies(db[i], s))
      OBVIOUS
    <2>2. R \subseteq Indices(db) \X Indices(db) /\ SourceConflictClauses(db) = {{-p[1], -p[2]} : p \in R}
      BY DEF SourceConflictClauses
    <2> HIDE DEF R
    <2>3. (\A c \in SourceConflictClauses(db) : Holds(sel, c)) <=>
             \A i, k \in Indices(db) : <<i, k>> \in R => Holds(sel, {-i, -k})
      BY <2>2, PairClauses
    <2>4. QED
      BY <2>1, <2>3, Zenon
  <1>6. QED
    <2>1. \A k \in sel : k \in Indices(db)
      OBVIOUS
    <2>2. (\A c \in ExplicitConflictClauses(db) : Holds(sel, c)) <=>
             \A i, k \in sel : \A s \in ToSet(db[i].conflicts) : ~Satisfies(db[k], s)
      BY <1>2, <1>3, <2>1
    <2>3. \A i, k \in Indices(db) : Holds(sel, {-i, -k}) <=> ~(i \in sel /\ k \in sel)
      BY ConflictClause
    <2>4. QED
      BY <1>4, <1>5, <2>1, <2>2, <2>3

LEMMA ModelsDemand ==
    ASSUME NEW db, Len(db) \in Nat, NEW sel \in SUBSET Indices(db), NEW requests, NEW ignoreSource \in BOOLEAN
    PROVE  sel \in Models(db, requests, ignoreSource) <=> Demands(db, sel, requests, ignoreSource)
  BY NeedsDemanded, ConflictsDemanded DEF Models, Clauses, Demands

\* What conflicts does so whichever of the two comes first (solve.cpp:112-127).
LEMMA ClashSymmetric == ASSUME NEW x, NEW y, Clash(x, y) PROVE Clash(y, x)
  BY DEF Clash

\* Whoever is consistent satisfies every clause, wherever the entries of a project lie:
\* what the clauses forbid is inconsistent.
THEOREM ConsistentIsModel ==
    ASSUME NEW db, Len(db) \in Nat, NEW sel \in SUBSET Indices(db), NEW requests,
           NEW ignoreSource \in BOOLEAN, Consistent(db, sel, requests, ignoreSource)
    PROVE  sel \in Models(db, requests, ignoreSource)
  <1>1. ASSUME NEW i \in sel, NEW k \in sel, NEW s \in ToSet(db[i].conflicts)
        PROVE  ~Satisfies(db[k], s)
    BY <1>1 DEF Consistent, Compatible
  <1>2. ASSUME NEW i \in sel, NEW k \in sel, Reached(db, i, k)
        PROVE  ~Clash(db[i], db[k])
    <2>1. i # k /\ db[i].id = db[k].id
      BY <1>2, IndicesPositive DEF Reached
    <2>2. QED
      BY <2>1 DEF Consistent, Compatible
  <1>3. ASSUME NEW i \in sel, NEW k \in sel, ~ignoreSource, db[i].component = Source,
               db[k].component # Source, NEW s \in ToSet(db[k].depends)
        PROVE  ~Satisfies(db[i], s)
    <2>1. i # k
      BY <1>3
    <2>2. Compatible(db[k], db[i], ignoreSource)
      BY <2>1 DEF Consistent
    <2>3. QED
      BY <1>3, <2>2 DEF Compatible
  <1>4. Demands(db, sel, requests, ignoreSource)
    BY <1>1, <1>2, <1>3 DEF Demands, Consistent
  <1>5. QED
    BY <1>4, ModelsDemand

\* If the implementations of a project are neighbours, whatever satisfies every clause
\* is consistent: the inner loop that stops at another project misses no pair.
THEOREM ModelIsConsistent ==
    ASSUME NEW db, Len(db) \in Nat, DOMAIN db = 1 .. Len(db), Neighbours(db),
           NEW requests, NEW ignoreSource \in BOOLEAN,
           NEW sel \in Models(db, requests, ignoreSource)
    PROVE  Consistent(db, sel, requests, ignoreSource)
  <1>1. sel \in SUBSET Indices(db) /\ DOMAIN db = Indices(db)
    BY DEF Models, Indices
  <1>2. Demands(db, sel, requests, ignoreSource)
    BY <1>1, ModelsDemand
  <1>3. ASSUME NEW i \in sel, NEW k \in sel, i < k, db[i].id = db[k].id
        PROVE  ~Clash(db[i], db[k])
    <2>1. i \in Int /\ k \in Int /\ i \in DOMAIN db /\ k \in DOMAIN db
      BY <1>1, IndicesPositive
    <2>2. ASSUME NEW j \in i .. k PROVE db[j].id = db[i].id
      <3>1. j \in DOMAIN db
        BY <1>1, <2>1 DEF Indices
      <3>2. CASE j = i \/ j = k
        BY <1>3, <3>2
      <3>3. CASE i < j /\ j < k
        BY <1>3, <2>1, <3>1, <3>3 DEF Neighbours
      <3>4. QED
        BY <2>1, <3>2, <3>3
    <2>3. Reached(db, i, k)
      BY <1>3, <2>2 DEF Reached
    <2>4. QED
      BY <1>2, <2>3 DEF Demands
  <1>4. ASSUME NEW i \in sel, NEW k \in sel, i # k, db[i].id = db[k].id
        PROVE  ~Clash(db[i], db[k])
    <2>1. i \in Int /\ k \in Int
      BY <1>1, IndicesPositive
    <2>2. i < k \/ k < i
      BY <1>4, <2>1
    <2>3. QED
      BY <1>3, <1>4, <2>2, ClashSymmetric
  <1>5. ASSUME NEW i \in sel, NEW k \in sel, i # k
        PROVE  Compatible(db[i], db[k], ignoreSource)
    BY <1>2, <1>4, <1>5 DEF Compatible, Demands
  <1>6. QED
    BY <1>2, <1>5 DEF Consistent, Demands

(***************************************************************************)
(* Graphs and searches.                                                    *)
(***************************************************************************)
\* Every vertex of 1 .. n has a sequence of successors.
IsGraph(graph) ==
    /\ Len(graph) \in Nat /\ DOMAIN graph = 1 .. Len(graph)
    /\ \A v \in DOMAIN graph : graph[v] \in Seq(DOMAIN graph)

White(s) == {v \in DOMAIN s.color : s.color[v] = "white"}

\* Calls of visit, and the vertices that are white in all that a call comes to.
Calls(V) == V \X Searches(V)
Ahead(x) == White(x[2]) \ {x[1]}

Entered(x) == [x[2] EXCEPT !.color[x[1]] = "gray"]
Left(x, last) == IF last.cyclic THEN last ELSE Finish(last, x[1])

LEMMA SearchFacts ==
    ASSUME NEW V, NEW s \in Searches(V)
    PROVE  /\ DOMAIN s.color = V /\ s.color \in [V -> Colors] /\ s.cyclic \in BOOLEAN
           /\ s.finished \in Seq(V)
           /\ White(s) \subseteq V
  BY DEF Searches, White

LEMMA EnteredFacts ==
    ASSUME NEW V, NEW x \in Calls(V)
    PROVE  /\ Entered(x) \in Searches(V)
           /\ White(Entered(x)) = Ahead(x)
           /\ Entered(x).cyclic = x[2].cyclic
           /\ Entered(x).finished = x[2].finished
           /\ \A u \in V : Entered(x).color[u] = IF u = x[1] THEN "gray" ELSE x[2].color[u]
  <1>1. x[1] \in V /\ x[2] \in Searches(V)
    BY DEF Calls
  <1> DEFINE s == x[2]
             e == Entered(x)
  <1>2. e = [color |-> [s.color EXCEPT ![x[1]] = "gray"], finished |-> s.finished, cyclic |-> s.cyclic]
    BY <1>1 DEF Searches, Entered
  <1>3. [s.color EXCEPT ![x[1]] = "gray"] \in [V -> Colors]
    BY <1>1 DEF Searches, Colors
  <1>4. e \in Searches(V)
    BY <1>1, <1>2, <1>3 DEF Searches
  <1>5. \A u \in V : e.color[u] = IF u = x[1] THEN "gray" ELSE s.color[u]
    BY <1>1, <1>2 DEF Searches
  <1>6. White(e) = Ahead(x)
    <2>1. DOMAIN e.color = V /\ DOMAIN s.color = V
      BY <1>1, <1>4, SearchFacts
    <2> HIDE DEF e
    <2>2. QED
      BY <1>1, <1>5, <2>1 DEF White, Ahead
  <1>7. QED
    BY <1>2, <1>4, <1>5, <1>6

Rank(x) == Cardinality(Ahead(x))

LEMMA RankFacts ==
    ASSUME NEW V, IsFiniteSet(V), NEW x \in Calls(V)
    PROVE  /\ Rank(x) \in Nat /\ Rank(x) <= Cardinality(V) /\ Cardinality(V) \in Nat
           /\ \A y \in Calls(V) : (White(y[2]) \subseteq Ahead(x) /\ y[1] \in White(y[2]))
                                     => Rank(y) < Rank(x)
  <1>1. \A y \in Calls(V) : y[1] \in V /\ y[2] \in Searches(V)
    BY DEF Calls
  <1>2. \A y \in Calls(V) : Ahead(y) \subseteq V
    BY <1>1, SearchFacts DEF Ahead
  <1>3. \A y \in Calls(V) : IsFiniteSet(Ahead(y)) /\ Rank(y) \in Nat /\ Rank(y) <= Cardinality(V)
    BY <1>2, FS_Subset, FS_CardinalityType DEF Rank
  <1>4. ASSUME NEW y \in Calls(V), White(y[2]) \subseteq Ahead(x), y[1] \in White(y[2])
        PROVE  Rank(y) < Rank(x)
    <2>1. Ahead(y) \subseteq Ahead(x) /\ Ahead(y) # Ahead(x)
      BY <1>4 DEF Ahead
    <2>2. IsFiniteSet(Ahead(x))
      BY <1>3
    <2>3. Cardinality(Ahead(y)) <= Cardinality(Ahead(x)) /\ Cardinality(Ahead(y)) # Cardinality(Ahead(x))
      BY <2>1, <2>2, FS_Subset
    <2>4. QED
      BY <1>3, <2>3 DEF Rank
  <1>5. QED
    BY <1>3, <1>4, FS_CardinalityType

(***************************************************************************)
(* One call of visit.                                                      *)
(***************************************************************************)
\* The states after the edges of a call, if h is what the calls it makes return.
Passes(graph, h, x, a) ==
    LET V == DOMAIN graph
        m == Len(graph[x[1]])
    IN /\ a \in [0 .. m -> Searches(V)]
       /\ a[0] = Entered(x)
       /\ \A k \in 1 .. m : a[k] = Meet(h, graph[x[1]][k], a[k - 1])
       /\ \A k \in 0 .. m : White(a[k]) \subseteq Ahead(x)

\* g returns what h does for calls of lower rank, and there all that is white was white
\* before.
Shrinks(h, y) == White(h[y]) \subseteq Ahead(y)
AgreesBelow(g, h, V, x) ==
    \A y \in Calls(V) : Rank(y) < Rank(x) => g[y] = h[y] /\ h[y] \in Searches(V) /\ Shrinks(h, y)

LEMMA MeetFacts ==
    ASSUME NEW V, NEW w \in V, NEW s \in Searches(V), NEW h
    PROVE  /\ (s.cyclic \/ s.color[w] = "black") => Meet(h, w, s) = s
           /\ (~s.cyclic /\ s.color[w] = "gray") => Meet(h, w, s) = [s EXCEPT !.cyclic = TRUE]
           /\ (~s.cyclic /\ s.color[w] = "white") => Meet(h, w, s) = h[<<w, s>>]
           /\ s.color[w] \in {"white", "gray", "black"}
  <1>1. s.color[w] \in {"white", "gray", "black"} /\ s.cyclic \in BOOLEAN
    BY DEF Searches, Colors
  <1>2. QED
    BY <1>1 DEF Meet

LEMMA CyclicFacts ==
    ASSUME NEW V, NEW s \in Searches(V)
    PROVE  LET c == [s EXCEPT !.cyclic = TRUE]
           IN /\ c \in Searches(V) /\ c.cyclic /\ White(c) = White(s)
              /\ c.color = s.color /\ c.finished = s.finished
  BY DEF Searches, White

LEMMA MeetBelow ==
    ASSUME NEW V, IsFiniteSet(V), NEW x \in Calls(V), NEW g, NEW h, AgreesBelow(g, h, V, x),
           NEW w \in V, NEW s \in Searches(V), White(s) \subseteq Ahead(x)
    PROVE  /\ Meet(g, w, s) = Meet(h, w, s)
           /\ Meet(h, w, s) \in Searches(V)
           /\ White(Meet(h, w, s)) \subseteq Ahead(x)
  <1> DEFINE y == <<w, s>>
  <1>1. CASE s.cyclic \/ s.color[w] = "black"
    <2>1. Meet(g, w, s) = s
      BY <1>1 DEF Meet
    <2>2. Meet(h, w, s) = s
      BY <1>1 DEF Meet
    <2>3. QED
      BY <2>1, <2>2
  <1>2. CASE ~s.cyclic /\ s.color[w] = "gray"
    <2> DEFINE c == [s EXCEPT !.cyclic = TRUE]
    <2>1. Meet(g, w, s) = c /\ Meet(h, w, s) = c
      BY <1>2, MeetFacts
    <2>2. c \in Searches(V) /\ White(c) = White(s)
      BY CyclicFacts
    <2> HIDE DEF c
    <2>3. QED
      BY <2>1, <2>2
  <1>3. CASE ~s.cyclic /\ s.color[w] = "white"
    <2>1. y \in Calls(V) /\ y[1] = w /\ y[2] = s
      BY DEF Calls
    <2> HIDE DEF y
    <2>2. w \in White(s)
      BY <1>3, SearchFacts DEF White
    <2>3. Rank(y) < Rank(x)
      BY <2>1, <2>2, RankFacts
    <2>4. g[y] = h[y] /\ h[y] \in Searches(V) /\ White(h[y]) \subseteq Ahead(y)
      BY <2>1, <2>3 DEF AgreesBelow, Shrinks
    <2>5. Ahead(y) \subseteq Ahead(x)
      BY <2>1 DEF Ahead
    <2>6. Meet(g, w, s) = g[y] /\ Meet(h, w, s) = h[y]
      BY <1>3, MeetFacts DEF y
    <2>7. QED
      BY <2>4, <2>5, <2>6
  <1>4. QED
    BY <1>1, <1>2, <1>3, MeetFacts

\* The body of visit is what its edges come to, whichever of two functions that agree
\* on calls of lower rank it calls.
LEMMA VisitedRuns ==
    ASSUME NEW graph, IsGraph(graph), NEW x \in Calls(DOMAIN graph), NEW g, NEW h,
           AgreesBelow(g, h, DOMAIN graph, x)
    PROVE  \E a : /\ Passes(graph, h, x, a) /\ Passes(graph, g, x, a)
                  /\ Visited(graph, h, x[1], x[2]) = Left(x, a[Len(graph[x[1]])])
                  /\ Visited(graph, g, x[1], x[2]) = Left(x, a[Len(graph[x[1]])])
  <1> DEFINE V == DOMAIN graph
             v == x[1]
             m == Len(graph[v])
             S == {s \in Searches(V) : White(s) \subseteq Ahead(x)}
             F == [y \in (1 .. m) \X S |-> Meet(h, graph[v][y[1]], y[2])]
             Defines(c, f) == f = [k \in 0 .. m |-> IF k = 0 THEN Entered(x)
                                                    ELSE Meet(c, graph[v][k], f[k - 1])]
  <1>1. /\ v \in V /\ m \in Nat /\ \A k \in 1 .. m : graph[v][k] \in V
        /\ IsFiniteSet(V)
    <2>1. v \in V /\ graph[v] \in Seq(V)
      BY DEF IsGraph, Calls
    <2>2. IsFiniteSet(V)
      BY FS_Interval DEF IsGraph
    <2> HIDE DEF V, v
    <2>3. QED
      BY <2>1, <2>2
  <1>2. ASSUME NEW k \in 1 .. m, NEW s \in S
        PROVE  Meet(g, graph[v][k], s) = Meet(h, graph[v][k], s) /\ Meet(h, graph[v][k], s) \in S
    <2>1. graph[v][k] \in V /\ s \in Searches(V) /\ White(s) \subseteq Ahead(x)
      BY <1>1
    <2> HIDE DEF V
    <2>2. QED
      BY <1>1, <2>1, MeetBelow DEF V
  <1>3. Entered(x) \in S
    BY EnteredFacts
  <1>4. F \in [(1 .. m) \X S -> S] /\ \A k \in 1 .. m : \A s \in S : F[<<k, s>>] = Meet(h, graph[v][k], s)
    BY <1>2
  <1> HIDE DEF F
  <1>5. PICK a \in [0 .. m -> S] : a[0] = Entered(x) /\ \A k \in 1 .. m : a[k] = F[<<k, a[k - 1]>>]
    <2> DEFINE first == Entered(x)
    <2> HIDE DEF m, S, first
    <2>1. RunExists(S, first, m, F)
      BY <1>1, <1>3, <1>4, RecursionExists DEF first
    <2>2. QED
      BY <2>1 DEF RunExists, first
  <1>6. \A k \in 1 .. m : k - 1 \in 0 .. m /\ k \in 0 .. m /\ k # 0
    BY <1>1
  <1>7. \A k \in 1 .. m : /\ a[k] = Meet(h, graph[v][k], a[k - 1])
                          /\ a[k] = Meet(g, graph[v][k], a[k - 1])
    <2> SUFFICES ASSUME NEW k \in 1 .. m
                 PROVE  a[k] = Meet(h, graph[v][k], a[k - 1]) /\ a[k] = Meet(g, graph[v][k], a[k - 1])
      OBVIOUS
    <2>1. a[k - 1] \in S
      BY <1>6
    <2>2. a[k] = F[<<k, a[k - 1]>>]
      BY <1>5
    <2> DEFINE t == a[k - 1]
    <2> HIDE DEF S, m, v, t
    <2>3. F[<<k, t>>] = Meet(h, graph[v][k], t)
      BY <1>4, <2>1 DEF t
    <2>4. Meet(g, graph[v][k], t) = Meet(h, graph[v][k], t)
      BY <1>2, <2>1 DEF t
    <2>5. QED
      BY <2>2, <2>3, <2>4 DEF t
  <1>8. a \in [0 .. m -> Searches(V)] /\ \A k \in 0 .. m : White(a[k]) \subseteq Ahead(x)
    OBVIOUS
  <1>9. Passes(graph, h, x, a) /\ Passes(graph, g, x, a)
    BY <1>5, <1>7, <1>8 DEF Passes
  <1>10. ASSUME NEW c, \A k \in 1 .. m : a[k] = Meet(c, graph[v][k], a[k - 1])
         PROVE  Visited(graph, c, x[1], x[2]) = Left(x, a[m])
    <2> DEFINE after[k \in 0 .. m] == IF k = 0 THEN Entered(x) ELSE Meet(c, graph[v][k], after[k - 1])
    <2>1. \A k \in 0 .. m : a[k] = IF k = 0 THEN Entered(x) ELSE Meet(c, graph[v][k], a[k - 1])
      BY <1>5, <1>10
    <2>2. Defines(c, a)
      BY <2>1
    <2>3. after = CHOOSE f : Defines(c, f)
      OBVIOUS
    <2> HIDE DEF after
    <2>4. Defines(c, after)
      BY <2>2, <2>3
    <2>5. after[0] = a[0] /\ \A k \in 1 .. m : after[k - 1] = a[k - 1] => after[k] = a[k]
      <3>1. 0 \in 0 .. m /\ \A k \in 1 .. m : k \in 0 .. m /\ k # 0
        BY <1>1
      <3>2. \A k \in 0 .. m : after[k] = IF k = 0 THEN Entered(x) ELSE Meet(c, graph[v][k], after[k - 1])
        BY <2>4
      <3>3. QED
        BY <1>5, <1>10, <3>1, <3>2
    <2>6. \A k \in 0 .. m : after[k] = a[k]
      BY <1>1, <2>5, SameRun
    <2>7. after[m] = a[m]
      BY <1>1, <2>6
    <2>8. Visited(graph, c, x[1], x[2]) = Left(x, after[m])
      BY DEF Visited, Left, after, Entered
    <2>9. QED
      BY <2>7, <2>8
  <1>11. QED
    BY <1>7, <1>9, <1>10

LEMMA LeftFacts ==
    ASSUME NEW V, NEW x \in Calls(V), NEW last \in Searches(V), White(last) \subseteq Ahead(x)
    PROVE  Left(x, last) \in Searches(V) /\ White(Left(x, last)) \subseteq Ahead(x)
  <1>1. CASE last.cyclic
    BY <1>1 DEF Left
  <1>2. CASE ~last.cyclic
    <2> DEFINE f == Finish(last, x[1])
    <2>1. x[1] \in V /\ last.color \in [V -> Colors] /\ last.finished \in Seq(V) /\ last.cyclic \in BOOLEAN
      BY SearchFacts DEF Calls
    <2>2. f = [color |-> [last.color EXCEPT ![x[1]] = "black"],
               finished |-> Append(last.finished, x[1]), cyclic |-> last.cyclic]
      <3>1. last = [color |-> last.color, finished |-> last.finished, cyclic |-> last.cyclic]
        BY DEF Searches
      <3> DEFINE r == [last EXCEPT !.color[x[1]] = "black"]
      <3>2. r = [color |-> [last.color EXCEPT ![x[1]] = "black"], finished |-> last.finished,
                 cyclic |-> last.cyclic]
        BY <3>1
      <3>3. f = [r EXCEPT !.finished = Append(last.finished, x[1])]
        BY <3>1 DEF Finish
      <3> HIDE DEF r, f
      <3>4. QED
        BY <3>2, <3>3
    <2>3. [last.color EXCEPT ![x[1]] = "black"] \in [V -> Colors]
      BY <2>1 DEF Colors
    <2>4. Append(last.finished, x[1]) \in Seq(V)
      BY <2>1
    <2>5. f \in Searches(V)
      BY <2>1, <2>2, <2>3, <2>4 DEF Searches
    <2>6. White(f) \subseteq White(last)
      BY <2>1, <2>2 DEF White
    <2>7. Left(x, last) = f
      BY <1>2 DEF Left
    <2> HIDE DEF f
    <2>8. QED
      BY <2>5, <2>6, <2>7
  <1>3. QED
    BY <1>1, <1>2

\* What a call returns, if calls of lower rank return what h does.
LEMMA VisitedTyped ==
    ASSUME NEW graph, IsGraph(graph), NEW x \in Calls(DOMAIN graph), NEW g, NEW h,
           AgreesBelow(g, h, DOMAIN graph, x)
    PROVE  /\ Visited(graph, g, x[1], x[2]) = Visited(graph, h, x[1], x[2])
           /\ Visited(graph, h, x[1], x[2]) \in Searches(DOMAIN graph)
           /\ White(Visited(graph, h, x[1], x[2])) \subseteq Ahead(x)
  <1> DEFINE V == DOMAIN graph
             m == Len(graph[x[1]])
  <1>1. PICK a : /\ Passes(graph, h, x, a)
                 /\ Visited(graph, h, x[1], x[2]) = Left(x, a[m])
                 /\ Visited(graph, g, x[1], x[2]) = Left(x, a[m])
    BY VisitedRuns
  <1>2. m \in 0 .. m
    <2>1. x[1] \in V /\ graph[x[1]] \in Seq(V)
      BY DEF IsGraph, Calls
    <2> HIDE DEF V
    <2>2. m \in Nat
      BY <2>1
    <2>3. QED
      BY <2>2
  <1>3. a[m] \in Searches(V) /\ White(a[m]) \subseteq Ahead(x)
    BY <1>1, <1>2 DEF Passes
  <1> HIDE DEF m
  <1>4. Left(x, a[m]) \in Searches(V) /\ White(Left(x, a[m])) \subseteq Ahead(x)
    BY <1>3, LeftFacts
  <1>5. QED
    BY <1>1, <1>4

\* A function that visit may be, by its definition.
IsVisit(graph, h) ==
    /\ h \in [Calls(DOMAIN graph) -> Searches(DOMAIN graph)]
    /\ \A x \in Calls(DOMAIN graph) :
          h[x] = Visited(graph, h, x[1], x[2]) /\ Shrinks(h, x)

LEMMA VisitExists == ASSUME NEW graph, IsGraph(graph) PROVE \E h : IsVisit(graph, h)
  <1> DEFINE V == DOMAIN graph
             S == [Calls(V) -> Searches(V)]
             N == Cardinality(V) + 2
             Body(g, x) == Visited(graph, g, x[1], x[2])
             Guarded(g) == [x \in Calls(V) |-> IF Body(g, x) \in Searches(V) THEN Body(g, x) ELSE x[2]]
             F == [y \in (1 .. N) \X S |-> Guarded(y[2])]
             first == [x \in Calls(V) |-> x[2]]
  <1>1. IsFiniteSet(V) /\ Cardinality(V) \in Nat /\ N \in Nat
    <2>1. IsFiniteSet(V)
      BY FS_Interval DEF IsGraph
    <2> HIDE DEF V
    <2>2. Cardinality(V) \in Nat
      BY <2>1, FS_CardinalityType
    <2>3. QED
      BY <2>1, <2>2
  <1>2. first \in S /\ \A g : Guarded(g) \in S
    BY DEF Calls
  <1> HIDE DEF S, Guarded
  <1>3. F \in [(1 .. N) \X S -> S] /\ \A n \in 1 .. N : \A g \in S : F[<<n, g>>] = Guarded(g)
    BY <1>2
  <1> HIDE DEF F, first
  <1>4. PICK G \in [0 .. N -> S] : G[0] = first /\ \A n \in 1 .. N : G[n] = F[<<n, G[n - 1]>>]
    <2> HIDE DEF N
    <2>1. RunExists(S, first, N, F)
      BY <1>1, <1>2, <1>3, RecursionExists
    <2>2. QED
      BY <2>1 DEF RunExists
  <1>5. ASSUME NEW n \in 0 .. N - 1 PROVE G[n] \in S /\ G[n + 1] \in S /\ G[n + 1] = Guarded(G[n])
    <2>1. n + 1 \in 1 .. N /\ (n + 1) - 1 = n /\ n \in 0 .. N /\ n + 1 \in 0 .. N
      BY <1>1
    <2>2. G[n] \in S /\ G[n + 1] \in S
      BY <2>1
    <2>3. G[n + 1] = F[<<n + 1, G[n]>>]
      BY <1>4, <2>1
    <2> HIDE DEF N
    <2>4. F[<<n + 1, G[n]>>] = Guarded(G[n])
      BY <1>3, <2>1, <2>2
    <2>5. QED
      BY <2>2, <2>3, <2>4
  <1>6. ASSUME NEW g, NEW x \in Calls(V), Body(g, x) \in Searches(V) PROVE Guarded(g)[x] = Body(g, x)
    BY <1>6 DEF Guarded
  <1> HIDE DEF N
  <1> DEFINE Settled(n) == \A y \in Calls(V) : Rank(y) < n => G[n + 1][y] = G[n][y] /\ Shrinks(G[n], y)
             P == {n \in Nat : n <= N - 1 => Settled(n)}
  <1>7. 0 \in P
    BY <1>1, RankFacts
  <1>8. ASSUME NEW n \in P PROVE n + 1 \in P
    <2> SUFFICES ASSUME n + 1 <= N - 1, NEW x \in Calls(V), Rank(x) < n + 1
                 PROVE  G[(n + 1) + 1][x] = G[n + 1][x] /\ Shrinks(G[n + 1], x)
      OBVIOUS
    <2>1. n \in 0 .. N - 1 /\ n + 1 \in 0 .. N - 1 /\ Settled(n)
      BY <1>1
    <2>2. /\ G[n] \in S /\ G[n + 1] = Guarded(G[n]) /\ G[(n + 1) + 1] = Guarded(G[n + 1])
      BY <1>5, <2>1
    <2>3. AgreesBelow(G[n + 1], G[n], V, x)
      <3> SUFFICES ASSUME NEW y \in Calls(V), Rank(y) < Rank(x)
                   PROVE  /\ G[n + 1][y] = G[n][y] /\ G[n][y] \in Searches(V)
                          /\ Shrinks(G[n], y)
        BY DEF AgreesBelow
      <3>1. Rank(y) < n
        <4>1. Rank(x) \in Nat /\ Rank(y) \in Nat /\ n \in Nat
          BY <1>1, RankFacts
        <4>2. QED
          BY <4>1
      <3>2. G[n][y] \in Searches(V)
        BY <2>2 DEF S
      <3>3. QED
        BY <2>1, <3>1, <3>2
    <2>4. /\ Body(G[n + 1], x) = Body(G[n], x) /\ Body(G[n], x) \in Searches(V)
          /\ White(Body(G[n], x)) \subseteq Ahead(x)
      BY <2>3, VisitedTyped
    <2>5. G[n + 1][x] = Body(G[n], x) /\ G[(n + 1) + 1][x] = Body(G[n + 1], x)
      <3>1. Body(G[n + 1], x) \in Searches(V)
        BY <2>4
      <3> HIDE DEF Body
      <3>2. QED
        BY <1>6, <2>2, <2>4, <3>1
    <2>6. QED
      BY <2>4, <2>5 DEF Shrinks
  <1>9. P = Nat
    <2>1. P \in SUBSET Nat
      OBVIOUS
    <2> HIDE DEF P
    <2>2. QED
      BY <1>7, <1>8, <2>1, InductionOverNat
  <1> DEFINE h == G[N - 1]
  <1>10. N - 1 \in 0 .. N - 1 /\ N - 1 \in Nat /\ (N - 1) + 1 = N /\ Settled(N - 1)
    <2>1. N - 1 \in Nat
      BY <1>1 DEF N
    <2>2. N - 1 \in P
      BY <1>9, <2>1
    <2>3. QED
      BY <2>1, <2>2, <1>1
  <1>11. h \in S /\ G[N] = Guarded(h)
    BY <1>5, <1>10
  <1>12. ASSUME NEW x \in Calls(V) PROVE G[N][x] = h[x] /\ Shrinks(h, x)
    <2>1. Rank(x) < N - 1
      BY <1>1, RankFacts DEF N
    <2>2. QED
      BY <1>10, <2>1
  <1> HIDE DEF P, Settled, h
  <1>13. ASSUME NEW x \in Calls(V) PROVE h[x] = Body(h, x)
    <2>1. AgreesBelow(h, h, V, x)
      BY <1>11, <1>12 DEF AgreesBelow, S
    <2>2. Body(h, x) \in Searches(V)
      BY <2>1, VisitedTyped
    <2> HIDE DEF Body
    <2>3. QED
      BY <1>6, <1>11, <1>12, <2>2
  <1>14. QED
    BY <1>11, <1>12, <1>13 DEF IsVisit, S

LEMMA VisitsRight == ASSUME NEW graph, IsGraph(graph) PROVE IsVisit(graph, Visits(graph))
  <1> DEFINE V == DOMAIN graph
             Defines(f) == f = [x \in V \X Searches(V) |-> Visited(graph, f, x[1], x[2])]
             visit == CHOOSE f : Defines(f)
  <1>1. PICK h : IsVisit(graph, h)
    BY VisitExists
  <1>2. Visits(graph) = visit
    BY DEF Visits
  <1>3. Defines(h)
    BY <1>1 DEF IsVisit, Calls
  <1> HIDE DEF visit
  <1>4. Defines(visit)
    BY <1>3 DEF visit
  <1>5. \A x \in Calls(V) : visit[x] = Visited(graph, visit, x[1], x[2])
    BY <1>4 DEF Calls
  <1>6. IsFiniteSet(V)
    BY FS_Interval DEF IsGraph
  <1> DEFINE P == {n \in Nat : \A x \in Calls(V) : Rank(x) < n => visit[x] = h[x]}
  <1>7. 0 \in P
    BY <1>6, RankFacts
  <1>8. ASSUME NEW n \in P PROVE n + 1 \in P
    <2> SUFFICES ASSUME NEW x \in Calls(V), Rank(x) < n + 1 PROVE visit[x] = h[x]
      OBVIOUS
    <2>1. AgreesBelow(visit, h, V, x)
      <3> SUFFICES ASSUME NEW y \in Calls(V), Rank(y) < Rank(x)
                   PROVE  visit[y] = h[y] /\ h[y] \in Searches(V) /\ Shrinks(h, y)
        BY DEF AgreesBelow
      <3>1. Rank(y) < n
        <4>1. Rank(x) \in Nat /\ Rank(y) \in Nat /\ n \in Nat
          BY <1>6, RankFacts
        <4>2. QED
          BY <4>1
      <3>2. QED
        BY <1>1, <3>1 DEF IsVisit
    <2>2. Visited(graph, visit, x[1], x[2]) = Visited(graph, h, x[1], x[2])
      BY <2>1, VisitedTyped
    <2>3. QED
      BY <1>1, <1>5, <2>2 DEF IsVisit
  <1>9. P = Nat
    <2>1. P \in SUBSET Nat
      OBVIOUS
    <2> HIDE DEF P
    <2>2. QED
      BY <1>7, <1>8, <2>1, InductionOverNat
  <1>10. ASSUME NEW x \in Calls(V) PROVE visit[x] = h[x]
    <2>1. Rank(x) \in Nat /\ Rank(x) + 1 \in Nat /\ Rank(x) < Rank(x) + 1
      BY <1>6, RankFacts
    <2>2. Rank(x) + 1 \in P
      BY <1>9, <2>1
    <2>3. QED
      BY <2>1, <2>2
  <1>11. visit = h
    <2>1. visit = [x \in Calls(V) |-> visit[x]] /\ h = [x \in Calls(V) |-> h[x]]
      BY <1>1, <1>4 DEF IsVisit, Calls
    <2>2. QED
      BY <1>10, <2>1
  <1>12. QED
    BY <1>1, <1>2, <1>11

(***************************************************************************)
(* What a search has found out.                                            *)
(***************************************************************************)
Gray(s) == {v \in DOMAIN s.color : s.color[v] = "gray"}
Black(s) == {v \in DOMAIN s.color : s.color[v] = "black"}

\* What is output: black vertices, each once, behind all their successors.
Output(graph, s) ==
    /\ \A i, j \in DOMAIN s.finished : s.finished[i] = s.finished[j] => i = j
    /\ \A v \in Black(s) : \E i \in DOMAIN s.finished : s.finished[i] = v
    /\ \A i \in DOMAIN s.finished : s.finished[i] \in Black(s)
    /\ \A i \in DOMAIN s.finished : \A w \in ToSet(graph[s.finished[i]]) :
          \E j \in 1 .. i - 1 : s.finished[j] = w

\* Some vertices of which each has one of them for a successor.
HasCycle(graph) ==
    \E C \in SUBSET DOMAIN graph : C # {} /\ \A v \in C : ToSet(graph[v]) \cap C # {}

\* The gray vertices are those on the path to v.
OnPath(graph, s, v) == \A u \in Gray(s) : ToSet(graph[u]) \cap (Gray(s) \cup {v}) # {}

\* When visit is called, and what it returns.
Fits(graph, x) ==
    /\ ~x[2].cyclic /\ x[2].color[x[1]] = "white"
    /\ Output(graph, x[2]) /\ OnPath(graph, x[2], x[1])
Does(graph, x, r) ==
    IF r.cyclic THEN HasCycle(graph)
    ELSE /\ Output(graph, r) /\ Gray(r) = Gray(x[2])
         /\ Black(x[2]) \subseteq Black(r) /\ x[1] \in Black(r)

\* While the call x is going on, when the successors ws have been met.
Going(graph, x, s, ws) ==
    IF s.cyclic THEN HasCycle(graph)
    ELSE /\ Output(graph, s) /\ Gray(s) = Gray(x[2]) \cup {x[1]}
         /\ Black(x[2]) \cup ws \subseteq Black(s)

LEMMA GoingFromStart ==
    ASSUME NEW graph, NEW x \in Calls(DOMAIN graph), Fits(graph, x)
    PROVE  Going(graph, x, Entered(x), {})
  <1> DEFINE V == DOMAIN graph
             e == Entered(x)
  <1>1. /\ e \in Searches(V) /\ ~e.cyclic /\ e.finished = x[2].finished
        /\ \A u \in V : e.color[u] = IF u = x[1] THEN "gray" ELSE x[2].color[u]
    BY EnteredFacts DEF Fits
  <1>2. x[1] \in V /\ x[2] \in Searches(V) /\ x[2].color[x[1]] = "white"
    BY DEF Calls, Fits
  <1> HIDE DEF e, V
  <1>3. DOMAIN e.color = V /\ DOMAIN x[2].color = V
    BY <1>1, <1>2, SearchFacts
  <1>4. Gray(e) = Gray(x[2]) \cup {x[1]} /\ Black(e) = Black(x[2])
    BY <1>1, <1>2, <1>3 DEF Gray, Black
  <1>5. Output(graph, e)
    BY <1>1, <1>4 DEF Fits, Output
  <1>6. QED
    BY <1>1, <1>4, <1>5 DEF Going, e

LEMMA GoingOn ==
    ASSUME NEW graph, NEW x \in Calls(DOMAIN graph), Fits(graph, x),
           NEW s \in Searches(DOMAIN graph), NEW ws, Going(graph, x, s, ws),
           NEW w \in DOMAIN graph, w \in ToSet(graph[x[1]]),
           NEW h, w \in White(s) /\ Fits(graph, <<w, s>>) => Does(graph, <<w, s>>, h[<<w, s>>])
    PROVE  Going(graph, x, Meet(h, w, s), ws \cup {w})
  <1> DEFINE V == DOMAIN graph
  <1>1. DOMAIN s.color = V /\ x[1] \in V /\ x[2] \in Searches(V) /\ DOMAIN x[2].color = V
    BY SearchFacts DEF Calls
  <1>2. CASE s.cyclic
    <2>1. Meet(h, w, s) = s
      BY <1>2, MeetFacts
    <2>2. QED
      BY <1>2, <2>1 DEF Going
  <1>3. CASE ~s.cyclic /\ s.color[w] = "black"
    <2>1. Meet(h, w, s) = s
      BY <1>3, MeetFacts
    <2>2. w \in Black(s)
      BY <1>1, <1>3 DEF Black
    <2>3. QED
      BY <1>3, <2>1, <2>2 DEF Going
  <1>4. CASE ~s.cyclic /\ s.color[w] = "gray"
    <2> DEFINE c == [s EXCEPT !.cyclic = TRUE]
    <2>0. Meet(h, w, s) = c
      BY <1>4, MeetFacts
    <2>1. Meet(h, w, s).cyclic
      <3>1. c.cyclic
        BY CyclicFacts
      <3> HIDE DEF c
      <3>2. QED
        BY <2>0, <3>1
    <2> HIDE DEF c
    <2>2. w \in Gray(s) /\ Gray(s) # {} /\ Gray(s) \subseteq V
      BY <1>1, <1>4 DEF Gray
    <2>3. Gray(s) = Gray(x[2]) \cup {x[1]}
      BY <1>4 DEF Going
    <2>4. ASSUME NEW u \in Gray(s) PROVE ToSet(graph[u]) \cap Gray(s) # {}
      BY <2>2, <2>3 DEF Fits, OnPath
    <2>5. HasCycle(graph)
      BY <2>2, <2>4 DEF HasCycle
    <2>6. QED
      BY <2>1, <2>5 DEF Going
  <1>5. CASE ~s.cyclic /\ s.color[w] = "white"
    <2> DEFINE y == <<w, s>>
    <2>1. y[1] = w /\ y[2] = s /\ Meet(h, w, s) = h[y]
      BY <1>5, MeetFacts
    <2> HIDE DEF y
    <2>2. w \in White(s)
      BY <1>1, <1>5 DEF White
    <2>3. /\ Output(graph, s) /\ Gray(s) = Gray(x[2]) \cup {x[1]}
          /\ Black(x[2]) \cup ws \subseteq Black(s)
      BY <1>5 DEF Going
    <2>4. OnPath(graph, s, w)
      BY <2>3 DEF Fits, OnPath
    <2>5. Fits(graph, y)
      BY <1>5, <2>1, <2>3, <2>4 DEF Fits
    <2>6. Does(graph, y, h[y])
      BY <2>2, <2>5 DEF y
    <2>7. CASE h[y].cyclic
      BY <2>1, <2>6, <2>7 DEF Does, Going
    <2>8. CASE ~h[y].cyclic
      <3>1. Output(graph, h[y]) /\ Gray(h[y]) = Gray(s) /\ Black(s) \subseteq Black(h[y]) /\ w \in Black(h[y])
        BY <2>1, <2>6, <2>8 DEF Does
      <3>2. QED
        BY <2>1, <2>3, <2>8, <3>1 DEF Going
    <2>9. QED
      BY <2>7, <2>8
  <1>6. QED
    BY <1>2, <1>3, <1>4, <1>5, MeetFacts

\* When all is met, the vertex is output behind its successors.
LEMMA GoneLeft ==
    ASSUME NEW graph, IsGraph(graph), NEW x \in Calls(DOMAIN graph), Fits(graph, x),
           NEW s \in Searches(DOMAIN graph), Going(graph, x, s, ToSet(graph[x[1]]))
    PROVE  Does(graph, x, Left(x, s))
  <1> DEFINE V == DOMAIN graph
             v == x[1]
             f == Finish(s, v)
             n == Len(s.finished)
  <1>1. CASE s.cyclic
    <2>1. Left(x, s) = s
      BY <1>1 DEF Left
    <2>2. QED
      BY <1>1, <2>1 DEF Going, Does
  <1>2. CASE ~s.cyclic
    <2>1. /\ Output(graph, s) /\ Gray(s) = Gray(x[2]) \cup {v}
          /\ Black(x[2]) \subseteq Black(s) /\ ToSet(graph[v]) \subseteq Black(s)
      BY <1>2 DEF Going
    <2>2. v \in V /\ s.color \in [V -> Colors] /\ s.finished \in Seq(V) /\ n \in Nat
      <3>1. v \in V /\ s.color \in [V -> Colors] /\ s.finished \in Seq(V)
        BY SearchFacts DEF Calls
      <3> HIDE DEF V
      <3>2. QED
        BY <3>1
    <2>3. Left(x, s) = f /\ ~f.cyclic /\ f.color = [s.color EXCEPT ![v] = "black"]
          /\ f.finished = Append(s.finished, v)
      <3>1. s = [color |-> s.color, finished |-> s.finished, cyclic |-> s.cyclic]
        BY DEF Searches
      <3> DEFINE r == [s EXCEPT !.color[v] = "black"]
      <3>2. r = [color |-> [s.color EXCEPT ![v] = "black"], finished |-> s.finished, cyclic |-> s.cyclic]
        BY <3>1
      <3>3. f = [r EXCEPT !.finished = Append(s.finished, v)]
        BY <3>1 DEF Finish
      <3>4. Left(x, s) = f
        BY <1>2 DEF Left
      <3> HIDE DEF r, f
      <3>5. QED
        BY <1>2, <3>2, <3>3, <3>4
    <2> HIDE DEF f
    <2>4. DOMAIN s.color = V /\ DOMAIN f.color = V /\ DOMAIN x[2].color = V
          /\ \A u \in V : f.color[u] = IF u = v THEN "black" ELSE s.color[u]
      <3>1. x[2] \in Searches(V)
        BY DEF Calls
      <3>2. DOMAIN x[2].color = V
        BY <3>1, SearchFacts
      <3> HIDE DEF v, V
      <3>3. QED
        BY <2>2, <2>3, <3>2
    <2>5. v \in Gray(s) /\ v \notin Gray(x[2])
      BY <2>1 DEF Fits, Gray
    <2>6. v \notin Black(s)
      BY <2>5 DEF Black, Gray
    <2>7. Black(f) = Black(s) \cup {v}
      BY <2>2, <2>4 DEF Black
    <2>8. Gray(f) = Gray(s) \ {v}
      BY <2>2, <2>4 DEF Gray
    <2>9. /\ DOMAIN s.finished = 1 .. n /\ DOMAIN f.finished = 1 .. n + 1
          /\ f.finished[n + 1] = v /\ \A i \in 1 .. n : f.finished[i] = s.finished[i]
      <3> HIDE DEF v, V
      <3>1. DOMAIN s.finished = 1 .. n /\ DOMAIN Append(s.finished, v) = 1 .. n + 1
        BY <2>2
      <3>2. /\ Append(s.finished, v)[n + 1] = v
            /\ \A i \in 1 .. n : Append(s.finished, v)[i] = s.finished[i]
        BY <2>2
      <3>3. QED
        BY <2>3, <3>1, <3>2
    <2> HIDE DEF n
    <2>10. n + 1 \in 1 .. n + 1 /\ \A i \in 1 .. n + 1 : i \in 1 .. n \/ i = n + 1
      BY <2>2
    <2>11. \A i \in 1 .. n : i \in 1 .. n + 1 /\ f.finished[i] = s.finished[i] /\ s.finished[i] # v
                             /\ s.finished[i] \in Black(s)
      <3>1. \A i \in 1 .. n : s.finished[i] \in Black(s)
        BY <2>1, <2>9 DEF Output
      <3>2. \A i \in 1 .. n : i \in 1 .. n + 1
        BY <2>2
      <3> HIDE DEF v
      <3>3. QED
        BY <2>6, <2>9, <3>1, <3>2
    <2>12. ASSUME NEW i \in 1 .. n + 1, NEW j \in 1 .. n + 1, f.finished[i] = f.finished[j] PROVE i = j
      <3>1. CASE i = n + 1 /\ j = n + 1
        BY <3>1
      <3>2. CASE i \in 1 .. n /\ j \in 1 .. n
        <4>1. s.finished[i] = s.finished[j]
          BY <2>11, <2>12, <3>2
        <4>2. QED
          BY <2>1, <2>9, <3>2, <4>1 DEF Output
      <3>3. CASE i \in 1 .. n /\ j = n + 1
        BY <2>9, <2>11, <2>12, <3>3
      <3>4. CASE i = n + 1 /\ j \in 1 .. n
        BY <2>9, <2>11, <2>12, <3>4
      <3>5. QED
        BY <2>10, <3>1, <3>2, <3>3, <3>4
    <2>13. ASSUME NEW u \in Black(f) PROVE \E i \in 1 .. n + 1 : f.finished[i] = u
      <3>1. CASE u = v
        BY <2>9, <2>10, <3>1
      <3>2. CASE u \in Black(s)
        <4>1. PICK i \in 1 .. n : s.finished[i] = u
          BY <2>1, <2>9, <3>2 DEF Output
        <4>2. QED
          BY <2>11, <4>1
      <3>3. QED
        BY <2>7, <3>1, <3>2
    <2>14. ASSUME NEW i \in 1 .. n + 1 PROVE f.finished[i] \in Black(f)
      BY <2>7, <2>9, <2>10, <2>11
    <2>15. ASSUME NEW i \in 1 .. n + 1, NEW w \in ToSet(graph[f.finished[i]])
           PROVE  \E j \in 1 .. i - 1 : f.finished[j] = w
      <3>1. CASE i = n + 1
        <4>1. w \in Black(s)
          BY <2>1, <2>9, <3>1
        <4>2. PICK j \in 1 .. n : s.finished[j] = w
          BY <2>1, <2>9, <4>1 DEF Output
        <4>3. i - 1 = n
          BY <2>2, <3>1
        <4>4. QED
          BY <2>11, <4>2, <4>3
      <3>2. CASE i \in 1 .. n
        <4>1. w \in ToSet(graph[s.finished[i]])
          BY <2>11, <3>2
        <4>2. PICK j \in 1 .. i - 1 : s.finished[j] = w
          BY <2>1, <2>9, <3>2, <4>1 DEF Output
        <4>3. j \in 1 .. n
          BY <2>2, <3>2
        <4>4. QED
          BY <2>11, <4>2, <4>3
      <3>3. QED
        BY <2>10, <3>1, <3>2
    <2>16. Output(graph, f)
      BY <2>9, <2>12, <2>13, <2>14, <2>15 DEF Output
    <2>17. QED
      BY <2>1, <2>3, <2>5, <2>7, <2>8, <2>16 DEF Does
  <1>3. QED
    BY <1>1, <1>2

\* What a call does, if the calls that it makes do so.
LEMMA CallDoes ==
    ASSUME NEW graph, IsGraph(graph), NEW h, IsVisit(graph, h), NEW x \in Calls(DOMAIN graph),
           Fits(graph, x),
           \A y \in Calls(DOMAIN graph) :
              Rank(y) < Rank(x) /\ Fits(graph, y) => Does(graph, y, h[y])
    PROVE  Does(graph, x, h[x])
  <1> DEFINE V == DOMAIN graph
             m == Len(graph[x[1]])
             Met(k) == {graph[x[1]][j] : j \in 1 .. k}
  <1>1. AgreesBelow(h, h, V, x)
    BY DEF AgreesBelow, IsVisit
  <1>2. PICK a : Passes(graph, h, x, a) /\ Visited(graph, h, x[1], x[2]) = Left(x, a[m])
    BY <1>1, VisitedRuns
  <1>3. /\ IsFiniteSet(V) /\ m \in Nat
        /\ \A k \in 1 .. m : graph[x[1]][k] \in V /\ graph[x[1]][k] \in ToSet(graph[x[1]])
        /\ ToSet(graph[x[1]]) = Met(m)
    <2>1. x[1] \in V /\ graph[x[1]] \in Seq(V)
      BY DEF IsGraph, Calls
    <2>2. IsFiniteSet(V)
      BY FS_Interval DEF IsGraph
    <2> HIDE DEF V
    <2>3. m \in Nat /\ DOMAIN graph[x[1]] = 1 .. m
      BY <2>1
    <2>4. ToSet(graph[x[1]]) = Met(m)
      BY <2>3 DEF ToSet
    <2>5. \A k \in 1 .. m : graph[x[1]][k] \in V
      BY <2>1
    <2>6. QED
      BY <2>2, <2>3, <2>4, <2>5
  <1>4. /\ a[0] = Entered(x)
        /\ \A k \in 1 .. m : a[k] = Meet(h, graph[x[1]][k], a[k - 1])
        /\ \A k \in 0 .. m : a[k] \in Searches(V) /\ White(a[k]) \subseteq Ahead(x)
    BY <1>2 DEF Passes
  <1> HIDE DEF m
  <1> DEFINE P == {k \in Nat : k <= m => Going(graph, x, a[k], Met(k))}
  <1>5. 0 \in P
    <2>1. Met(0) = {}
      OBVIOUS
    <2> HIDE DEF Met
    <2>2. Going(graph, x, a[0], Met(0))
      BY <1>4, <2>1, GoingFromStart
    <2>3. QED
      BY <2>2
  <1>6. ASSUME NEW k \in P PROVE k + 1 \in P
    <2> SUFFICES ASSUME k + 1 <= m PROVE Going(graph, x, a[k + 1], Met(k + 1))
      OBVIOUS
    <2> DEFINE w == graph[x[1]][k + 1]
               s == a[k]
    <2>1. k + 1 \in 1 .. m /\ k \in 0 .. m /\ (k + 1) - 1 = k /\ Going(graph, x, s, Met(k))
      BY <1>3
    <2>2. w \in V /\ w \in ToSet(graph[x[1]]) /\ s \in Searches(V) /\ White(s) \subseteq Ahead(x)
      BY <1>3, <1>4, <2>1
    <2>3. a[k + 1] = Meet(h, w, s)
      BY <1>4, <2>1
    <2>4. Met(k + 1) = Met(k) \cup {w}
      BY <2>1
    <2> HIDE DEF w, s, Met
    <2>5. w \in White(s) /\ Fits(graph, <<w, s>>) => Does(graph, <<w, s>>, h[<<w, s>>])
      <3> SUFFICES ASSUME w \in White(s), Fits(graph, <<w, s>>) PROVE Does(graph, <<w, s>>, h[<<w, s>>])
        OBVIOUS
      <3> DEFINE y == <<w, s>>
      <3>1. y \in Calls(V) /\ y[1] = w /\ y[2] = s
        BY <2>2 DEF Calls
      <3> HIDE DEF y
      <3>2. Rank(y) < Rank(x)
        BY <1>3, <2>2, <3>1, RankFacts
      <3>3. QED
        BY <3>1, <3>2 DEF y
    <2>6. QED
      BY <2>1, <2>2, <2>3, <2>4, <2>5, GoingOn
  <1>7. P = Nat
    <2>1. P \in SUBSET Nat
      OBVIOUS
    <2> HIDE DEF P
    <2>2. QED
      BY <1>5, <1>6, <2>1, InductionOverNat
  <1> HIDE DEF Met
  <1>8. Going(graph, x, a[m], ToSet(graph[x[1]])) /\ a[m] \in Searches(V)
    <2>1. m \in P /\ m \in 0 .. m
      BY <1>3, <1>7
    <2>2. QED
      BY <1>3, <1>4, <2>1
  <1> HIDE DEF P
  <1>9. Does(graph, x, Left(x, a[m]))
    BY <1>8, GoneLeft
  <1>10. QED
    BY <1>2, <1>9 DEF IsVisit

LEMMA VisitDoes ==
    ASSUME NEW graph, IsGraph(graph), NEW h, IsVisit(graph, h), NEW x \in Calls(DOMAIN graph),
           Fits(graph, x)
    PROVE  Does(graph, x, h[x])
  <1> DEFINE V == DOMAIN graph
             P == {n \in Nat : \A y \in Calls(V) : Rank(y) < n /\ Fits(graph, y) => Does(graph, y, h[y])}
  <1>1. IsFiniteSet(V)
    BY FS_Interval DEF IsGraph
  <1>2. \A y \in Calls(V) : Rank(y) \in Nat
    BY <1>1, RankFacts
  <1> HIDE DEF V
  <1>3. 0 \in P
    BY <1>2
  <1>4. ASSUME NEW n \in P PROVE n + 1 \in P
    <2> SUFFICES ASSUME NEW y \in Calls(V), Rank(y) < n + 1, Fits(graph, y) PROVE Does(graph, y, h[y])
      OBVIOUS
    <2>1. \A z \in Calls(V) : Rank(z) < Rank(y) /\ Fits(graph, z) => Does(graph, z, h[z])
      <3> SUFFICES ASSUME NEW z \in Calls(V), Rank(z) < Rank(y), Fits(graph, z) PROVE Does(graph, z, h[z])
        OBVIOUS
      <3>1. Rank(z) \in Nat /\ Rank(y) \in Nat /\ n \in Nat
        BY <1>2
      <3>2. Rank(z) < n
        BY <3>1
      <3>3. QED
        BY <3>2
    <2>2. QED
      BY <2>1, CallDoes DEF V
  <1>5. P = Nat
    <2>1. P \in SUBSET Nat
      OBVIOUS
    <2> HIDE DEF P
    <2>2. QED
      BY <1>3, <1>4, <2>1, InductionOverNat
  <1>6. x \in Calls(V) /\ Rank(x) \in Nat /\ Rank(x) + 1 \in Nat /\ Rank(x) < Rank(x) + 1
    BY <1>2 DEF V
  <1>7. Rank(x) + 1 \in P
    BY <1>5, <1>6
  <1>8. QED
    BY <1>6, <1>7

\* What is output behind its successors is on no cycle.
LEMMA OutputAcyclic ==
    ASSUME NEW graph, IsGraph(graph), NEW s \in Searches(DOMAIN graph),
           Output(graph, s), Black(s) = DOMAIN graph
    PROVE  ~HasCycle(graph)
  <1> SUFFICES ASSUME HasCycle(graph) PROVE FALSE
    OBVIOUS
  <1> DEFINE V == DOMAIN graph
             n == Len(s.finished)
  <1>1. PICK C \in SUBSET V : C # {} /\ \A v \in C : ToSet(graph[v]) \cap C # {}
    BY DEF HasCycle
  <1>2. n \in Nat /\ DOMAIN s.finished = 1 .. n
    <2>1. s.finished \in Seq(V)
      BY SearchFacts
    <2> HIDE DEF V
    <2>2. QED
      BY <2>1
  <1> HIDE DEF n
  <1> DEFINE I == {i \in 1 .. n : s.finished[i] \in C}
  <1>3. I \in SUBSET Nat /\ I # {}
    <2>1. PICK v \in C : v \in V
      BY <1>1
    <2>2. PICK i \in 1 .. n : s.finished[i] = v
      BY <1>2, <2>1 DEF Output
    <2>3. QED
      BY <1>2, <2>1, <2>2
  <1>4. PICK i \in I : \A k \in I : ~(k < i)
    <2> HIDE DEF I
    <2>1. QED
      BY <1>3, LeastNumber
  <1>5. PICK w \in C : w \in ToSet(graph[s.finished[i]])
    BY <1>1, <1>4
  <1>6. PICK j \in 1 .. i - 1 : s.finished[j] = w
    BY <1>2, <1>4, <1>5 DEF Output
  <1>7. j \in I /\ j < i
    BY <1>2, <1>4, <1>5, <1>6
  <1>8. QED
    BY <1>4, <1>7

\* What is known when the vertices 1 .. n have been looked at.
Searched(graph, s, n) ==
    /\ s \in Searches(DOMAIN graph)
    /\ IF s.cyclic THEN HasCycle(graph)
       ELSE Output(graph, s) /\ Gray(s) = {} /\ 1 .. n \subseteq Black(s)

LookAt(graph, n, s) ==
    IF s.cyclic \/ s.color[n] # "white" THEN s ELSE Visits(graph)[<<n, s>>]

LEMMA LookAtFacts ==
    ASSUME NEW graph, IsGraph(graph), NEW n \in DOMAIN graph, NEW s \in Searches(DOMAIN graph)
    PROVE  /\ LookAt(graph, n, s) \in Searches(DOMAIN graph)
           /\ Searched(graph, s, n - 1) => Searched(graph, LookAt(graph, n, s), n)
  <1> DEFINE V == DOMAIN graph
             y == <<n, s>>
             r == Visits(graph)[y]
  <1>1. y \in Calls(V) /\ y[1] = n /\ y[2] = s
    BY DEF Calls
  <1>2. n \in Nat /\ DOMAIN s.color = V /\ \A k \in 1 .. n : k \in 1 .. n - 1 \/ k = n
    <2>1. n \in 1 .. Len(graph) /\ Len(graph) \in Nat
      BY DEF IsGraph
    <2>2. QED
      BY <2>1, SearchFacts
  <1> HIDE DEF y
  <1>3. IsVisit(graph, Visits(graph))
    BY VisitsRight
  <1>4. r \in Searches(V)
    BY <1>1, <1>3 DEF IsVisit
  <1>5. LookAt(graph, n, s) = IF s.cyclic \/ s.color[n] # "white" THEN s ELSE r
    BY DEF LookAt, y
  <1>6. ASSUME Searched(graph, s, n - 1) PROVE Searched(graph, LookAt(graph, n, s), n)
    <2>1. CASE s.cyclic
      BY <1>5, <1>6, <2>1 DEF Searched
    <2>2. CASE ~s.cyclic /\ s.color[n] # "white"
      <3>1. Output(graph, s) /\ Gray(s) = {} /\ 1 .. n - 1 \subseteq Black(s)
        BY <1>6, <2>2 DEF Searched
      <3>2. s.color[n] \in Colors
        BY SearchFacts
      <3>3. n \in Black(s)
        BY <1>2, <2>2, <3>1, <3>2 DEF Gray, Black, Colors
      <3>4. 1 .. n \subseteq Black(s)
        BY <1>2, <3>1, <3>3
      <3>5. QED
        BY <1>5, <2>2, <3>1, <3>4 DEF Searched
    <2>3. CASE ~s.cyclic /\ s.color[n] = "white"
      <3>1. Output(graph, s) /\ Gray(s) = {} /\ 1 .. n - 1 \subseteq Black(s)
        BY <1>6, <2>3 DEF Searched
      <3>2. Fits(graph, y)
        BY <1>1, <2>3, <3>1 DEF Fits, OnPath
      <3>3. Does(graph, y, r)
        BY <1>1, <1>3, <3>2, VisitDoes
      <3> HIDE DEF r
      <3>4. CASE r.cyclic
        BY <1>4, <1>5, <2>3, <3>3, <3>4 DEF Does, Searched
      <3>5. CASE ~r.cyclic
        <4>1. Output(graph, r) /\ Gray(r) = {} /\ Black(s) \subseteq Black(r) /\ n \in Black(r)
          BY <1>1, <3>1, <3>3, <3>5 DEF Does
        <4>2. 1 .. n \subseteq Black(r)
          BY <1>2, <3>1, <4>1
        <4>3. QED
          BY <1>4, <1>5, <2>3, <3>5, <4>1, <4>2 DEF Searched
      <3>6. QED
        BY <3>4, <3>5
    <2>4. QED
      BY <2>1, <2>2, <2>3
  <1> HIDE DEF r
  <1>7. QED
    BY <1>4, <1>5, <1>6

LEMMA StartSearched == ASSUME NEW graph PROVE Searched(graph, Start(DOMAIN graph), 0)
  <1> DEFINE V == DOMAIN graph
             s == Start(V)
  <1>1. s = [color |-> [v \in V |-> "white"], finished |-> << >>, cyclic |-> FALSE]
    BY DEF Start
  <1> HIDE DEF s
  <1>2. s \in Searches(V)
    BY <1>1 DEF Searches, Colors
  <1>3. Gray(s) = {} /\ Black(s) = {}
    BY <1>1 DEF Gray, Black
  <1>4. DOMAIN s.finished = {}
    BY <1>1
  <1>5. Output(graph, s)
    BY <1>3, <1>4 DEF Output
  <1>6. 1 .. 0 = {}
    OBVIOUS
  <1>7. QED
    BY <1>1, <1>2, <1>3, <1>5, <1>6 DEF Searched, s

LEMMA DepthFirstSearched ==
    ASSUME NEW graph, IsGraph(graph)
    PROVE  Searched(graph, DepthFirst(graph), Len(graph))
  <1> DEFINE V == DOMAIN graph
             N == Len(graph)
             S == Searches(V)
             F == [y \in (1 .. N) \X S |-> LookAt(graph, y[1], y[2])]
             Defines(f) == f = [n \in 0 .. N |-> IF n = 0 THEN Start(V) ELSE LookAt(graph, n, f[n - 1])]
             from == CHOOSE f : Defines(f)
  <1>1. N \in Nat /\ V = 1 .. N
    BY DEF IsGraph
  <1>2. \A n \in 1 .. N : \A s \in S : LookAt(graph, n, s) \in S
    <2> SUFFICES ASSUME NEW n \in 1 .. N, NEW s \in S PROVE LookAt(graph, n, s) \in S
      OBVIOUS
    <2>1. n \in DOMAIN graph
      BY <1>1
    <2>2. QED
      BY <2>1, LookAtFacts
  <1>3. Start(V) \in S /\ Searched(graph, Start(V), 0)
    BY StartSearched DEF Searched
  <1>4. DepthFirst(graph) = from[N]
    BY DEF DepthFirst, LookAt
  <1>5. F \in [(1 .. N) \X S -> S] /\ \A n \in 1 .. N : \A s \in S : F[<<n, s>>] = LookAt(graph, n, s)
    BY <1>2
  <1> HIDE DEF F, from, S
  <1>6. PICK a \in [0 .. N -> S] : a[0] = Start(V) /\ \A n \in 1 .. N : a[n] = F[<<n, a[n - 1]>>]
    <2> DEFINE first == Start(V)
    <2> HIDE DEF N, first
    <2>1. RunExists(S, first, N, F)
      BY <1>1, <1>3, <1>5, RecursionExists DEF first
    <2>2. QED
      BY <2>1 DEF RunExists, first
  <1> HIDE DEF N
  <1>7. \A n \in 1 .. N : n - 1 \in 0 .. N /\ n \in 0 .. N /\ n # 0 /\ 0 \in 0 .. N
    BY <1>1
  <1>8. \A n \in 1 .. N : a[n] = LookAt(graph, n, a[n - 1])
    BY <1>5, <1>6, <1>7
  <1>9. Defines(a)
    <2>1. \A n \in 0 .. N : a[n] = IF n = 0 THEN Start(V) ELSE LookAt(graph, n, a[n - 1])
      <3>1. \A n \in 0 .. N : n = 0 \/ n \in 1 .. N
        BY <1>1
      <3>2. QED
        BY <1>6, <1>7, <1>8, <3>1
    <2>2. QED
      BY <2>1
  <1>10. Defines(from)
    BY <1>9 DEF from
  <1>11. from[0] = a[0] /\ \A n \in 1 .. N : from[n - 1] = a[n - 1] => from[n] = a[n]
    <2>1. \A n \in 0 .. N : from[n] = IF n = 0 THEN Start(V) ELSE LookAt(graph, n, from[n - 1])
      BY <1>10
    <2>2. 0 \in 0 .. N
      BY <1>1
    <2>3. QED
      BY <1>6, <1>7, <1>8, <2>1, <2>2
  <1>12. \A n \in 0 .. N : from[n] = a[n]
    <2>1. N \in Nat /\ from[0] = a[0]
      BY <1>1, <1>11
    <2>2. \A n \in 1 .. N : from[n - 1] = a[n - 1] => from[n] = a[n]
      BY <1>11
    <2>3. QED
      BY ONLY <2>1, <2>2, SameRun
  <1> DEFINE P == {n \in Nat : n <= N => Searched(graph, a[n], n)}
  <1>13. 0 \in P
    BY <1>3, <1>6
  <1>14. ASSUME NEW n \in P PROVE n + 1 \in P
    <2> SUFFICES ASSUME n + 1 <= N PROVE Searched(graph, a[n + 1], n + 1)
      OBVIOUS
    <2>1. n + 1 \in 1 .. N /\ (n + 1) - 1 = n /\ n \in 0 .. N /\ Searched(graph, a[n], n)
      BY <1>1
    <2>2. a[n + 1] = LookAt(graph, n + 1, a[n]) /\ a[n] \in S /\ n + 1 \in DOMAIN graph
      BY <1>1, <1>8, <2>1
    <2>3. QED
      BY <2>1, <2>2, LookAtFacts DEF S
  <1>15. P = Nat
    <2>1. P \in SUBSET Nat
      OBVIOUS
    <2> HIDE DEF P
    <2>2. QED
      BY <1>13, <1>14, <2>1, InductionOverNat
  <1>16. Searched(graph, a[N], N) /\ N \in 0 .. N
    BY <1>1, <1>15
  <1>17. QED
    BY <1>4, <1>12, <1>16 DEF N

\* The search reports a cycle if and only if there is one, whatever the graph; otherwise
\* it puts out every vertex once, behind all its successors: depth_first_search, as
\* topological_sort of graph.cpp uses it.
THEOREM CycleReported ==
    ASSUME NEW graph, IsGraph(graph)
    PROVE  /\ DepthFirst(graph) \in Searches(DOMAIN graph)
           /\ DepthFirst(graph).cyclic <=> HasCycle(graph)
           /\ ~DepthFirst(graph).cyclic =>
                 Output(graph, DepthFirst(graph)) /\ Black(DepthFirst(graph)) = DOMAIN graph
  <1> DEFINE r == DepthFirst(graph)
  <1>1. Searched(graph, r, Len(graph)) /\ DOMAIN graph = 1 .. Len(graph)
    BY DepthFirstSearched DEF IsGraph
  <1> HIDE DEF r
  <1>2. r \in Searches(DOMAIN graph) /\ r.cyclic \in BOOLEAN /\ DOMAIN r.color = DOMAIN graph
    BY <1>1, SearchFacts DEF Searched
  <1>3. ASSUME ~r.cyclic PROVE Output(graph, r) /\ Black(r) = DOMAIN graph
    BY <1>1, <1>2, <1>3 DEF Searched, Black
  <1>4. r.cyclic => HasCycle(graph)
    BY <1>1 DEF Searched
  <1>5. ~r.cyclic => ~HasCycle(graph)
    BY <1>2, <1>3, OutputAcyclic
  <1>6. QED
    BY <1>2, <1>3, <1>4, <1>5 DEF r

(***************************************************************************)
(* The lists that the search is given.                                     *)
(***************************************************************************)
\* q lists the members of T, each once.
Lists(q, T) ==
    /\ q \in Seq(T) /\ Len(q) \in Nat /\ DOMAIN q = 1 .. Len(q)
    /\ ToSet(q) = T
    /\ \A i, j \in 1 .. Len(q) : q[i] = q[j] => i = j

LEMMA ListsAppend ==
    ASSUME NEW q, NEW T, Lists(q, T), NEW e, e \notin T
    PROVE  Lists(Append(q, e), T \cup {e})
  <1> DEFINE n == Len(q)
             r == Append(q, e)
             U == T \cup {e}
  <1>1. /\ q \in Seq(T) /\ n \in Nat /\ DOMAIN q = 1 .. n /\ ToSet(q) = T
        /\ \A i, j \in 1 .. n : q[i] = q[j] => i = j
    BY DEF Lists
  <1>2. \A i \in 1 .. n : q[i] \in T
    BY <1>1
  <1>3. r \in Seq(U) /\ Len(r) = n + 1 /\ DOMAIN r = 1 .. n + 1
    <2>1. q \in Seq(U)
      BY <1>1
    <2> HIDE DEF U
    <2>2. e \in U
      BY DEF U
    <2>3. QED
      BY <2>1, <2>2
  <1>4. r[n + 1] = e /\ \A i \in 1 .. n : r[i] = q[i]
    BY <1>1
  <1> HIDE DEF r, n
  <1>5. \A i \in 1 .. n + 1 : i \in 1 .. n \/ i = n + 1
    BY <1>1
  <1>6. n + 1 \in Nat /\ n + 1 \in 1 .. n + 1 /\ \A i \in 1 .. n : i \in 1 .. n + 1
    BY <1>1
  <1>7. \A i, j \in 1 .. n + 1 : r[i] = r[j] => i = j
    BY <1>1, <1>2, <1>4, <1>5
  <1>8. ToSet(r) = U
    <2>1. ToSet(r) = {r[i] : i \in 1 .. n + 1}
      BY <1>3 DEF ToSet
    <2>2. T = {q[i] : i \in 1 .. n}
      BY <1>1 DEF ToSet
    <2>3. ASSUME NEW u \in U PROVE u \in ToSet(r)
      <3>1. CASE u = e
        BY <1>4, <1>6, <2>1, <3>1
      <3>2. CASE u \in T
        <4>1. PICK i \in 1 .. n : u = q[i]
          BY <2>2, <3>2
        <4>2. QED
          BY <1>4, <1>6, <2>1, <4>1
      <3>3. QED
        BY <3>1, <3>2
    <2>4. ASSUME NEW u \in ToSet(r) PROVE u \in U
      <3>1. PICK i \in 1 .. n + 1 : u = r[i]
        BY <2>1
      <3>2. QED
        BY <1>2, <1>4, <1>5, <3>1
    <2>5. QED
      BY <2>3, <2>4
  <1>9. QED
    BY <1>3, <1>6, <1>7, <1>8 DEF Lists, r

\* The list of numbers that Ascending builds, number by number.
IsAscending(n, S, f) ==
    f = [i \in 0 .. n |->
            IF i = 0 THEN << >> ELSE IF i \in S THEN Append(f[i - 1], i) ELSE f[i - 1]]

LEMMA AscendingExists ==
    ASSUME NEW n \in Nat, NEW S
    PROVE  \E f : IsAscending(n, S, f)
  <1> DEFINE P == {k \in Nat : \E f : IsAscending(k, S, f)}
  <1>1. 0 \in P
    <2> DEFINE f == [i \in 0 .. 0 |-> << >>]
    <2>1. IsAscending(0, S, f)
      BY DEF IsAscending
    <2>2. QED
      BY <2>1
  <1>2. ASSUME NEW k \in P PROVE k + 1 \in P
    <2>1. k \in Nat /\ \A i \in 0 .. k + 1 : i = k + 1 \/ (i \in 0 .. k /\ i # k + 1)
      OBVIOUS
    <2>2. PICK f : IsAscending(k, S, f)
      OBVIOUS
    <2>3. /\ DOMAIN f = 0 .. k
          /\ \A i \in 0 .. k :
                f[i] = IF i = 0 THEN << >> ELSE IF i \in S THEN Append(f[i - 1], i) ELSE f[i - 1]
      BY <2>2 DEF IsAscending
    <2> DEFINE last == IF k + 1 \in S THEN Append(f[k], k + 1) ELSE f[k]
               h == [i \in 0 .. k + 1 |-> IF i = k + 1 THEN last ELSE f[i]]
    <2>4. \A i \in 0 .. k + 1 :
             h[i] = IF i = 0 THEN << >> ELSE IF i \in S THEN Append(h[i - 1], i) ELSE h[i - 1]
      <3> SUFFICES ASSUME NEW i \in 0 .. k + 1
                   PROVE  h[i] = IF i = 0 THEN << >> ELSE IF i \in S THEN Append(h[i - 1], i) ELSE h[i - 1]
        OBVIOUS
      <3> HIDE DEF last
      <3>1. CASE i = k + 1
        <4>1. h[i] = last /\ i # 0 /\ i - 1 = k /\ h[i - 1] = f[k]
          BY <2>1, <3>1
        <4>2. QED
          BY <3>1, <4>1 DEF last
      <3>2. CASE i # k + 1
        <4>1. i \in 0 .. k /\ h[i] = f[i] /\ (i # 0 => i - 1 \in 0 .. k + 1 /\ i - 1 # k + 1 /\ h[i - 1] = f[i - 1])
          BY <2>1, <3>2
        <4> HIDE DEF h
        <4>2. QED
          BY <2>3, <4>1
      <3>3. QED
        BY <3>1, <3>2
    <2>5. IsAscending(k + 1, S, h)
      <3> HIDE DEF last
      <3>1. h = [i \in 0 .. k + 1 |->
                   IF i = 0 THEN << >> ELSE IF i \in S THEN Append(h[i - 1], i) ELSE h[i - 1]]
        BY <2>4
      <3>2. QED
        BY <3>1 DEF IsAscending
    <2>6. k + 1 \in Nat
      BY <2>1
    <2> HIDE DEF h
    <2>7. QED
      BY <2>5, <2>6
  <1>3. P \in SUBSET Nat
    OBVIOUS
  <1> HIDE DEF P
  <1>4. P = Nat
    BY <1>1, <1>2, <1>3, InductionOverNat
  <1>5. QED
    BY <1>4 DEF P

\* Ascending is the last value of such a function.
LEMMA AscendingDefined ==
    ASSUME NEW n \in Nat, NEW S
    PROVE  \E f : IsAscending(n, S, f) /\ Ascending(n, S) = f[n]
  <1> DEFINE f == CHOOSE f : IsAscending(n, S, f)
  <1>1. IsAscending(n, S, f)
    BY AscendingExists
  <1>2. Ascending(n, S) = f[n]
    BY DEF Ascending, IsAscending
  <1>3. QED
    BY <1>1, <1>2

\* One number more: it is appended if it is in the set.
LEMMA AscendingStep ==
    ASSUME NEW S
    PROVE  /\ Ascending(0, S) = << >>
           /\ \A n \in Nat : Ascending(n + 1, S) = IF n + 1 \in S THEN Append(Ascending(n, S), n + 1)
                                                                 ELSE Ascending(n, S)
  <1>1. Ascending(0, S) = << >>
    <2>1. PICK f : IsAscending(0, S, f) /\ Ascending(0, S) = f[0]
      BY AscendingDefined
    <2>2. f[0] = << >>
      BY <2>1 DEF IsAscending
    <2>3. QED
      BY <2>1, <2>2
  <1>2. ASSUME NEW n \in Nat
        PROVE  Ascending(n + 1, S) = IF n + 1 \in S THEN Append(Ascending(n, S), n + 1) ELSE Ascending(n, S)
    <2>1. PICK a : IsAscending(n, S, a) /\ Ascending(n, S) = a[n]
      BY AscendingDefined
    <2>2. PICK f : IsAscending(n + 1, S, f) /\ Ascending(n + 1, S) = f[n + 1]
      BY AscendingDefined
    <2>3. \A i \in 0 .. n + 1 :
             f[i] = IF i = 0 THEN << >> ELSE IF i \in S THEN Append(f[i - 1], i) ELSE f[i - 1]
      BY <2>2 DEF IsAscending
    <2>4. \A i \in 0 .. n :
             a[i] = IF i = 0 THEN << >> ELSE IF i \in S THEN Append(a[i - 1], i) ELSE a[i - 1]
      BY <2>1 DEF IsAscending
    <2>5. f[0] = a[0] /\ \A i \in 1 .. n : f[i - 1] = a[i - 1] => f[i] = a[i]
      <3>1. 0 \in 0 .. n /\ 0 \in 0 .. n + 1 /\ \A i \in 1 .. n : i \in 0 .. n /\ i \in 0 .. n + 1 /\ i # 0
        OBVIOUS
      <3>2. QED
        BY <2>3, <2>4, <3>1
    <2>6. \A i \in 0 .. n : f[i] = a[i]
      BY ONLY n \in Nat, <2>5, SameRun
    <2>7. n \in 0 .. n /\ n + 1 \in 0 .. n + 1 /\ n + 1 # 0 /\ (n + 1) - 1 = n
      OBVIOUS
    <2>8. QED
      BY <2>1, <2>2, <2>3, <2>6, <2>7
  <1>3. QED
    BY <1>1, <1>2

\* The numbers are numbers.
LEMMA AscendingType ==
    ASSUME NEW S, NEW n \in Nat
    PROVE  Ascending(n, S) \in Seq(Nat)
  <1> DEFINE P == {k \in Nat : Ascending(k, S) \in Seq(Nat)}
  <1>1. 0 \in P
    <2>1. Ascending(0, S) = << >>
      BY AscendingStep
    <2>2. << >> \in Seq(Nat)
      OBVIOUS
    <2>3. QED
      BY <2>1, <2>2
  <1>2. ASSUME NEW k \in P PROVE k + 1 \in P
    <2>1. k \in Nat /\ Ascending(k, S) \in Seq(Nat) /\ k + 1 \in Nat
      OBVIOUS
    <2>2. Append(Ascending(k, S), k + 1) \in Seq(Nat)
      BY <2>1
    <2>3. QED
      BY <2>1, <2>2, AscendingStep
  <1>3. P \in SUBSET Nat
    OBVIOUS
  <1> HIDE DEF P
  <1>4. P = Nat
    BY <1>1, <1>2, <1>3, InductionOverNat
  <1>5. QED
    BY <1>4 DEF P

\* It lists the numbers of the set, each of them once.
LEMMA AscendingLists ==
    ASSUME NEW n \in Nat, NEW S \in SUBSET (1 .. n)
    PROVE  Lists(Ascending(n, S), S)
  <1> DEFINE P == {k \in Nat : Lists(Ascending(k, S), S \cap (1 .. k))}
  <1>1. 0 \in P
    <2>1. S \cap (1 .. 0) = {} /\ Ascending(0, S) = << >>
      BY AscendingStep
    <2>2. Lists(<< >>, {})
      BY DEF Lists, ToSet
    <2>3. QED
      BY <2>1, <2>2
  <1>2. ASSUME NEW k \in P PROVE k + 1 \in P
    <2>1. k \in Nat /\ k + 1 \in Nat /\ Lists(Ascending(k, S), S \cap (1 .. k))
      OBVIOUS
    <2>2. Ascending(k + 1, S) = IF k + 1 \in S THEN Append(Ascending(k, S), k + 1) ELSE Ascending(k, S)
      BY <2>1, AscendingStep
    <2>3. CASE k + 1 \in S
      <3>1. S \cap (1 .. k + 1) = (S \cap (1 .. k)) \cup {k + 1} /\ k + 1 \notin S \cap (1 .. k)
        BY <2>1, <2>3
      <3>2. Lists(Append(Ascending(k, S), k + 1), (S \cap (1 .. k)) \cup {k + 1})
        BY <2>1, <3>1, ListsAppend
      <3>3. QED
        BY <2>1, <2>2, <2>3, <3>1, <3>2
    <2>4. CASE k + 1 \notin S
      <3>1. S \cap (1 .. k + 1) = S \cap (1 .. k)
        BY <2>1, <2>4
      <3>2. QED
        BY <2>1, <2>2, <2>4, <3>1
    <2>5. QED
      BY <2>3, <2>4
  <1>3. P \in SUBSET Nat
    OBVIOUS
  <1> HIDE DEF P
  <1>4. P = Nat
    BY <1>1, <1>2, <1>3, InductionOverNat
  <1>5. Lists(Ascending(n, S), S \cap (1 .. n))
    BY <1>4 DEF P
  <1>6. S \cap (1 .. n) = S
    OBVIOUS
  <1>7. QED
    BY <1>5, <1>6

(***************************************************************************)
(* The order of a selection.                                               *)
(***************************************************************************)
LEMMA DependencyGraphFacts ==
    ASSUME NEW db, NEW model, NEW sel, Lists(model, sel)
    PROVE  LET g == DependencyGraph(db, model)
           IN /\ IsGraph(g) /\ DOMAIN g = DOMAIN model
              /\ \A i \in DOMAIN model :
                    ToSet(g[i]) = {k \in DOMAIN model : DependsOn(db, model[k], model[i])}
  <1> DEFINE g == DependencyGraph(db, model)
             n == Len(model)
             Next1(i) == {k \in 1 .. n : DependsOn(db, model[k], model[i])}
             E(i) == Ascending(n, Next1(i))
  <1>1. n \in Nat /\ DOMAIN model = 1 .. n
    BY DEF Lists
  <1>2. g = [i \in 1 .. n |-> E(i)]
    BY <1>1 DEF DependencyGraph
  <1>3. ASSUME NEW i \in 1 .. n PROVE E(i) \in Seq(1 .. n) /\ ToSet(E(i)) = Next1(i)
    <2>1. Next1(i) \in SUBSET (1 .. n)
      OBVIOUS
    <2>2. Lists(E(i), Next1(i))
      BY <1>1, <2>1, AscendingLists
    <2> HIDE DEF Next1, E
    <2>3. QED
      BY <2>1, <2>2 DEF Lists
  <1> HIDE DEF g, E, n
  <1>4. Len(g) = n /\ DOMAIN g = 1 .. n /\ \A i \in 1 .. n : g[i] = E(i)
    BY <1>1, <1>2
  <1>5. IsGraph(g)
    BY <1>1, <1>3, <1>4 DEF IsGraph
  <1>6. \A i \in 1 .. n : ToSet(g[i]) = Next1(i)
    BY <1>3, <1>4
  <1>7. QED
    BY <1>1, <1>4, <1>5, <1>6 DEF g

\* Some members of a selection of which each is needed by one of them.
Circular(db, sel) ==
    \E C \in SUBSET sel : C # {} /\ \A i \in C : \E k \in C : DependsOn(db, k, i)

\* All that a member of the order depends on comes before it.
ProvidersFirst(db, order) ==
    \A i \in 1 .. Len(order) : \A p \in ToSet(order) :
        DependsOn(db, order[i], p) => \E j \in 1 .. i - 1 : order[j] = p

LEMMA CyclesOfSelection ==
    ASSUME NEW db, NEW model, NEW sel, Lists(model, sel)
    PROVE  HasCycle(DependencyGraph(db, model)) <=> Circular(db, sel)
  <1> DEFINE g == DependencyGraph(db, model)
             V == DOMAIN model
  <1>1. /\ DOMAIN g = V
        /\ \A i \in V : ToSet(g[i]) = {k \in V : DependsOn(db, model[k], model[i])}
    BY DependencyGraphFacts
  <1>2. sel = {model[i] : i \in V} /\ \A i \in V : model[i] \in sel
    BY DEF Lists, ToSet
  <1> HIDE DEF g, V
  <1>3. ASSUME HasCycle(g) PROVE Circular(db, sel)
    <2>1. PICK C \in SUBSET V : C # {} /\ \A v \in C : ToSet(g[v]) \cap C # {}
      BY <1>1, <1>3 DEF HasCycle
    <2> DEFINE D == {model[v] : v \in C}
    <2>2. D \in SUBSET sel /\ D # {}
      BY <1>2, <2>1
    <2>3. ASSUME NEW i \in D PROVE \E k \in D : DependsOn(db, k, i)
      <3>1. PICK v \in C : i = model[v]
        OBVIOUS
      <3>2. PICK w \in C : w \in ToSet(g[v])
        BY <2>1, <3>1
      <3>3. DependsOn(db, model[w], model[v])
        BY <1>1, <3>2
      <3>4. QED
        BY <3>1, <3>3
    <2> HIDE DEF D
    <2>4. QED
      BY <2>2, <2>3 DEF Circular
  <1>4. ASSUME Circular(db, sel) PROVE HasCycle(g)
    <2>1. PICK D \in SUBSET sel : D # {} /\ \A i \in D : \E k \in D : DependsOn(db, k, i)
      BY <1>4 DEF Circular
    <2> DEFINE C == {v \in V : model[v] \in D}
    <2>2. C \in SUBSET V /\ C # {}
      BY <1>2, <2>1
    <2>3. ASSUME NEW v \in C PROVE ToSet(g[v]) \cap C # {}
      <3>1. PICK k \in D : DependsOn(db, k, model[v])
        BY <2>1
      <3>2. PICK w \in V : model[w] = k
        BY <1>2, <2>1
      <3>3. w \in ToSet(g[v]) /\ w \in C
        BY <1>1, <3>1, <3>2
      <3>4. QED
        BY <3>3
    <2> HIDE DEF C
    <2>4. QED
      BY <1>1, <2>2, <2>3 DEF HasCycle
  <1>5. QED
    BY <1>3, <1>4 DEF g

\* A selection that has no cycle is put in an order in which every member comes once and
\* behind all that it depends on; only one that has a cycle is refused (graph.cpp:20-58).
THEOREM OrderRight ==
    ASSUME NEW db, NEW model, NEW sel, Lists(model, sel)
    PROVE  LET sorted == TopologicalSort(db, model)
           IN /\ sorted.cyclic \in BOOLEAN
              /\ sorted.cyclic <=> Circular(db, sel)
              /\ ~sorted.cyclic => Lists(sorted.order, sel) /\ ProvidersFirst(db, sorted.order)
  <1> DEFINE g == DependencyGraph(db, model)
             r == DepthFirst(g)
             fin == r.finished
             sorted == TopologicalSort(db, model)
             order == [i \in DOMAIN fin |-> model[Reverse(fin)[i]]]
             m == Len(fin)
             V == DOMAIN model
  <1>1. /\ IsGraph(g) /\ DOMAIN g = V
        /\ \A i \in V : ToSet(g[i]) = {k \in V : DependsOn(db, model[k], model[i])}
    BY DependencyGraphFacts
  <1>2. sorted.cyclic = r.cyclic /\ sorted.order = order
    BY DEF TopologicalSort
  <1> HIDE DEF g, sorted
  <1>3. /\ r \in Searches(V)
        /\ r.cyclic <=> HasCycle(g)
        /\ ~r.cyclic => Output(g, r) /\ Black(r) = V
    BY <1>1, CycleReported
  <1> HIDE DEF r
  <1>4. r.cyclic \in BOOLEAN /\ r.finished \in Seq(V)
    BY <1>3, SearchFacts
  <1>5. HasCycle(g) <=> Circular(db, sel)
    BY CyclesOfSelection DEF g
  <1>6. ASSUME ~r.cyclic PROVE Lists(order, sel) /\ ProvidersFirst(db, order)
    <2>1. /\ sel = {model[i] : i \in V} /\ (\A i \in V : model[i] \in sel)
          /\ \A i, j \in V : model[i] = model[j] => i = j
      BY DEF Lists, ToSet
    <2> HIDE DEF V
    <2>2. /\ m \in Nat /\ DOMAIN fin = 1 .. m /\ \A i \in 1 .. m : fin[i] \in V
      BY <1>4
    <2>3. order = [i \in 1 .. m |-> model[fin[(m - i) + 1]]]
      BY <2>2 DEF Reverse
    <2> HIDE DEF m, order
    <2>4. \A i \in 1 .. m : (m - i) + 1 \in 1 .. m /\ (m - ((m - i) + 1)) + 1 = i
      BY <2>2
    <2>5. /\ Len(order) = m /\ DOMAIN order = 1 .. m
          /\ \A i \in 1 .. m : order[i] = model[fin[(m - i) + 1]] /\ order[i] \in sel
      <3>1. \A i \in 1 .. m : model[fin[(m - i) + 1]] \in sel
        BY <2>1, <2>2, <2>4
      <3>2. QED
        BY <2>2, <2>3, <3>1
    <2>6. order \in Seq(sel)
      BY <2>2, <2>3, <2>5
    <2>7. /\ \A i, j \in 1 .. m : fin[i] = fin[j] => i = j
          /\ \A v \in V : \E i \in 1 .. m : fin[i] = v
          /\ \A i \in 1 .. m : \A w \in ToSet(g[fin[i]]) : \E j \in 1 .. i - 1 : fin[j] = w
      BY <1>3, <1>6, <2>2 DEF Output
    <2>8. ASSUME NEW i \in 1 .. m, NEW j \in 1 .. m, order[i] = order[j] PROVE i = j
      <3>1. fin[(m - i) + 1] = fin[(m - j) + 1]
        BY <2>1, <2>2, <2>4, <2>5, <2>8
      <3>2. (m - i) + 1 = (m - j) + 1
        BY <2>4, <2>7, <3>1
      <3>3. QED
        BY <2>2, <3>2
    <2>9. ASSUME NEW v \in V PROVE \E i \in 1 .. m : fin[(m - i) + 1] = v /\ order[i] = model[v]
      <3>1. PICK q \in 1 .. m : fin[q] = v
        BY <2>7
      <3>2. QED
        BY <2>4, <2>5, <3>1
    <2>10. ToSet(order) = sel
      <3>1. ToSet(order) = {order[i] : i \in 1 .. m}
        BY <2>5 DEF ToSet
      <3>2. ASSUME NEW p \in sel PROVE p \in ToSet(order)
        BY <2>1, <2>9, <3>1
      <3>3. QED
        BY <2>5, <3>1, <3>2
    <2>11. Lists(order, sel)
      BY <2>2, <2>5, <2>6, <2>8, <2>10 DEF Lists
    <2>12. ASSUME NEW i \in 1 .. m, NEW p \in sel, DependsOn(db, order[i], p)
           PROVE  \E j \in 1 .. i - 1 : order[j] = p
      <3>1. PICK l \in V : model[l] = p
        BY <2>1
      <3> DEFINE k == fin[(m - i) + 1]
      <3>2. k \in V /\ order[i] = model[k]
        BY <2>2, <2>4, <2>5
      <3>3. k \in ToSet(g[l])
        BY <1>1, <2>12, <3>1, <3>2 DEF V
      <3>4. PICK q \in 1 .. m : fin[q] = l
        BY <2>7
      <3>5. PICK j \in 1 .. q - 1 : fin[j] = k
        BY <2>7, <3>3, <3>4
      <3>6. j \in 1 .. m /\ j < q
        BY <2>2, <3>5
      <3>7. j = (m - i) + 1
        BY <2>4, <2>7, <3>5, <3>6
      <3>8. (m - q) + 1 \in 1 .. i - 1
        BY <2>2, <3>6, <3>7
      <3>9. order[(m - q) + 1] = p
        BY <2>4, <2>5, <3>1, <3>4
      <3>10. QED
        BY <3>8, <3>9
    <2>13. ProvidersFirst(db, order)
      BY <2>5, <2>10, <2>12 DEF ProvidersFirst
    <2>14. QED
      BY <2>11, <2>13
  <1> HIDE DEF order
  <1>7. QED
    BY <1>2, <1>3, <1>4, <1>5, <1>6 DEF sorted
=============================================================================
