---------------------------- MODULE LookupProofs ---------------------------
(***************************************************************************)
(* Proofs about module Lookup, for any hash values and any number of words *)
(* and entries: the probes of a hash value meet every slot of its table,   *)
(* so a lookup ends, and it sees what was put in.                          *)
(***************************************************************************)
EXTENDS Lookup, Recursion, FiniteSetTheorems

(***************************************************************************)
(* Powers of two.                                                          *)
(***************************************************************************)
\* p is 2 to the power of n.
PowerOf(n, p) ==
    \E f \in [0 .. n -> Nat] : /\ f[0] = 1 /\ f[n] = p
                               /\ \A k \in 1 .. n : f[k] = 2 * f[k - 1]

LEMMA PowerFirst ==
    ASSUME NEW p
    PROVE  PowerOf(0, p) <=> p = 1
  <1>1. ASSUME p = 1 PROVE PowerOf(0, p)
    <2> DEFINE f == [k \in 0 .. 0 |-> 1]
    <2>1. f \in [0 .. 0 -> Nat] /\ f[0] = 1 /\ \A k \in 1 .. 0 : FALSE
      OBVIOUS
    <2> HIDE DEF f
    <2>2. QED
      BY <1>1, <2>1 DEF PowerOf
  <1>2. QED
    BY <1>1 DEF PowerOf

LEMMA PowerNext ==
    ASSUME NEW n \in Nat, NEW p, PowerOf(n, p)
    PROVE  PowerOf(n + 1, 2 * p)
  <1>1. PICK f \in [0 .. n -> Nat] : /\ f[0] = 1 /\ f[n] = p
                                     /\ \A k \in 1 .. n : f[k] = 2 * f[k - 1]
    BY DEF PowerOf
  <1> DEFINE g == [k \in 0 .. n + 1 |-> IF k = n + 1 THEN 2 * p ELSE f[k]]
  <1>2. p \in Nat
    BY <1>1
  <1>3. g \in [0 .. n + 1 -> Nat] /\ g[0] = 1 /\ g[n + 1] = 2 * p
    BY <1>1, <1>2
  <1>4. ASSUME NEW k \in 1 .. n + 1 PROVE g[k] = 2 * g[k - 1]
    <2>1. CASE k = n + 1
      <3>1. g[k] = 2 * p /\ g[k - 1] = f[n]
        BY <2>1
      <3>2. QED
        BY <1>1, <3>1
    <2>2. CASE k # n + 1
      <3>1. k \in 1 .. n /\ g[k] = f[k] /\ g[k - 1] = f[k - 1]
        BY <2>2
      <3>2. QED
        BY <1>1, <3>1
    <2>3. QED
      BY <2>1, <2>2
  <1> HIDE DEF g
  <1>5. QED
    BY <1>3, <1>4 DEF PowerOf

LEMMA PowerHalved ==
    ASSUME NEW n \in Nat, NEW p, PowerOf(n + 1, p)
    PROVE  \E h \in Nat : PowerOf(n, h) /\ p = 2 * h
  <1>1. PICK f \in [0 .. n + 1 -> Nat] : /\ f[0] = 1 /\ f[n + 1] = p
                                         /\ \A k \in 1 .. n + 1 : f[k] = 2 * f[k - 1]
    BY DEF PowerOf
  <1> DEFINE g == [k \in 0 .. n |-> f[k]]
  <1>2. g \in [0 .. n -> Nat] /\ g[0] = 1 /\ g[n] = f[n]
    BY <1>1
  <1>3. \A k \in 1 .. n : g[k] = 2 * g[k - 1]
    BY <1>1
  <1> HIDE DEF g
  <1>4. PowerOf(n, f[n])
    BY <1>2, <1>3 DEF PowerOf
  <1>5. f[n] \in Nat /\ p = 2 * f[n]
    BY <1>1
  <1>6. QED
    BY <1>4, <1>5

LEMMA PowerLarge ==
    ASSUME NEW n \in Nat, NEW p, PowerOf(n, p)
    PROVE  p \in Nat /\ p >= n + 1
  <1>1. PICK f \in [0 .. n -> Nat] : /\ f[0] = 1 /\ f[n] = p
                                     /\ \A k \in 1 .. n : f[k] = 2 * f[k - 1]
    BY DEF PowerOf
  <1> DEFINE P == {k \in Nat : k <= n => f[k] >= k + 1}
  <1>2. 0 \in P
    BY <1>1
  <1>3. ASSUME NEW k \in P PROVE k + 1 \in P
    <2> SUFFICES ASSUME k + 1 <= n PROVE f[k + 1] >= (k + 1) + 1
      OBVIOUS
    <2>1. k \in 0 .. n /\ k + 1 \in 1 .. n /\ f[k] >= k + 1 /\ f[k] \in Nat
      BY <1>1
    <2>2. f[k + 1] = 2 * f[k]
      BY <1>1, <2>1
    <2>3. QED
      BY <2>1, <2>2
  <1>4. P \in SUBSET Nat
    OBVIOUS
  <1> HIDE DEF P
  <1>5. P = Nat
    BY <1>2, <1>3, <1>4, InductionOverNat
  <1>6. n \in P
    BY <1>5
  <1>7. f[n] >= n + 1
    BY <1>6 DEF P
  <1>8. QED
    BY <1>1, <1>7

Divides(p, x) == \E r \in Int : x = p * r

\* An odd factor does not help to be divisible by a power of two.
LEMMA OddFactor ==
    ASSUME NEW n \in Nat, NEW p \in Int, PowerOf(n, p),
           NEW a \in Int, NEW c \in Int, Divides(p, a * (2 * c + 1))
    PROVE  Divides(p, a)
  <1> DEFINE Right(k) == \A y, x, z \in Int : (PowerOf(k, y) /\ Divides(y, x * (2 * z + 1))) => Divides(y, x)
             P == {k \in Nat : Right(k)}
  <1>1. 0 \in P
    <2>1. \A y, x \in Int : PowerOf(0, y) => x = y * x
      BY PowerFirst
    <2>2. QED
      BY <2>1 DEF Divides
  <1>2. ASSUME NEW k \in Nat, Right(k) PROVE Right(k + 1)
    <2> SUFFICES ASSUME NEW y \in Int, NEW x \in Int, NEW z \in Int,
                        PowerOf(k + 1, y), Divides(y, x * (2 * z + 1))
                 PROVE  Divides(y, x)
      OBVIOUS
    <2>1. PICK h \in Nat : PowerOf(k, h) /\ y = 2 * h
      BY PowerHalved
    <2>2. PICK q \in Int : x * (2 * z + 1) = y * q
      BY DEF Divides
    <2>3. PICK d \in Int : x = 2 * d \/ x = 2 * d + 1
      <3>1. x = 2 * (x \div 2) \/ x = 2 * (x \div 2) + 1
        OBVIOUS
      <3>2. QED
        BY <3>1
    <2>4. x = 2 * d
      <3>1. ASSUME x = 2 * d + 1 PROVE FALSE
        <4>1. (2 * d + 1) * (2 * z + 1) = (2 * h) * q
          BY <2>1, <2>2, <3>1
        <4>2. QED
          BY <4>1
      <3>2. QED
        BY <2>3, <3>1
    <2>5. d * (2 * z + 1) = h * q
      <3>1. (2 * d) * (2 * z + 1) = (2 * h) * q
        BY <2>1, <2>2, <2>4
      <3>2. QED
        BY <3>1
    <2>6. Divides(h, d * (2 * z + 1))
      BY <2>5 DEF Divides
    <2>7. h \in Int
      OBVIOUS
    <2>8. Divides(h, d)
      BY <1>2, <2>1, <2>6, <2>7, Zenon
    <2>9. PICK r \in Int : d = h * r
      BY <2>8 DEF Divides
    <2>10. x = y * r
      BY <2>1, <2>4, <2>9
    <2>11. QED
      BY <2>10 DEF Divides
  <1>3. P \in SUBSET Nat /\ \A k \in P : k + 1 \in P
    <2> HIDE DEF Right
    <2>1. QED
      BY <1>2
  <1> HIDE DEF P
  <1>4. P = Nat
    BY <1>1, <1>3, InductionOverNat
  <1>5. n \in P
    BY <1>4
  <1>6. QED
    BY <1>5 DEF P

(***************************************************************************)
(* Probes.                                                                 *)
(***************************************************************************)
LEMMA OffsetFacts ==
    ASSUME NEW k \in Nat
    PROVE  Offset(k) \in Nat /\ 2 * Offset(k) = k * (k + 13)
  <1>1. PICK t \in Nat : k * (k - 1) = 2 * t
    <2>1. PICK e \in Nat : k = 2 * e \/ k = 2 * e + 1
      <3>1. (k = 2 * (k \div 2) \/ k = 2 * (k \div 2) + 1) /\ k \div 2 \in Nat
        OBVIOUS
      <3>2. QED
        BY <3>1
    <2>2. CASE k = 2 * e
      <3>1. k * (k - 1) = 2 * (e * (2 * e - 1)) /\ e * (2 * e - 1) \in Nat
        <4>1. e = 0 \/ 2 * e - 1 \in Nat
          OBVIOUS
        <4>2. QED
          BY <2>2, <4>1
      <3>2. QED
        BY <3>1
    <2>3. CASE k = 2 * e + 1
      <3>1. k * (k - 1) = 2 * ((2 * e + 1) * e) /\ (2 * e + 1) * e \in Nat
        BY <2>3
      <3>2. QED
        BY <3>1
    <2>4. QED
      BY <2>1, <2>2, <2>3
  <1>2. Offset(k) = 7 * k + t
    BY <1>1 DEF Offset
  <1>3. 14 * k + k * (k - 1) = k * (k + 13)
    OBVIOUS
  <1>4. QED
    BY <1>1, <1>2, <1>3

\* Two probes of which both are even, or both odd, are not of one slot, unless there are
\* twice as many probes between them as slots.
LEMMA ProbesDiffer ==
    ASSUME NEW n \in Nat, NEW p \in Nat \ {0}, PowerOf(n, p), NEW h \in Nat,
           NEW i \in Nat, NEW j \in Nat, i < j, j < i + 2 * p, NEW m \in Nat, j = i + 2 * m,
           (h + Offset(i)) % p = (h + Offset(j)) % p
    PROVE  FALSE
  <1> DEFINE a == h + Offset(i)
             b == h + Offset(j)
  <1>0. /\ Offset(i) \in Nat /\ 2 * Offset(i) = i * (i + 13)
        /\ Offset(j) \in Nat /\ 2 * Offset(j) = j * (j + 13)
    BY OffsetFacts
  <1>1. a \in Nat /\ b \in Nat /\ a % p = b % p
    BY <1>0
  <1>2. PICK q \in Int : b - a = p * q
    <2>1. \A x \in Nat : x = p * (x \div p) + (x % p) /\ x \div p \in Nat
      OBVIOUS
    <2> HIDE DEF a, b
    <2>2. b - a = p * (b \div p) - p * (a \div p)
      BY <1>1, <2>1
    <2>3. b - a = p * ((b \div p) - (a \div p)) /\ (b \div p) - (a \div p) \in Int
      BY <1>1, <2>1, <2>2
    <2>4. QED
      BY <2>3
  <1>3. 2 * (b - a) = (j - i) * (2 * (i + m + 6) + 1)
    <2>1. 2 * (b - a) = j * (j + 13) - i * (i + 13)
      BY <1>0
    <2>2. j * (j + 13) - i * (i + 13) = (j - i) * (i + j + 13)
      OBVIOUS
    <2>3. QED
      BY <2>1, <2>2
  <1> HIDE DEF a, b
  <1>4. Divides(2 * p, (j - i) * (2 * (i + m + 6) + 1))
    <2>1. (j - i) * (2 * (i + m + 6) + 1) = (2 * p) * q
      BY <1>1, <1>2, <1>3
    <2>2. QED
      BY <2>1 DEF Divides
  <1>5. PowerOf(n + 1, 2 * p)
    BY PowerNext
  <1>6. Divides(2 * p, j - i)
    <2>1. 2 * p \in Int /\ j - i \in Int /\ i + m + 6 \in Int /\ n + 1 \in Nat
      OBVIOUS
    <2>2. QED
      BY <1>4, <1>5, <2>1, OddFactor
  <1>7. PICK r \in Int : j - i = (2 * p) * r
    BY <1>6 DEF Divides
  <1>8. QED
    <2>1. 0 < (2 * p) * r /\ (2 * p) * r < 2 * p
      BY <1>7
    <2>2. r <= 0 => (2 * p) * r <= 0
      OBVIOUS
    <2>3. r >= 1 => (2 * p) * r >= 2 * p
      OBVIOUS
    <2>4. QED
      BY <2>1, <2>2, <2>3
\* Every slot is met by a probe with an even number, and by one with an odd number.
LEMMA EverySlotProbed ==
    ASSUME NEW n \in Nat, NEW p \in Nat \ {0}, PowerOf(n, p), NEW h \in Nat,
           NEW slot \in 0 .. p - 1
    PROVE  \E k \in 0 .. 2 * p - 1 : (h + Offset(k)) % p = slot
  <1> DEFINE S == 0 .. p - 1
             f == [e \in S |-> (h + Offset(2 * e)) % p]
  <1>1. f \in [S -> S]
    <2>1. ASSUME NEW e \in S PROVE (h + Offset(2 * e)) % p \in S
      <3>1. Offset(2 * e) \in Nat
        BY OffsetFacts
      <3>2. \A x \in Nat : x % p \in 0 .. p - 1
        OBVIOUS
      <3>3. QED
        BY <3>1, <3>2
    <2>2. QED
      BY <2>1
  <1>2. ASSUME NEW d \in S, NEW e \in S, d < e, f[d] = f[e] PROVE FALSE
    <2>1. /\ 2 * d \in Nat /\ 2 * e \in Nat /\ 2 * d < 2 * e /\ 2 * e < 2 * d + 2 * p
          /\ e - d \in Nat /\ 2 * e = 2 * d + 2 * (e - d)
      BY <1>2
    <2>2. (h + Offset(2 * d)) % p = (h + Offset(2 * e)) % p
      BY <1>2
    <2>3. QED
      BY <2>1, <2>2, ProbesDiffer
  <1> HIDE DEF f
  <1>3. f \in Injection(S, S)
    <2>1. ASSUME NEW d \in S, NEW e \in S, f[d] = f[e] PROVE d = e
      <3>1. d < e \/ e < d \/ d = e
        OBVIOUS
      <3>2. QED
        BY <1>2, <2>1, <3>1
    <2> HIDE DEF S
    <2>2. QED
      BY <1>1, <2>1 DEF Injection, IsInjective
  <1>4. IsFiniteSet(S)
    BY FS_Interval
  <1>5. f \in Surjection(S, S)
    <2> HIDE DEF S
    <2>1. QED
      BY <1>3, <1>4, FS_Injection
  <1>6. PICK e \in S : f[e] = slot
    <2>1. slot \in S
      OBVIOUS
    <2> HIDE DEF S
    <2>2. QED
      BY <1>5, <2>1 DEF Surjection
  <1>7. 2 * e \in 0 .. 2 * p - 1 /\ (h + Offset(2 * e)) % p = slot
    BY <1>6 DEF f
  <1>8. QED
    BY <1>7

(***************************************************************************)
(* Tables.  hs: the hash value of every entry.                             *)
(***************************************************************************)
IsTable(t) ==
    /\ t = [mask |-> t.mask, slots |-> t.slots]
    /\ t.mask \in Nat /\ \E n \in Nat : PowerOf(n, t.mask + 1)
    /\ t.slots \in [0 .. t.mask -> Nat]

\* The first n entries are in the table, each in one slot, in front of which no probe of
\* its hash value finds a free one.
Entered(t, hs, n) ==
    /\ \A s \in 0 .. t.mask : t.slots[s] \in 0 .. n
    /\ \A s1, s2 \in 0 .. t.mask : (t.slots[s1] # 0 /\ t.slots[s1] = t.slots[s2]) => s1 = s2
    /\ \A i \in 1 .. n :
          \E k \in 0 .. 2 * t.mask + 1 :
             /\ t.slots[Probe(t, hs[i], k)] = i
             /\ \A j \in 0 .. k : Taken(t, hs[i], j)

LEMMA ProbeFacts ==
    ASSUME NEW t, IsTable(t), NEW h \in Nat, NEW k \in Nat
    PROVE  Probe(t, h, k) \in 0 .. t.mask /\ Probe(t, h, k) = (h + Offset(k)) % (t.mask + 1)
  <1> DEFINE x == h + Offset(k)
             p == t.mask + 1
  <1>1. x \in Nat /\ p \in Nat \ {0} /\ p - 1 = t.mask
    BY OffsetFacts DEF IsTable
  <1>2. Probe(t, h, k) = x % p
    BY DEF Probe
  <1> HIDE DEF x, p
  <1>3. x % p \in 0 .. p - 1
    BY <1>1
  <1>4. Probe(t, h, k) \in 0 .. t.mask
    BY <1>1, <1>2, <1>3
  <1>5. QED
    BY <1>2, <1>4 DEF x, p

LEMMA SlotProbed ==
    ASSUME NEW t, IsTable(t), NEW h \in Nat, NEW s \in 0 .. t.mask
    PROVE  \E k \in 0 .. 2 * t.mask + 1 : Probe(t, h, k) = s
  <1> DEFINE p == t.mask + 1
  <1>1. PICK n \in Nat : PowerOf(n, p)
    BY DEF IsTable
  <1>2. p \in Nat \ {0} /\ s \in 0 .. p - 1 /\ 2 * p - 1 = 2 * t.mask + 1
    BY DEF IsTable
  <1>3. PICK k \in 0 .. 2 * p - 1 : (h + Offset(k)) % p = s
    <2> HIDE DEF p
    <2>1. QED
      BY <1>1, <1>2, EverySlotProbed
  <1>4. Probe(t, h, k) = s
    BY <1>3, ProbeFacts
  <1>5. QED
    BY <1>2, <1>3, <1>4

\* More slots than entries, so one is free.
LEMMA FreeSlot ==
    ASSUME NEW t, IsTable(t), NEW hs, NEW n \in Nat, Entered(t, hs, n), n <= t.mask
    PROVE  \E s \in 0 .. t.mask : t.slots[s] = 0
  <1> SUFFICES ASSUME \A s \in 0 .. t.mask : t.slots[s] # 0 PROVE FALSE
    OBVIOUS
  <1> DEFINE S == 0 .. t.mask
             T == 1 .. n
  <1>1. t.mask \in Nat /\ t.slots \in [S -> Nat]
    BY DEF IsTable
  <1>2. t.slots \in [S -> T]
    <2>1. \A s \in S : t.slots[s] \in T
      BY DEF Entered
    <2>2. QED
      BY <1>1, <2>1
  <1>3. IsFiniteSet(S) /\ IsFiniteSet(T) /\ Cardinality(T) < Cardinality(S)
    <2>1. 0 \in Int /\ 1 \in Int /\ n \in Int /\ t.mask \in Int
      BY <1>1
    <2>2. IsFiniteSet(S) /\ Cardinality(S) = t.mask + 1
      <3>1. IsFiniteSet(S) /\ Cardinality(S) = IF 0 > t.mask THEN 0 ELSE t.mask - 0 + 1
        BY <2>1, FS_Interval
      <3>2. QED
        BY <1>1, <3>1
    <2>3. IsFiniteSet(T) /\ Cardinality(T) = n
      <3>1. IsFiniteSet(T) /\ Cardinality(T) = IF 1 > n THEN 0 ELSE n - 1 + 1
        BY <2>1, FS_Interval
      <3>2. QED
        BY <3>1
    <2>4. QED
      BY <1>1, <2>2, <2>3
  <1>4. PICK s1, s2 \in S : s1 # s2 /\ t.slots[s1] = t.slots[s2]
    <2> HIDE DEF S, T
    <2>1. QED
      BY <1>2, <1>3, FS_PigeonHole
  <1>5. QED
    BY <1>4 DEF Entered

\* A lookup ends, at the first free slot.
LEMMA LookupEnds ==
    ASSUME NEW t, IsTable(t), NEW hs, NEW n \in Nat, Entered(t, hs, n), n <= t.mask,
           NEW h \in Nat
    PROVE  /\ Ends(t, h) /\ Collisions(t, h) \in 0 .. 2 * t.mask + 1
           /\ ~Taken(t, h, Collisions(t, h))
           /\ \A j \in 0 .. Collisions(t, h) - 1 : Taken(t, h, j)
  <1>1. t.mask \in Nat
    BY DEF IsTable
  <1>2. FreeProbes(t, h) # {}
    <2>1. PICK s \in 0 .. t.mask : t.slots[s] = 0
      BY FreeSlot
    <2>2. PICK k \in 0 .. 2 * t.mask + 1 : Probe(t, h, k) = s
      BY SlotProbed
    <2>3. QED
      BY <2>1, <2>2 DEF FreeProbes, Taken
  <1>3. FreeProbes(t, h) \in SUBSET Nat
    BY <1>1 DEF FreeProbes
  <1>4. PICK k \in FreeProbes(t, h) : \A j \in FreeProbes(t, h) : ~(j < k)
    BY <1>2, <1>3, LeastNumber
  <1>5. \A j \in FreeProbes(t, h) : k <= j
    BY <1>3, <1>4
  <1>6. /\ Collisions(t, h) \in FreeProbes(t, h)
        /\ \A j \in FreeProbes(t, h) : Collisions(t, h) <= j
    BY <1>5 DEF Collisions, Min
  <1>7. ASSUME NEW j \in 0 .. Collisions(t, h) - 1 PROVE Taken(t, h, j)
    <2>1. Collisions(t, h) \in 0 .. 2 * t.mask + 1
      BY <1>6 DEF FreeProbes
    <2>2. j \in 0 .. 2 * t.mask + 1 /\ ~(Collisions(t, h) <= j)
      BY <1>1, <2>1
    <2>3. QED
      BY <1>6, <2>2 DEF FreeProbes
  <1>8. QED
    BY <1>2, <1>6, <1>7 DEF Ends, FreeProbes
\* Entering one more keeps what is there.
LEMMA InsertEnters ==
    ASSUME NEW t, IsTable(t), NEW hs, NEW n \in Nat, Entered(t, hs, n), n <= t.mask,
           \A i \in 1 .. n + 1 : hs[i] \in Nat
    PROVE  LET u == Insert(t, hs[n + 1], n + 1)
           IN IsTable(u) /\ u.mask = t.mask /\ Entered(u, hs, n + 1)
  <1> DEFINE h == hs[n + 1]
             c == Collisions(t, h)
             at == Probe(t, h, c)
             u == Insert(t, h, n + 1)
             Slot == 0 .. t.mask
             Probes == 0 .. 2 * t.mask + 1
  <1>1. t.mask \in Nat /\ t.slots \in [Slot -> Nat]
    BY DEF IsTable
  <1>0. h \in Nat
    OBVIOUS
  <1> HIDE DEF h
  <1>2. /\ Ends(t, h) /\ c \in Probes /\ ~Taken(t, h, c)
        /\ \A j \in 0 .. c - 1 : Taken(t, h, j)
    BY <1>0, LookupEnds
  <1>3. at \in Slot /\ t.slots[at] = 0
    <2>1. c \in Nat
      BY <1>1, <1>2
    <2> HIDE DEF c
    <2>2. at \in Slot
      BY <1>0, <2>1, ProbeFacts
    <2>3. t.slots[at] = 0
      BY <1>2 DEF Taken
    <2>4. QED
      BY <2>2, <2>3
  <1>4. u = [t EXCEPT !.slots[at] = n + 1]
    BY <1>2 DEF Insert
  <1>5. /\ u = [mask |-> t.mask, slots |-> [t.slots EXCEPT ![at] = n + 1]]
        /\ u.mask = t.mask /\ u.slots = [t.slots EXCEPT ![at] = n + 1]
    BY <1>4 DEF IsTable
  <1> HIDE DEF u, at, c
  <1>6. /\ u.slots[at] = n + 1 /\ u.slots \in [Slot -> Nat]
        /\ \A s \in Slot \ {at} : u.slots[s] = t.slots[s]
    BY <1>1, <1>3, <1>5
  <1>7. IsTable(u)
    BY <1>5, <1>6 DEF IsTable
  <1>8. \A x, k : Probe(u, x, k) = Probe(t, x, k)
    BY <1>5 DEF Probe
  <1>9. \A x \in Nat, k \in Nat : Taken(t, x, k) => Taken(u, x, k)
    <2> SUFFICES ASSUME NEW x \in Nat, NEW k \in Nat, Taken(t, x, k) PROVE Taken(u, x, k)
      OBVIOUS
    <2>1. Probe(t, x, k) \in Slot /\ t.slots[Probe(t, x, k)] # 0
      BY ProbeFacts DEF Taken
    <2>2. Probe(t, x, k) # at
      BY <1>3, <2>1
    <2>3. QED
      BY <1>6, <1>8, <2>1, <2>2 DEF Taken
  <1>10. \A s \in Slot : u.slots[s] \in 0 .. n + 1
    <2> SUFFICES ASSUME NEW s \in Slot PROVE u.slots[s] \in 0 .. n + 1
      OBVIOUS
    <2>1. t.slots[s] \in 0 .. n
      BY DEF Entered
    <2>2. QED
      BY <1>6, <2>1
  <1>11. ASSUME NEW s1 \in Slot, NEW s2 \in Slot, u.slots[s1] # 0, u.slots[s1] = u.slots[s2]
         PROVE  s1 = s2
    <2>1. t.slots[s1] \in 0 .. n /\ t.slots[s2] \in 0 .. n
      BY DEF Entered
    <2>2. CASE s1 # at /\ s2 # at
      <3>1. t.slots[s1] # 0 /\ t.slots[s1] = t.slots[s2]
        BY <1>6, <1>11, <2>2
      <3>2. QED
        BY <3>1 DEF Entered
    <2>3. QED
      BY <1>6, <1>11, <2>1, <2>2
  <1>12. ASSUME NEW i \in 1 .. n + 1
         PROVE  \E k \in Probes : /\ u.slots[Probe(u, hs[i], k)] = i
                                  /\ \A j \in 0 .. k : Taken(u, hs[i], j)
    <2>1. CASE i = n + 1
      <3>1. Probe(u, hs[i], c) = at
        BY <1>8, <2>1 DEF at, h
      <3>2. ASSUME NEW j \in 0 .. c PROVE Taken(u, hs[i], j)
        <4>1. CASE j = c
          BY <1>6, <3>1, <4>1 DEF Taken
        <4>2. CASE j # c
          <5>1. j \in 0 .. c - 1 /\ j \in Nat
            BY <1>1, <1>2, <4>2
          <5>2. Taken(u, h, j)
            BY <1>0, <1>2, <1>9, <5>1
          <5>3. QED
            BY <2>1, <5>2 DEF h
        <4>3. QED
          BY <4>1, <4>2
      <3>3. QED
        BY <1>2, <1>6, <2>1, <3>1, <3>2
    <2>2. CASE i # n + 1
      <3>1. i \in 1 .. n
        BY <2>2
      <3>2. PICK k \in Probes : /\ t.slots[Probe(t, hs[i], k)] = i
                                /\ \A j \in 0 .. k : Taken(t, hs[i], j)
        BY <3>1 DEF Entered
      <3>3. hs[i] \in Nat /\ k \in Nat /\ Probe(t, hs[i], k) \in Slot
        <4>1. hs[i] \in Nat
          BY <3>1
        <4>2. k \in Nat
          BY <1>1
        <4>3. QED
          BY <4>1, <4>2, ProbeFacts
      <3>4. Probe(t, hs[i], k) # at
        BY <1>3, <3>1, <3>2
      <3>5. u.slots[Probe(u, hs[i], k)] = i
        BY <1>6, <1>8, <3>2, <3>3, <3>4
      <3>6. ASSUME NEW j \in 0 .. k PROVE Taken(u, hs[i], j)
        <4>1. j \in Nat /\ Taken(t, hs[i], j)
          BY <3>2
        <4>2. QED
          BY <1>9, <3>3, <4>1
      <3>7. QED
        BY <3>5, <3>6
    <2>3. QED
      BY <2>1, <2>2
  <1>13. Entered(u, hs, n + 1)
    <2>1. \A s1, s2 \in Slot : (u.slots[s1] # 0 /\ u.slots[s1] = u.slots[s2]) => s1 = s2
      BY <1>11
    <2>2. u.mask = t.mask
      BY <1>5
    <2>3. QED
      BY <1>10, <1>12, <2>1, <2>2 DEF Entered
  <1>14. QED
    BY <1>5, <1>7, <1>13 DEF u, h

(***************************************************************************)
(* The size of a table.                                                    *)
(***************************************************************************)
LEMMA PowersExist ==
    ASSUME NEW n \in Nat
    PROVE  \E f \in [0 .. n -> Nat] :
              /\ f[0] = 1 /\ \A k \in 1 .. n : f[k] = 2 * f[k - 1]
              /\ PowersOfTwo(n) = {f[k] : k \in 0 .. n}
  <1> DEFINE Defines(f) == f = [k \in 0 .. n |-> IF k = 0 THEN 1 ELSE 2 * f[k - 1]]
             F == [x \in (1 .. n) \X Nat |-> 2 * x[2]]
             power == CHOOSE f : Defines(f)
  <1>1. \E f : Defines(f)
    <2>1. F \in [(1 .. n) \X Nat -> Nat]
      OBVIOUS
    <2>2. \A i \in 1 .. n, x \in Nat : F[<<i, x>>] = 2 * x
      OBVIOUS
    <2> HIDE DEF F
    <2>3. RunExists(Nat, 1, n, F)
      BY <2>1, RecursionExists
    <2>4. PICK g \in [0 .. n -> Nat] : g[0] = 1 /\ \A i \in 1 .. n : g[i] = F[<<i, g[i - 1]>>]
      BY <2>3 DEF RunExists
    <2>5. ASSUME NEW i \in 1 .. n PROVE g[i] = 2 * g[i - 1]
      <3>1. i - 1 \in 0 .. n
        OBVIOUS
      <3>2. g[i - 1] \in Nat
        BY <3>1
      <3>3. QED
        BY <2>2, <2>4, <3>2
    <2>6. \A i \in 0 .. n : g[i] = IF i = 0 THEN 1 ELSE 2 * g[i - 1]
      <3>1. \A i \in 0 .. n : i = 0 \/ i \in 1 .. n
        OBVIOUS
      <3>2. QED
        BY <2>4, <2>5, <3>1
    <2>7. QED
      BY <2>6
  <1>2. Defines(power)
    BY <1>1
  <1>3. PowersOfTwo(n) = {power[k] : k \in 0 .. n}
    BY DEF PowersOfTwo
  <1> HIDE DEF power
  <1>4. power[0] = 1
    BY <1>2
  <1>5. ASSUME NEW k \in 1 .. n PROVE power[k] = 2 * power[k - 1]
    BY <1>2
  <1>6. power \in [0 .. n -> Nat]
    <2> DEFINE P == {k \in Nat : k <= n => power[k] \in Nat}
    <2>1. 0 \in P
      BY <1>4
    <2>2. ASSUME NEW k \in P PROVE k + 1 \in P
      <3> SUFFICES ASSUME k + 1 <= n PROVE power[k + 1] \in Nat
        OBVIOUS
      <3>1. k + 1 \in 1 .. n /\ (k + 1) - 1 = k /\ power[k] \in Nat
        OBVIOUS
      <3>2. power[k + 1] = 2 * power[k]
        BY <1>5, <3>1
      <3>3. QED
        BY <3>1, <3>2
    <2>3. P \in SUBSET Nat
      OBVIOUS
    <2> HIDE DEF P
    <2>4. P = Nat
      BY <2>1, <2>2, <2>3, InductionOverNat
    <2>5. \A k \in 0 .. n : power[k] \in Nat
      BY <2>4 DEF P
    <2>6. power = [k \in 0 .. n |-> power[k]]
      BY <1>2
    <2>7. QED
      BY <2>5, <2>6
  <1>7. QED
    BY <1>3, <1>4, <1>5, <1>6

\* The slots are a power of two, and there are more than twice as many as entries.
LEMMA SlotsRight ==
    ASSUME NEW size \in Nat \ {0}
    PROVE  Slots(size) \in Nat /\ Slots(size) > 2 * size /\ \E n \in Nat : PowerOf(n, Slots(size))
  <1>1. PICK f \in [0 .. size -> Nat] :
           /\ f[0] = 1 /\ \A k \in 1 .. size : f[k] = 2 * f[k - 1]
           /\ PowersOfTwo(size) = {f[k] : k \in 0 .. size}
    BY PowersExist
  <1>2. ASSUME NEW k \in 0 .. size PROVE PowerOf(k, f[k]) /\ f[k] \in Nat /\ f[k] >= k + 1
    <2> DEFINE g == [i \in 0 .. k |-> f[i]]
    <2>1. g \in [0 .. k -> Nat] /\ g[0] = 1 /\ g[k] = f[k]
      BY <1>1
    <2>2. \A i \in 1 .. k : g[i] = 2 * g[i - 1]
      BY <1>1
    <2> HIDE DEF g
    <2>3. PowerOf(k, f[k])
      BY <2>1, <2>2 DEF PowerOf
    <2>4. QED
      BY <2>3, PowerLarge
  <1> DEFINE S == {p \in PowersOfTwo(size) : p <= 2 * size}
  <1>3. S \in SUBSET Int /\ S # {} /\ \A x \in S : x <= 2 * size
    <2>1. 0 \in 0 .. size /\ f[0] = 1 /\ 1 <= 2 * size
      BY <1>1
    <2>2. f[0] \in S
      BY <1>1, <2>1
    <2>3. S \in SUBSET Int
      BY <1>1
    <2>4. QED
      BY <2>2, <2>3
  <1>4. Max(S) \in S /\ \A x \in S : Max(S) >= x
    <2>1. 2 * size \in Int
      OBVIOUS
    <2> HIDE DEF S
    <2>2. QED
      BY <1>3, <2>1, GreatestExists
  <1> DEFINE m == Max(S)
  <1>5. Slots(size) = 2 * m
    BY DEF Slots
  <1>6. PICK k \in 0 .. size : m = f[k]
    BY <1>1, <1>4
  <1> HIDE DEF m
  <1>7. m \in Nat /\ m >= 1 /\ PowerOf(k, m)
    BY <1>2, <1>6
  <1>8. 2 * m > 2 * size
    <2>1. ASSUME 2 * m <= 2 * size PROVE FALSE
      <3>1. k # size
        BY <1>2, <1>6, <2>1
      <3>2. k + 1 \in 1 .. size /\ k + 1 \in 0 .. size /\ (k + 1) - 1 = k
        BY <3>1
      <3>3. f[k + 1] = 2 * m
        BY <1>1, <1>6, <3>2
      <3>4. 2 * m \in S
        BY <1>1, <2>1, <3>2, <3>3
      <3>5. m >= 2 * m
        BY <1>4, <3>4 DEF m
      <3>6. QED
        BY <1>7, <3>5
    <2>2. QED
      BY <1>7, <2>1
  <1>9. PowerOf(k + 1, 2 * m) /\ k + 1 \in Nat
    BY <1>7, PowerNext
  <1>10. QED
    BY <1>5, <1>7, <1>8, <1>9

LEMMA ClearedRight ==
    ASSUME NEW size \in Nat \ {0}, NEW hs
    PROVE  /\ IsTable(Cleared(size)) /\ Entered(Cleared(size), hs, 0)
           /\ Cleared(size).mask >= 2 * size
  <1> DEFINE t == Cleared(size)
             p == Slots(size)
  <1>1. p \in Nat /\ p > 2 * size /\ \E n \in Nat : PowerOf(n, p)
    BY SlotsRight
  <1>2. /\ t.mask = p - 1 /\ t.slots = [h \in 0 .. p - 1 |-> 0]
        /\ t = [mask |-> t.mask, slots |-> t.slots]
    BY DEF Cleared
  <1> HIDE DEF t, p
  <1>3. t.mask \in Nat /\ t.mask + 1 = p /\ t.mask >= 2 * size
    BY <1>1, <1>2
  <1>4. t.slots \in [0 .. t.mask -> Nat] /\ \A s \in 0 .. t.mask : t.slots[s] = 0
    BY <1>2
  <1>5. IsTable(t)
    BY <1>1, <1>2, <1>3, <1>4 DEF IsTable
  <1>6. Entered(t, hs, 0)
    BY <1>4 DEF Entered
  <1>7. QED
    BY <1>3, <1>5, <1>6 DEF t

(***************************************************************************)
(* All values into a table that is new.                                    *)
(***************************************************************************)
AnyTable == [mask : Int, slots : UNION {[0 .. p -> Nat] : p \in Int}]

LEMMA TablesAreSome ==
    ASSUME NEW t, IsTable(t)
    PROVE  t \in AnyTable
  BY DEF IsTable, AnyTable

IsFilling(size, hashes, n, f) ==
    f = [k \in 0 .. n |-> IF k = 0 THEN Cleared(size) ELSE Insert(f[k - 1], hashes[k], k)]

LEMMA InsertTable ==
    ASSUME NEW t, IsTable(t), NEW h \in Nat, NEW value \in Nat
    PROVE  IsTable(Insert(t, h, value))
  <1> DEFINE c == Collisions(t, h)
             at == Probe(t, h, c)
             u == [t EXCEPT !.slots[at] = value]
  <1>1. t.mask \in Nat /\ t.slots \in [0 .. t.mask -> Nat]
    BY DEF IsTable
  <1>2. CASE Ends(t, h)
    <2>1. FreeProbes(t, h) \in SUBSET Nat /\ FreeProbes(t, h) # {}
      BY <1>1, <1>2 DEF FreeProbes, Ends
    <2>2. PICK k \in FreeProbes(t, h) : \A j \in FreeProbes(t, h) : ~(j < k)
      BY <2>1, LeastNumber
    <2>3. \A j \in FreeProbes(t, h) : k <= j
      BY <2>1, <2>2
    <2>4. c \in Nat
      BY <2>1, <2>3 DEF Collisions, Min
    <2> HIDE DEF c
    <2>5. at \in 0 .. t.mask
      BY <2>4, ProbeFacts
    <2> HIDE DEF at
    <2>6. u.mask = t.mask /\ u.slots = [t.slots EXCEPT ![at] = value] /\ u = [mask |-> u.mask, slots |-> u.slots]
      BY DEF IsTable
    <2>7. u.slots \in [0 .. t.mask -> Nat]
      BY <1>1, <2>5, <2>6
    <2> HIDE DEF u
    <2>8. IsTable(u)
      BY <2>6, <2>7 DEF IsTable
    <2>9. QED
      BY <1>2, <2>8 DEF Insert, u, at, c
  <1>3. CASE ~Ends(t, h)
    BY <1>3 DEF Insert
  <1>4. QED
    BY <1>2, <1>3

LEMMA FillingExists ==
    ASSUME NEW size \in Nat \ {0}, NEW n \in Nat, NEW hashes, \A i \in 1 .. n : hashes[i] \in Nat
    PROVE  \E f : IsFilling(size, hashes, n, f)
  <1> DEFINE S == {t \in AnyTable : IsTable(t)}
             F == [x \in (1 .. n) \X S |-> Insert(x[2], hashes[x[1]], x[1])]
             first == Cleared(size)
  <1>1. \A t : t \in S <=> IsTable(t)
    BY TablesAreSome
  <1> HIDE DEF S
  <1>2. first \in S
    BY <1>1, ClearedRight
  <1>3. F \in [(1 .. n) \X S -> S]
    <2>1. ASSUME NEW i \in 1 .. n, NEW t \in S PROVE Insert(t, hashes[i], i) \in S
      <3>1. IsTable(t) /\ hashes[i] \in Nat /\ i \in Nat
        BY <1>1
      <3>2. IsTable(Insert(t, hashes[i], i))
        BY <3>1, InsertTable
      <3>3. QED
        BY <1>1, <3>2
    <2>2. QED
      BY <2>1
  <1>4. \A i \in 1 .. n, t \in S : F[<<i, t>>] = Insert(t, hashes[i], i)
    OBVIOUS
  <1> HIDE DEF F, first
  <1>5. RunExists(S, first, n, F)
    BY <1>2, <1>3, RecursionExists
  <1>6. PICK g \in [0 .. n -> S] : g[0] = first /\ \A i \in 1 .. n : g[i] = F[<<i, g[i - 1]>>]
    BY <1>5 DEF RunExists
  <1>7. ASSUME NEW i \in 0 .. n PROVE g[i] = IF i = 0 THEN first ELSE Insert(g[i - 1], hashes[i], i)
    <2>1. CASE i = 0
      BY <1>6, <2>1
    <2>2. CASE i # 0
      <3>1. i \in 1 .. n /\ i - 1 \in 0 .. n
        BY <2>2
      <3>2. g[i - 1] \in S /\ g[i] = F[<<i, g[i - 1]>>]
        BY <1>6, <3>1
      <3>3. QED
        BY <1>4, <2>2, <3>1, <3>2
    <2>3. QED
      BY <2>1, <2>2
  <1>8. g = [k \in 0 .. n |-> IF k = 0 THEN Cleared(size) ELSE Insert(g[k - 1], hashes[k], k)]
    <2>1. g = [k \in 0 .. n |-> g[k]]
      OBVIOUS
    <2>2. QED
      BY <1>7, <2>1, Zenon DEF first
  <1>9. QED
    BY <1>8 DEF IsFilling

\* A new table has every value, and room for as many again.
LEMMA FilledEnters ==
    ASSUME NEW size \in Nat \ {0}, NEW hashes \in Seq(Nat), Len(hashes) <= size
    PROVE  /\ IsTable(Filled(size, hashes)) /\ Entered(Filled(size, hashes), hashes, Len(hashes))
           /\ Filled(size, hashes).mask >= 2 * size
  <1> DEFINE n == Len(hashes)
             f == CHOOSE f : IsFilling(size, hashes, n, f)
             Right(k) == /\ IsTable(f[k]) /\ Entered(f[k], hashes, k)
                         /\ f[k].mask >= 2 * size
             P == {k \in Nat : k <= n => Right(k)}
  <1>1. n \in Nat /\ n <= size /\ \A i \in 1 .. n : hashes[i] \in Nat
    OBVIOUS
  <1>2. IsFilling(size, hashes, n, f)
    <2> HIDE DEF n
    <2>1. QED
      BY <1>1, FillingExists
  <1>3. Filled(size, hashes) = f[n]
    BY DEF Filled, IsFilling
  <1> HIDE DEF f, n
  <1>4. f[0] = Cleared(size) /\ \A k \in 1 .. n : f[k] = Insert(f[k - 1], hashes[k], k)
    BY <1>1, <1>2 DEF IsFilling
  <1>5. 0 \in P
    BY <1>4, ClearedRight
  <1>6. ASSUME NEW k \in P PROVE k + 1 \in P
    <2> SUFFICES ASSUME k + 1 <= n PROVE Right(k + 1)
      OBVIOUS
    <2>1. /\ k \in Nat /\ k + 1 \in 1 .. n /\ (k + 1) - 1 = k /\ Right(k)
          /\ \A i \in 1 .. k + 1 : hashes[i] \in Nat
      BY <1>1
    <2> DEFINE t == f[k]
               u == Insert(t, hashes[k + 1], k + 1)
    <2>2. f[k + 1] = u
      BY <1>4, <2>1
    <2>3. IsTable(t) /\ Entered(t, hashes, k) /\ k <= t.mask /\ t.mask >= 2 * size
      <3>1. t.mask \in Nat
        BY <2>1 DEF IsTable
      <3>2. QED
        BY <1>1, <2>1, <3>1
    <2>4. IsTable(u) /\ u.mask = t.mask /\ Entered(u, hashes, k + 1)
      <3> HIDE DEF t, Right
      <3>1. QED
        BY <2>1, <2>3, InsertEnters
    <2>5. QED
      BY <2>2, <2>3, <2>4
  <1>7. P \in SUBSET Nat
    OBVIOUS
  <1> HIDE DEF P
  <1>8. P = Nat
    BY <1>5, <1>6, <1>7, InductionOverNat
  <1>9. Right(n)
    BY <1>1, <1>8 DEF P
  <1>10. QED
    BY <1>3, <1>9 DEF n

(***************************************************************************)
(* What a lookup sees.                                                     *)
(***************************************************************************)
LEMMA ChainFacts ==
    ASSUME NEW t, IsTable(t), NEW hs, NEW n \in Nat, Entered(t, hs, n), n <= t.mask,
           NEW h \in Nat
    PROVE  /\ Chain(t, h) \in Seq(1 .. n) /\ Len(Chain(t, h)) = Collisions(t, h)
           /\ DOMAIN Chain(t, h) = 1 .. Collisions(t, h)
           /\ Collisions(t, h) \in 0 .. 2 * t.mask + 1
           /\ \A k \in 1 .. Collisions(t, h) : Chain(t, h)[k] = t.slots[Probe(t, h, k - 1)]
  <1> DEFINE c == Collisions(t, h)
             chain == Chain(t, h)
  <1>1. /\ c \in 0 .. 2 * t.mask + 1 /\ ~Taken(t, h, c)
        /\ \A j \in 0 .. c - 1 : Taken(t, h, j)
    BY LookupEnds
  <1>2. t.mask \in Nat /\ c \in Nat
    BY <1>1 DEF IsTable
  <1>3. chain = [k \in 1 .. c |-> t.slots[Probe(t, h, k - 1)]]
    BY DEF Chain
  <1> HIDE DEF c, chain
  <1>4. ASSUME NEW k \in 1 .. c PROVE chain[k] = t.slots[Probe(t, h, k - 1)] /\ chain[k] \in 1 .. n
    <2>1. k - 1 \in 0 .. c - 1 /\ k - 1 \in Nat
      BY <1>2
    <2>2. t.slots[Probe(t, h, k - 1)] # 0
      BY <1>1, <2>1 DEF Taken
    <2>3. Probe(t, h, k - 1) \in 0 .. t.mask
      BY <2>1, ProbeFacts
    <2>4. t.slots[Probe(t, h, k - 1)] \in 0 .. n
      BY <2>3 DEF Entered
    <2>5. QED
      BY <1>3, <2>2, <2>4
  <1>5. chain \in [1 .. c -> 1 .. n]
    BY <1>3, <1>4
  <1>6. chain \in Seq(1 .. n) /\ Len(chain) = c
    BY <1>2, <1>5
  <1>7. QED
    BY <1>1, <1>4, <1>5, <1>6 DEF c, chain

LEMMA ChainHas ==
    ASSUME NEW t, IsTable(t), NEW hs, NEW n \in Nat, Entered(t, hs, n), n <= t.mask,
           NEW i \in 1 .. n, hs[i] \in Nat
    PROVE  \E k \in 1 .. Collisions(t, hs[i]) : Chain(t, hs[i])[k] = i
  <1> DEFINE h == hs[i]
             c == Collisions(t, h)
  <1>1. h \in Nat /\ t.mask \in Nat
    BY DEF IsTable
  <1> HIDE DEF h
  <1>2. c \in 0 .. 2 * t.mask + 1 /\ \A k \in 1 .. c : Chain(t, h)[k] = t.slots[Probe(t, h, k - 1)]
    BY <1>1, ChainFacts
  <1>3. ~Taken(t, h, c)
    BY <1>1, LookupEnds
  <1>4. PICK k \in 0 .. 2 * t.mask + 1 : /\ t.slots[Probe(t, h, k)] = i
                                         /\ \A j \in 0 .. k : Taken(t, h, j)
    BY DEF Entered, h
  <1> HIDE DEF c
  <1>5. k < c
    <2>1. ASSUME c <= k PROVE FALSE
      <3>1. c \in 0 .. k
        BY <1>1, <1>2, <2>1
      <3>2. QED
        BY <1>3, <1>4, <3>1
    <2>2. QED
      BY <1>1, <1>2, <2>1
  <1>6. k + 1 \in 1 .. c /\ (k + 1) - 1 = k
    BY <1>1, <1>2, <1>5
  <1>7. Chain(t, h)[k + 1] = i
    BY <1>2, <1>4, <1>6
  <1>8. QED
    BY <1>6, <1>7 DEF c, h

LEMMA EvenOrOdd ==
    ASSUME NEW w \in Int PROVE \E d \in Int : w = 2 * d \/ w = 2 * d + 1
  <1>1. w = 2 * (w \div 2) \/ w = 2 * (w \div 2) + 1
    OBVIOUS
  <1>2. w \div 2 \in Int
    OBVIOUS
  <1>3. QED
    BY <1>1, <1>2

\* What is there is seen, and at most twice.
LEMMA SeenRight ==
    ASSUME NEW t, IsTable(t), NEW hs, NEW n \in Nat, Entered(t, hs, n), n <= t.mask,
           NEW h \in Nat, NEW i \in 1 .. n, hs[i] = h
    PROVE  Seen(t, h, i) \in {1, 2}
  <1> DEFINE c == Collisions(t, h)
             D == {k \in DOMAIN Chain(t, h) : Chain(t, h)[k] = i}
  <1>1. /\ DOMAIN Chain(t, h) = 1 .. c /\ c \in 0 .. 2 * t.mask + 1 /\ t.mask \in Nat
        /\ \A k \in 1 .. c : Chain(t, h)[k] = t.slots[Probe(t, h, k - 1)]
        /\ \E k \in 1 .. c : Chain(t, h)[k] = i
    <2>1. t.mask \in Nat
      BY DEF IsTable
    <2>2. /\ DOMAIN Chain(t, h) = 1 .. c /\ c \in 0 .. 2 * t.mask + 1
          /\ \A k \in 1 .. c : Chain(t, h)[k] = t.slots[Probe(t, h, k - 1)]
      BY ChainFacts
    <2>3. \E k \in 1 .. c : Chain(t, h)[k] = i
      BY ChainHas
    <2>4. QED
      BY <2>1, <2>2, <2>3
  <1> HIDE DEF c
  <1>2. D \in SUBSET (1 .. c) /\ D # {}
    BY <1>1
  <1>3. ASSUME NEW x \in D, NEW y \in D, NEW m \in Nat, y - x = 2 * m PROVE x = y
    <2> SUFFICES ASSUME x # y PROVE FALSE
      OBVIOUS
    <2> DEFINE a == x - 1
               b == y - 1
               p == t.mask + 1
    <2>1. /\ x \in 1 .. c /\ y \in 1 .. c
          /\ t.slots[Probe(t, h, a)] = i /\ t.slots[Probe(t, h, b)] = i
      BY <1>1, <1>2
    <2>2. x \in Nat /\ y \in Nat /\ x <= c /\ y <= c /\ 1 <= x /\ 1 <= y /\ c <= 2 * t.mask + 1
      BY <1>1, <2>1
    <2>3. a \in Nat /\ b \in Nat /\ a < b /\ b = a + 2 * m /\ b < a + 2 * p /\ p \in Nat \ {0}
      BY <1>1, <1>3, <2>2
    <2>4. Probe(t, h, a) = Probe(t, h, b)
      <3>1. Probe(t, h, a) \in 0 .. t.mask /\ Probe(t, h, b) \in 0 .. t.mask
        BY <2>3, ProbeFacts
      <3>2. i # 0
        OBVIOUS
      <3>3. QED
        BY <2>1, <3>1, <3>2 DEF Entered
    <2>5. (h + Offset(a)) % p = (h + Offset(b)) % p
      BY <2>4 DEF Probe
    <2>6. PICK e \in Nat : PowerOf(e, p)
      BY DEF IsTable
    <2> HIDE DEF a, b, p
    <2>7. QED
      BY <2>3, <2>5, <2>6, ProbesDiffer
  <1> HIDE DEF D
  <1>4. PICK x \in D : TRUE
    BY <1>2
  <1>5. \A y \in D : y \in Int
    BY <1>1, <1>2
  <1>6. ASSUME NEW y \in D, NEW z \in D, y # x, z # x PROVE y = z
    <2>1. ASSUME NEW u \in D, NEW v \in D, NEW m \in Int, v - u = 2 * m PROVE u = v
      <3>1. m \in Nat \/ (-m \in Nat /\ u - v = 2 * (-m))
        BY <1>5, <2>1
      <3>2. QED
        BY <1>3, <2>1, <3>1
    <2>2. PICK d \in Int : y - x = 2 * d \/ y - x = 2 * d + 1
      <3>1. y - x \in Int
        BY <1>5
      <3>2. QED
        BY <3>1, EvenOrOdd
    <2>3. PICK e \in Int : z - x = 2 * e \/ z - x = 2 * e + 1
      <3>1. z - x \in Int
        BY <1>5
      <3>2. QED
        BY <3>1, EvenOrOdd
    <2>4. y - x = 2 * d + 1 /\ z - x = 2 * e + 1
      BY <1>6, <2>1, <2>2, <2>3
    <2>5. z - y = 2 * (e - d) /\ e - d \in Int
      BY <1>5, <2>4
    <2>6. QED
      BY <2>1, <2>5
  <1>7. IsFiniteSet({x}) /\ Cardinality({x}) = 1
    BY FS_Singleton
  <1>8. CASE D = {x}
    BY <1>7, <1>8 DEF Seen, D
  <1>9. CASE D # {x}
    <2>1. PICK y \in D : y # x
      BY <1>9
    <2>2. D = {x} \cup {y}
      BY <1>6, <2>1
    <2>3. Cardinality({x} \cup {y}) = 2
      BY <1>7, <2>1, FS_AddElement
    <2>4. QED
      BY <2>2, <2>3 DEF Seen, D
  <1>10. QED
    BY <1>8, <1>9

(***************************************************************************)
(* Words.                                                                  *)
(***************************************************************************)
Hashes(f, words) == [i \in DOMAIN words |-> f[words[i]]]

\* What the quarks are between two calls: the words that are interned are different ones,
\* they are all in the table, and a slot is free.
IsQuarks(D, f, q) ==
    /\ q = [table |-> q.table, words |-> q.words]
    /\ q.words \in Seq(D) /\ \A i \in DOMAIN q.words : q.words[i] # ""
    /\ \A i, j \in DOMAIN q.words : q.words[i] = q.words[j] => i = j
    /\ q.table.mask \in Nat
    /\ \/ q.table.mask = 0 /\ q.words = << >>
       \/ /\ IsTable(q.table) /\ Entered(q.table, Hashes(f, q.words), Len(q.words))
          /\ Len(q.words) <= q.table.mask

LEMMA SeqFacts ==
    ASSUME NEW S, NEW s \in Seq(S)
    PROVE  Len(s) \in Nat /\ DOMAIN s = 1 .. Len(s) /\ \A i \in 1 .. Len(s) : s[i] \in S
  OBVIOUS

LEMMA AppendFacts ==
    ASSUME NEW S, NEW s \in Seq(S), NEW x \in S
    PROVE  /\ Append(s, x) \in Seq(S) /\ Len(Append(s, x)) = Len(s) + 1
           /\ Append(s, x)[Len(s) + 1] = x
           /\ \A i \in 1 .. Len(s) : Append(s, x)[i] = s[i]
  OBVIOUS

LEMMA HashesFacts ==
    ASSUME NEW D, NEW f \in [D -> Nat], NEW words \in Seq(D)
    PROVE  /\ Hashes(f, words) \in Seq(Nat) /\ Len(Hashes(f, words)) = Len(words)
           /\ \A i \in 1 .. Len(words) : Hashes(f, words)[i] = f[words[i]] /\ f[words[i]] \in Nat
  <1>1. DOMAIN words = 1 .. Len(words) /\ Len(words) \in Nat /\ \A i \in 1 .. Len(words) : words[i] \in DOMAIN f
    OBVIOUS
  <1>2. Hashes(f, words) \in [1 .. Len(words) -> Nat]
    BY <1>1 DEF Hashes
  <1>3. QED
    BY <1>1, <1>2 DEF Hashes

LEMMA EnteredAlike ==
    ASSUME NEW t, NEW a, NEW b, NEW n \in Nat, Entered(t, a, n), \A i \in 1 .. n : a[i] = b[i]
    PROVE  Entered(t, b, n)
  <1>1. ASSUME NEW i \in 1 .. n
        PROVE  \E k \in 0 .. 2 * t.mask + 1 :
                  t.slots[Probe(t, b[i], k)] = i /\ \A j \in 0 .. k : Taken(t, b[i], j)
    <2>1. a[i] = b[i]
      OBVIOUS
    <2>2. \E k \in 0 .. 2 * t.mask + 1 :
             t.slots[Probe(t, a[i], k)] = i /\ \A j \in 0 .. k : Taken(t, a[i], j)
      BY DEF Entered
    <2>3. QED
      BY <2>1, <2>2
  <1>2. QED
    BY <1>1 DEF Entered

\* A table that is grown in time has the words, and a slot that is free when the next one
\* is in.
LEMMA RehashedRight ==
    ASSUME NEW D, NEW f \in [D -> Nat], NEW q, IsQuarks(D, f, q)
    PROVE  LET r == Rehashed(q, f)
           IN  /\ r = [table |-> r.table, words |-> r.words]
               /\ r.words = q.words /\ IsTable(r.table)
               /\ Entered(r.table, Hashes(f, q.words), Len(q.words))
               /\ Len(q.words) + 1 <= r.table.mask
  <1> DEFINE size == Len(q.words) + 1
             hs == Hashes(f, q.words)
             r == Rehashed(q, f)
  <1>1. q.words \in Seq(D) /\ Len(q.words) \in Nat /\ q.table.mask \in Nat
    <2>1. q.words \in Seq(D) /\ q.table.mask \in Nat
      BY DEF IsQuarks
    <2>2. QED
      BY <2>1, SeqFacts
  <1>2. size \in Nat \ {0}
    BY <1>1
  <1>3. CASE ~RehashNeeded(q.table.mask, size)
    <2>1. r = q
      BY <1>3 DEF Rehashed
    <2>2. q.table.mask >= 2 * size
      BY <1>1, <1>2, <1>3 DEF RehashNeeded
    <2>3. q.table.mask # 0 /\ size <= q.table.mask
      BY <1>1, <1>2, <2>2
    <2>4. /\ q = [table |-> q.table, words |-> q.words] /\ IsTable(q.table)
          /\ Entered(q.table, Hashes(f, q.words), Len(q.words))
      BY <2>3 DEF IsQuarks
    <2> HIDE DEF r
    <2>5. /\ r = [table |-> r.table, words |-> r.words] /\ r.words = q.words /\ IsTable(r.table)
          /\ Entered(r.table, Hashes(f, q.words), Len(q.words))
          /\ Len(q.words) + 1 <= r.table.mask
      BY <2>1, <2>3, <2>4
    <2>6. QED
      BY <2>5 DEF r
  <1>4. CASE RehashNeeded(q.table.mask, size)
    <2>1. r = [q EXCEPT !.table = Filled(size, hs)]
      BY <1>4 DEF Rehashed, Hashes
    <2>2. r = [table |-> Filled(size, hs), words |-> q.words]
      BY <2>1 DEF IsQuarks
    <2>3. hs \in Seq(Nat) /\ Len(hs) = Len(q.words)
      BY <1>1, HashesFacts
    <2> HIDE DEF hs
    <2>4. /\ IsTable(Filled(size, hs)) /\ Entered(Filled(size, hs), hs, Len(hs))
          /\ Filled(size, hs).mask >= 2 * size
      <3>1. Len(hs) <= size
        BY <1>1, <2>3
      <3> HIDE DEF size
      <3>2. QED
        BY <1>2, <2>3, <3>1, FilledEnters
    <2>5. size <= Filled(size, hs).mask
      <3>1. Filled(size, hs).mask \in Nat
        BY <2>4 DEF IsTable
      <3>2. QED
        BY <1>2, <2>4, <3>1
    <2>6. r.table = Filled(size, hs) /\ r.words = q.words /\ r = [table |-> r.table, words |-> r.words]
      BY <2>2
    <2> HIDE DEF r, size
    <2>7. QED
      BY <2>3, <2>4, <2>5, <2>6 DEF r, size, hs
  <1>5. QED
    BY <1>3, <1>4

\* hit is a value of the chain that stands for the word, or 0 if there is none.
IsHit(q, n, chain, word, hit) ==
    \/ hit \in 1 .. n /\ q.words[hit] = word
    \/ hit = 0 /\ \A k \in 1 .. Len(chain) : q.words[chain[k]] # word

LEMMA FirstHitRight ==
    ASSUME NEW q, NEW n \in Nat, NEW chain \in Seq(1 .. n), NEW word
    PROVE  IsHit(q, n, chain, word, FirstHit(q, chain, word))
  <1> DEFINE I == {k \in DOMAIN chain : q.words[chain[k]] = word}
  <1>1. FirstHit(q, chain, word) = IF I = {} THEN 0 ELSE chain[Min(I)]
    BY DEF FirstHit
  <1>2. CASE I = {}
    BY <1>1, <1>2 DEF IsHit
  <1>3. CASE I # {}
    <2>1. I \in SUBSET Nat
      OBVIOUS
    <2>2. PICK m \in I : \A x \in I : ~(x < m)
      <3> HIDE DEF I
      <3>1. QED
        BY <1>3, <2>1, LeastNumber
    <2>3. \A x \in I : m <= x
      BY <2>1, <2>2
    <2>4. Min(I) \in I
      <3> HIDE DEF I
      <3>1. QED
        BY <2>3 DEF Min
    <2>5. \A k \in I : chain[k] \in 1 .. n /\ q.words[chain[k]] = word
      OBVIOUS
    <2>6. QED
      BY <1>1, <1>3, <2>4, <2>5 DEF IsHit
  <1>4. QED
    BY <1>2, <1>3

\* The words known before keep their places.
Extends(r, q) ==
    /\ Len(q.words) <= Len(r.words)
    /\ \A i \in 1 .. Len(q.words) : r.words[i] = q.words[i]

\* The call that results in r has interned the word.
Interned(D, f, q, word, r) ==
    /\ r.stuck = FALSE /\ IsQuarks(D, f, r.quarks) /\ Extends(r.quarks, q)
    /\ r.last \in 0 .. Len(r.quarks.words) /\ QuarkToString(r.quarks, r.last) = word

LEMMA ToQuarkRight ==
    ASSUME NEW D, NEW f \in [D -> Nat], NEW q, IsQuarks(D, f, q), NEW word \in D
    PROVE  Interned(D, f, q, word, ToQuark(q, word, f))
  <1> DEFINE r == Rehashed(q, f)
             t == r.table
             h == f[word]
             n == Len(q.words)
             hit == FirstHit(r, Chain(t, h), word)
             more == [table |-> Insert(t, h, n + 1), words |-> Append(q.words, word)]
  <1>0. q.words \in Seq(D)
    BY DEF IsQuarks
  <1>1. /\ q.words \in Seq(D) /\ \A i \in DOMAIN q.words : q.words[i] # ""
        /\ \A i, j \in DOMAIN q.words : q.words[i] = q.words[j] => i = j
    BY DEF IsQuarks
  <1>2. n \in Nat /\ DOMAIN q.words = 1 .. n /\ h \in Nat
    <2>1. n \in Nat /\ DOMAIN q.words = 1 .. n
      BY <1>1, SeqFacts
    <2>2. QED
      BY <2>1
  <1>3. CASE word = ""
    <2>1. ToQuark(q, word, f) = [quarks |-> q, last |-> 0, stuck |-> FALSE]
      BY <1>3 DEF ToQuark
    <2>2. QuarkToString(q, 0) = word
      BY <1>3 DEF QuarkToString
    <2>3. 0 \in 0 .. n
      BY <1>2
    <2>4. Extends(q, q)
      BY <1>2 DEF Extends
    <2>5. QED
      BY <2>1, <2>2, <2>3, <2>4 DEF Interned
  <1>4. CASE word # ""
    <2>1. /\ r = [table |-> t, words |-> r.words] /\ r.words = q.words /\ IsTable(t)
          /\ Entered(t, Hashes(f, q.words), n) /\ n + 1 <= t.mask
      BY RehashedRight
    <2>2. ToQuark(q, word, f) =
             IF ~Ends(t, h) THEN [quarks |-> r, last |-> 0, stuck |-> TRUE]
             ELSE IF hit # 0 THEN [quarks |-> r, last |-> hit, stuck |-> FALSE]
             ELSE [quarks |-> more, last |-> n + 1, stuck |-> FALSE]
      BY <1>4, <2>1 DEF ToQuark
    <2> HIDE DEF r, t, h, n, more
    <2>3. t.mask \in Nat /\ n <= t.mask
      BY <1>2, <2>1 DEF IsTable
    <2>4. Ends(t, h) /\ Chain(t, h) \in Seq(1 .. n) /\ Len(Chain(t, h)) = Collisions(t, h)
      BY <1>2, <2>1, <2>3, LookupEnds, ChainFacts
    <2>5. \/ hit \in 1 .. n /\ r.words[hit] = word
          \/ hit = 0 /\ \A k \in 1 .. Collisions(t, h) : r.words[Chain(t, h)[k]] # word
      <3> DEFINE chain == Chain(t, h)
      <3>1. chain \in Seq(1 .. n) /\ Len(chain) = Collisions(t, h)
        BY <2>4
      <3> HIDE DEF chain
      <3>2. IsHit(r, n, chain, word, FirstHit(r, chain, word))
        BY <1>2, <3>1, FirstHitRight
      <3>3. QED
        BY <3>1, <3>2 DEF chain, IsHit
    <2> HIDE DEF hit
    <2>6. CASE hit \in 1 .. n /\ r.words[hit] = word
      <3>1. ToQuark(q, word, f) = [quarks |-> r, last |-> hit, stuck |-> FALSE]
        BY <1>2, <2>2, <2>4, <2>6
      <3>2. IsQuarks(D, f, r)
        <4>1. r.table = t
          BY DEF t
        <4>2. QED
          BY <1>1, <2>1, <2>3, <4>1 DEF IsQuarks, n
      <3>3. Extends(r, q)
        BY <1>2, <2>1 DEF Extends, n
      <3>4. QuarkToString(r, hit) = word /\ hit \in 0 .. Len(r.words)
        <4>1. hit # 0 /\ hit \in 0 .. n /\ Len(r.words) = n
          BY <1>2, <2>1, <2>6 DEF n
        <4>2. QuarkToString(r, hit) = r.words[hit]
          BY <4>1 DEF QuarkToString
        <4>3. QED
          BY <2>6, <4>1, <4>2
      <3>5. QED
        BY <3>1, <3>2, <3>3, <3>4 DEF Interned
    <2>7. CASE hit = 0 /\ \A k \in 1 .. Collisions(t, h) : r.words[Chain(t, h)[k]] # word
      <3> DEFINE all == Append(q.words, word)
                 hs == Hashes(f, all)
                 u == Insert(t, h, n + 1)
      <3>1. ToQuark(q, word, f) = [quarks |-> more, last |-> n + 1, stuck |-> FALSE]
        BY <2>2, <2>4, <2>7
      <3>2. /\ all \in Seq(D) /\ Len(all) = n + 1
            /\ all[n + 1] = word /\ \A i \in 1 .. n : all[i] = q.words[i]
        BY <1>0, AppendFacts DEF n
      <3> HIDE DEF all
      <3>3. DOMAIN all = 1 .. n + 1 /\ \A i \in DOMAIN all : all[i] # ""
        <4>1. DOMAIN all = 1 .. n + 1
          BY <3>2, SeqFacts
        <4>2. ASSUME NEW i \in 1 .. n + 1 PROVE all[i] # ""
          <5>1. i \in 1 .. n \/ i = n + 1
            BY <1>2
          <5>2. QED
            BY <1>1, <1>2, <1>4, <3>2, <5>1
        <4>3. QED
          BY <4>1, <4>2
      <3>4. hs[n + 1] = h /\ \A i \in 1 .. n + 1 : hs[i] \in Nat /\ hs[i] = f[all[i]]
        <4>1. \A i \in 1 .. n + 1 : hs[i] = f[all[i]] /\ f[all[i]] \in Nat
          BY <3>2, HashesFacts
        <4>2. n + 1 \in 1 .. n + 1
          BY <1>2
        <4>3. QED
          BY <3>2, <4>1, <4>2 DEF h
      <3>5. \A i \in 1 .. n : Hashes(f, q.words)[i] = hs[i]
        <4>1. \A i \in 1 .. n : Hashes(f, q.words)[i] = f[q.words[i]]
          BY <1>0, HashesFacts DEF n
        <4>2. \A i \in 1 .. n : i \in 1 .. n + 1
          BY <1>2
        <4>3. QED
          BY <3>2, <3>4, <4>1, <4>2
      <3>6. \A i \in 1 .. n : q.words[i] # word
        <4> SUFFICES ASSUME NEW i \in 1 .. n, q.words[i] = word PROVE FALSE
          OBVIOUS
        <4> DEFINE old == Hashes(f, q.words)
        <4>1. old[i] = h /\ old[i] \in Nat
          <5>1. old[i] = f[q.words[i]] /\ f[q.words[i]] \in Nat
            BY <1>1, HashesFacts DEF n
          <5>2. QED
            BY <5>1 DEF h
        <4> HIDE DEF old
        <4>2. \E k \in 1 .. Collisions(t, old[i]) : Chain(t, old[i])[k] = i
          <5>1. Entered(t, old, n)
            BY <2>1 DEF old
          <5>2. QED
            BY <1>2, <2>1, <2>3, <4>1, <5>1, ChainHas
        <4>3. PICK k \in 1 .. Collisions(t, h) : Chain(t, h)[k] = i
          BY <4>1, <4>2
        <4>4. QED
          BY <2>1, <2>7, <4>3
      <3> HIDE DEF hs
      <3>7. Entered(t, hs, n)
        BY <1>2, <2>1, <3>5, EnteredAlike
      <3>8. IsTable(u) /\ u.mask = t.mask /\ Entered(u, hs, n + 1)
        <4>1. Insert(t, hs[n + 1], n + 1) = u
          BY <3>4
        <4> HIDE DEF u
        <4>2. QED
          BY <1>2, <2>1, <2>3, <3>4, <3>7, <4>1, InsertEnters
      <3> HIDE DEF u
      <3>9. more.table = u /\ more.words = all /\ more = [table |-> more.table, words |-> more.words]
        BY DEF more, u, all
      <3>10. \A i, j \in 1 .. n + 1 : all[i] = all[j] => i = j
        <4> SUFFICES ASSUME NEW i \in 1 .. n + 1, NEW j \in 1 .. n + 1, all[i] = all[j] PROVE i = j
          OBVIOUS
        <4>1. (i \in 1 .. n \/ i = n + 1) /\ (j \in 1 .. n \/ j = n + 1)
          BY <1>2
        <4>2. QED
          BY <1>1, <1>2, <3>2, <3>6, <4>1
      <3>11. IsQuarks(D, f, more)
        BY <2>1, <2>3, <3>2, <3>3, <3>8, <3>9, <3>10 DEF IsQuarks, hs
      <3>12. Extends(more, q)
        BY <1>2, <3>2, <3>9 DEF Extends, n
      <3>13. n + 1 \in 0 .. Len(more.words) /\ QuarkToString(more, n + 1) = word
        <4>1. n + 1 # 0 /\ n + 1 \in 0 .. n + 1
          BY <1>2
        <4>2. QuarkToString(more, n + 1) = more.words[n + 1]
          BY <4>1 DEF QuarkToString
        <4>3. QED
          BY <3>2, <3>9, <4>1, <4>2
      <3>14. QED
        BY <3>1, <3>11, <3>12, <3>13 DEF Interned
    <2>8. QED
      BY <2>5, <2>6, <2>7
  <1>5. QED
    BY <1>3, <1>4

\* Interning more words, a quark is still turned back into its word.
LEMMA QuarksLast ==
    ASSUME NEW q, NEW r, q.words \in Seq(Names), Extends(r, q), r.words \in Seq(Names),
           NEW x \in 0 .. Len(q.words)
    PROVE  x \in 0 .. Len(r.words) /\ QuarkToString(r, x) = QuarkToString(q, x)
  <1>1. Len(q.words) \in Nat /\ Len(r.words) \in Nat
    BY SeqFacts
  <1>2. x \in 0 .. Len(r.words)
    BY <1>1 DEF Extends
  <1>3. CASE x = 0
    BY <1>2, <1>3 DEF QuarkToString
  <1>4. CASE x # 0
    <2>1. x \in 1 .. Len(q.words)
      BY <1>1, <1>4
    <2>2. r.words[x] = q.words[x]
      BY <2>1 DEF Extends
    <2>3. QED
      BY <1>2, <1>4, <2>2 DEF QuarkToString
  <1>5. QED
    BY <1>3, <1>4

(***************************************************************************)
(* The invariant.                                                          *)
(***************************************************************************)
Given ==
    /\ given \in [Names -> SUBSET Nat]
    /\ \A w \in Names, x \in Nat : x \in given[w] =>
          x \in 0 .. Len(quarks.words) /\ QuarkToString(quarks, x) = w

Indexed ==
    /\ db \in Seq(Names)
    /\ db # << >> => table = DatabaseTable(Hashes(hash, db))

LookupInv ==
    /\ hash \in HashFunctions
    /\ IsQuarks(Names, hash, quarks)
    /\ Given
    /\ stuck = FALSE
    /\ Indexed

LEMMA HashIs ==
    ASSUME hash \in HashFunctions
    PROVE  hash \in [Names -> Nat] /\ \A d \in Databases : d \in Seq(Names)
  BY LookupAssumption DEF Names

LEMMA LookupInvInit == Init => LookupInv
  <1> SUFFICES ASSUME Init PROVE LookupInv
    OBVIOUS
  <1>1. hash \in HashFunctions /\ stuck = FALSE /\ db = << >> /\ quarks = NoQuarks
    BY DEF Init
  <1>2. IsQuarks(Names, hash, quarks)
    <2>1. << >> \in Seq(DOMAIN hash \ {""}) /\ DOMAIN << >> = {}
      OBVIOUS
    <2>2. NoQuarks.table.mask = 0 /\ NoQuarks.words = << >> /\ NoQuarks = [table |-> NoQuarks.table, words |-> NoQuarks.words]
      BY DEF NoQuarks, NoTable
    <2>3. QED
      BY <1>1, <2>1, <2>2 DEF IsQuarks
  <1>3. Given
    BY DEF Init, Given
  <1>4. Indexed
    BY <1>1 DEF Indexed
  <1>5. QED
    BY <1>1, <1>2, <1>3, <1>4 DEF LookupInv

LEMMA LookupInvNext == LookupInv /\ [Next]_lookupVars => LookupInv'
  <1> SUFFICES ASSUME LookupInv, [Next]_lookupVars PROVE LookupInv'
    OBVIOUS
  <1>1. /\ hash \in HashFunctions /\ IsQuarks(Names, hash, quarks) /\ Given /\ stuck = FALSE /\ Indexed
    BY DEF LookupInv
  <1>2. ASSUME NEW name \in Names, Intern(name) PROVE LookupInv'
    <2> DEFINE r == ToQuark(quarks, name, hash)
    <2>1. /\ quarks' = r.quarks /\ stuck' = r.stuck /\ hash' = hash /\ db' = db /\ table' = table
          /\ given' = IF r.stuck THEN given ELSE [given EXCEPT ![name] = @ \cup {r.last}]
      BY <1>2 DEF Intern
    <2>2. /\ r.stuck = FALSE /\ IsQuarks(Names, hash, r.quarks) /\ Extends(r.quarks, quarks)
          /\ r.last \in 0 .. Len(r.quarks.words) /\ QuarkToString(r.quarks, r.last) = name
      <3>1. hash \in [Names -> Nat]
        BY <1>1, HashIs
      <3>2. Interned(Names, hash, quarks, name, r)
        BY <1>1, <3>1, ToQuarkRight
      <3>3. QED
        BY <3>2 DEF Interned
    <2> HIDE DEF r
    <2>3. IsQuarks(Names, hash, quarks)' /\ stuck' = FALSE /\ Names' = Names
      BY <2>1, <2>2 DEF Names
    <2>4. Given'
      <3>1. given' = [given EXCEPT ![name] = @ \cup {r.last}]
        BY <2>1, <2>2
      <3>2. quarks.words \in Seq(Names) /\ r.quarks.words \in Seq(Names)
        BY <1>1, <2>2 DEF IsQuarks
      <3>3. r.last \in Nat
        BY <2>2, <3>2
      <3>4. given' \in [Names -> SUBSET Nat]
        BY <1>1, <3>1, <3>3 DEF Given
      <3>5. ASSUME NEW w \in Names, NEW x \in Nat, x \in given'[w]
            PROVE  x \in 0 .. Len(r.quarks.words) /\ QuarkToString(r.quarks, x) = w
        <4>1. CASE x \in given[w]
          <5>1. x \in 0 .. Len(quarks.words) /\ QuarkToString(quarks, x) = w
            BY <1>1, <4>1 DEF Given
          <5>2. QED
            BY <2>2, <3>2, <5>1, QuarksLast
        <4>2. CASE x \notin given[w]
          <5>1. w = name /\ x = r.last
            BY <1>1, <3>1, <3>5, <4>2 DEF Given
          <5>2. QED
            BY <2>2, <5>1
        <4>3. QED
          BY <4>1, <4>2
      <3>6. QED
        BY <2>1, <2>3, <3>4, <3>5 DEF Given
    <2>5. Indexed'
      BY <1>1, <2>1, <2>3 DEF Indexed
    <2>6. QED
      BY <1>1, <2>1, <2>3, <2>4, <2>5 DEF LookupInv
  <1>3. ASSUME NEW d \in Databases, Index(d) PROVE LookupInv'
    <2>1. /\ db' = d /\ table' = DatabaseTable(Hashes(hash, d))
          /\ hash' = hash /\ quarks' = quarks /\ given' = given /\ stuck' = stuck
      BY <1>3 DEF Index, Hashes
    <2>2. d \in Seq(Names) /\ Names' = Names
      BY <1>1, <2>1, HashIs DEF Names
    <2>3. Indexed'
      BY <2>1, <2>2 DEF Indexed
    <2>4. Given' /\ IsQuarks(Names, hash, quarks)'
      BY <1>1, <2>1, <2>2 DEF Given
    <2>5. QED
      BY <1>1, <2>1, <2>3, <2>4 DEF LookupInv
  <1>4. CASE UNCHANGED lookupVars
    <2>1. hash' = hash /\ quarks' = quarks /\ given' = given /\ stuck' = stuck /\ db' = db /\ table' = table
      BY <1>4 DEF lookupVars
    <2>2. Names' = Names
      BY <2>1 DEF Names
    <2>3. QED
      BY <1>1, <2>1, <2>2 DEF LookupInv, Given, Indexed
  <1>5. QED
    BY <1>2, <1>3, <1>4 DEF Next

LEMMA WordsAreKept == LookupInv => WordsKept
  <1> SUFFICES ASSUME LookupInv PROVE WordsKept
    OBVIOUS
  <1>1. IsQuarks(Names, hash, quarks) /\ Given /\ stuck = FALSE
    BY DEF LookupInv
  <1>2. /\ quarks.words \in Seq(Names)
        /\ \A i, j \in DOMAIN quarks.words : quarks.words[i] = quarks.words[j] => i = j
    BY <1>1 DEF IsQuarks, Names
  <1>3. \A w \in Names : \A x \in given[w] : x \in 0 .. Len(quarks.words) /\ QuarkToString(quarks, x) = w
    BY <1>1 DEF Given
  <1>4. \A x \in 0 .. Len(quarks.words) : x # 0 =>
           x \in DOMAIN quarks.words /\ quarks.words[x] # "" /\ QuarkToString(quarks, x) = quarks.words[x]
    <2> SUFFICES ASSUME NEW x \in 0 .. Len(quarks.words), x # 0
                 PROVE  x \in DOMAIN quarks.words /\ quarks.words[x] # "" /\ QuarkToString(quarks, x) = quarks.words[x]
      OBVIOUS
    <2>1. Len(quarks.words) \in Nat /\ DOMAIN quarks.words = 1 .. Len(quarks.words)
      BY <1>1, SeqFacts DEF IsQuarks
    <2>2. x \in DOMAIN quarks.words
      BY <2>1
    <2>3. quarks.words[x] # ""
      BY <1>1, <2>2 DEF IsQuarks
    <2>4. QED
      BY <2>2, <2>3 DEF QuarkToString
  <1>5. QuarkToString(quarks, 0) = ""
    BY DEF QuarkToString
  <1>6. ASSUME NEW v \in Names, NEW w \in Names, NEW q \in given[v], NEW r \in given[w]
        PROVE  v = w <=> q = r
    <2>1. /\ q \in 0 .. Len(quarks.words) /\ QuarkToString(quarks, q) = v
          /\ r \in 0 .. Len(quarks.words) /\ QuarkToString(quarks, r) = w
      BY <1>3
    <2>2. q = r => v = w
      BY <2>1
    <2>3. ASSUME v = w PROVE q = r
      <3>1. CASE q = 0
        BY <1>4, <1>5, <2>1, <2>3, <3>1
      <3>2. CASE r = 0
        BY <1>4, <1>5, <2>1, <2>3, <3>2
      <3>3. CASE q # 0 /\ r # 0
        BY <1>2, <1>4, <2>1, <2>3, <3>3
      <3>4. QED
        BY <3>1, <3>2, <3>3
    <2>4. QED
      BY <2>2, <2>3
  <1>7. QED
    BY <1>1, <1>3, <1>6 DEF WordsKept

LEMMA EntriesAreMet == LookupInv => EntriesMet
  <1> SUFFICES ASSUME LookupInv, db # << >>, NEW name \in Names
               PROVE  /\ Ends(table, hash[name])
                      /\ \A i \in DOMAIN db : db[i] = name => Seen(table, hash[name], i) \in {1, 2}
    BY DEF EntriesMet
  <1> DEFINE hs == Hashes(hash, db)
             n == Len(db)
             h == hash[name]
  <1>1. /\ hash \in [Names -> Nat] /\ db \in Seq(Names) /\ table = DatabaseTable(hs)
    BY HashIs DEF LookupInv, Indexed
  <1>2. hs \in Seq(Nat) /\ Len(hs) = n /\ \A i \in 1 .. n : hs[i] = hash[db[i]]
    BY <1>1, HashesFacts
  <1>3. n \in Nat \ {0} /\ DOMAIN db = 1 .. n /\ h \in Nat
    BY <1>1 DEF Names
  <1> HIDE DEF hs, n, h
  <1>4. table = Filled(n, hs)
    <2>1. hs # << >>
      BY <1>2, <1>3
    <2>2. QED
      BY <1>1, <1>2, <2>1 DEF DatabaseTable
  <1>5. IsTable(table) /\ Entered(table, hs, n) /\ n <= table.mask
    <2>1. Len(hs) <= n
      BY <1>2, <1>3
    <2>2. IsTable(table) /\ Entered(table, hs, n) /\ table.mask >= 2 * n
      BY <1>2, <1>3, <1>4, <2>1, FilledEnters
    <2>3. table.mask \in Nat
      BY <2>2 DEF IsTable
    <2>4. QED
      BY <1>3, <2>2, <2>3
  <1>6. Ends(table, h)
    BY <1>3, <1>5, LookupEnds
  <1>7. ASSUME NEW i \in DOMAIN db, db[i] = name PROVE Seen(table, h, i) \in {1, 2}
    <2>1. i \in 1 .. n /\ hs[i] = h
      BY <1>2, <1>3, <1>7 DEF h
    <2>2. QED
      BY <1>3, <1>5, <2>1, SeenRight
  <1>8. QED
    BY <1>6, <1>7 DEF h

\* However names hash, and however many words or entries there are: interning ends, a
\* word has one quark for good and is what the quark is turned back into; and a lookup in
\* the table of a database ends and sees every implementation of the project, at most
\* twice (hash.hpp:27-50, solve.cpp:34-44 and 192-205, quark.cpp:48-92).
THEOREM LookupsExact == Spec => []LookupExact
  <1>1. LookupInv => LookupExact
    BY WordsAreKept, EntriesAreMet DEF LookupExact
  <1>2. QED
    BY <1>1, LookupInvInit, LookupInvNext, PTL DEF Spec
=============================================================================
