-------------------------------- MODULE Hash -------------------------------
(***************************************************************************)
(* Hash (hash.hpp), the open hash table, and its two users: the table of   *)
(* the database by project (solve.cpp:22-45 and 192-205) and the interning *)
(* of words (quark.cpp).  A table has 2^k slots, and 0 is a free one; hash *)
(* values are given.                                                       *)
(***************************************************************************)
EXTENDS Integers, Sequences, FiniteSets, SequencesExt

NoTable == [mask |-> 0, slots |-> << >>]

RehashNeeded(mask, size) == 2 * size > mask

PowersOfTwo(n) ==
    LET power[k \in 0 .. n] == IF k = 0 THEN 1 ELSE 2 * power[k - 1]
    IN {power[k] : k \in 0 .. n}

\* The lowest bits of 2 * size are cleared until one is left; twice that is the new
\* number of slots.
Slots(size) == 2 * Max({p \in PowersOfTwo(size) : p <= 2 * size})
Cleared(size) == [mask |-> Slots(size) - 1, slots |-> [h \in 0 .. Slots(size) - 1 |-> 0]]

\* next, k times: the step is 7 at first and grows by one.
Offset(k) == 7 * k + (k * (k - 1)) \div 2
Probe(t, h, k) == (h + Offset(k)) % (t.mask + 1)

\* The probes of h that find a slot taken; those a loop over them has before it meets a
\* free one.  Probes repeat after twice as many as there are slots: a loop that meets
\* none by then goes on for ever.
Taken(t, h, k) == t.slots[Probe(t, h, k)] # 0
FreeProbes(t, h) == {k \in 0 .. 2 * t.mask + 1 : ~Taken(t, h, k)}
Ends(t, h) == FreeProbes(t, h) # {}
Collisions(t, h) == Min(FreeProbes(t, h))

\* A loop that goes on for ever inserts nothing.
Insert(t, h, value) ==
    IF Ends(t, h) THEN [t EXCEPT !.slots[Probe(t, h, Collisions(t, h))] = value] ELSE t
\* What a loop that ends sees, in this order.
Chain(t, h) == [k \in 1 .. Collisions(t, h) |-> t.slots[Probe(t, h, k - 1)]]

\* All values from 1 on, each with its hash value, into a table of the size they need.
Filled(size, hashes) ==
    LET filled[n \in 0 .. Len(hashes)] ==
            IF n = 0 THEN Cleared(size) ELSE Insert(filled[n - 1], hashes[n], n)
    IN filled[Len(hashes)]

(***************************************************************************)
(* solve.cpp: entry i of the database is in the table as i + 1 there, and  *)
(* as i here, where sequences start at 1.                                  *)
(***************************************************************************)
DatabaseTable(hashes) == IF hashes = << >> THEN NoTable ELSE Filled(Len(hashes), hashes)

(***************************************************************************)
(* quark.cpp.  words: those interned; the quark of a word is its place.    *)
(***************************************************************************)
NoQuarks == [table |-> NoTable, words |-> << >>]

ClearedOnly(q, hash) ==   \* mutant of Rehashed: the words are not put back
    LET size == Len(q.words) + 1 IN
    IF RehashNeeded(q.table.mask, size) THEN [q EXCEPT !.table = Cleared(size)] ELSE q

\* index has one entry more than there are words.
Rehashed(q, hash) ==
    LET size == Len(q.words) + 1 IN
    IF ~RehashNeeded(q.table.mask, size) THEN q
    ELSE [q EXCEPT !.table = Filled(size, [i \in DOMAIN q.words |-> hash[q.words[i]]])]

\* The first hit of the chain, or 0.
FirstHit(q, chain, word) ==
    LET hits == {k \in DOMAIN chain : q.words[chain[k]] = word}
    IN IF hits = {} THEN 0 ELSE chain[Min(hits)]

\* to_quark, with the quark in `last'; `stuck' if it never returns.
ToQuark(q, word, hash) ==
    LET r == Rehashed(q, hash)
        h == hash[word]
        new == Len(r.words) + 1
        hit == FirstHit(r, Chain(r.table, h), word)
    IN IF word = "" THEN [quarks |-> q, last |-> 0, stuck |-> FALSE]
       ELSE IF ~Ends(r.table, h) THEN [quarks |-> r, last |-> 0, stuck |-> TRUE]
       ELSE IF hit # 0 THEN [quarks |-> r, last |-> hit, stuck |-> FALSE]
       ELSE [quarks |-> [table |-> Insert(r.table, h, new), words |-> Append(r.words, word)],
             last |-> new, stuck |-> FALSE]

QuarkToString(q, quark) == IF quark = 0 THEN "" ELSE q.words[quark]
=============================================================================
