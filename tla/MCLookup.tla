------------------------------ MODULE MCLookup ------------------------------
(***************************************************************************)
(* Words and databases that collide in every way: two hash values, one on  *)
(* the way of the other.                                                   *)
(***************************************************************************)
EXTENDS Lookup

CONSTANT Entries   \* bound: the number of entries of a database

Dictionary == << "", "a", "b", "c", "d", "e", "f", "g", "h" >>

MCHashFunctions ==
    {[w \in ToSet(Dictionary) |-> IF w = "" THEN 0 ELSE h[w]] :
        h \in [ToSet(Tail(Dictionary)) -> {0, 7}]}
MCDatabases == UNION {[1 .. n -> {"a", "b"}] : n \in 0 .. Entries}

\* As all distributions of the hash values are there, it is enough to intern new words in
\* one order; and as the tables have nothing to do with each other, or with the one of
\* another database, to intern words or to solve, and to solve at most twice.
InternOne ==
    /\ db = << >>
    /\ \E n \in DOMAIN Dictionary : n <= Len(quarks.words) + 2 /\ Intern(Dictionary[n])
Others == {w \in Names : hash[w] # 0} \ {"a", "b"}
IndexOne ==
    /\ quarks = NoQuarks /\ Others = {} /\ Len(db) <= 1
    /\ \E database \in MCDatabases : Index(database)
=============================================================================
