------------------------------- MODULE Lookup -------------------------------
(***************************************************************************)
(* The two tables of a process at work: the words interned by quark.cpp,   *)
(* for as long as the process lives, and the table of the database that    *)
(* every call of solve builds for itself.  How a name hashes is given.     *)
(***************************************************************************)
EXTENDS Hash

CONSTANTS
    HashFunctions,  \* functions from names to hash values
    Databases       \* the databases that are solved: the projects of the entries, in order

ASSUME LookupAssumption ==
    /\ \A f \in HashFunctions : f \in [DOMAIN f -> Nat]
    /\ \A f \in HashFunctions, d \in Databases : d \in Seq(DOMAIN f)

VARIABLES
    hash,    \* str_hash and std::hash; never changes
    quarks,  \* the QuarkImpl
    given,   \* the quarks that have been returned for each name
    stuck,   \* the call of to_quark does not return
    db,      \* the database solved last
    table    \* its table

lookupVars == <<hash, quarks, given, stuck, db, table>>

Names == DOMAIN hash

Init ==
    /\ hash \in HashFunctions
    /\ quarks = NoQuarks
    /\ given = [name \in Names |-> {}]
    /\ stuck = FALSE
    /\ db = << >>
    /\ table = NoTable

Intern(name) ==
    LET r == ToQuark(quarks, name, hash) IN
    /\ ~stuck
    /\ quarks' = r.quarks
    /\ stuck' = r.stuck
    /\ given' = IF r.stuck THEN given ELSE [given EXCEPT ![name] = @ \cup {r.last}]
    /\ UNCHANGED <<hash, db, table>>

Index(database) ==
    /\ ~stuck
    /\ db' = database
    /\ table' = DatabaseTable([i \in DOMAIN database |-> hash[database[i]]])
    /\ UNCHANGED <<hash, quarks, given, stuck>>

Next ==
    \/ \E name \in Names : Intern(name)
    \/ \E database \in Databases : Index(database)

Spec == Init /\ [][Next]_lookupVars

(***************************************************************************)
(* Properties.                                                             *)
(***************************************************************************)
Seen(t, h, i) == Cardinality({k \in DOMAIN Chain(t, h) : Chain(t, h)[k] = i})

\* However many words are interned, and whenever the table grows, interning a word ends,
\* a word has one quark for good, and that is turned back into the word.
WordsKept ==
    /\ ~stuck
    /\ \A v \in Names : \A q \in given[v] :
          /\ QuarkToString(quarks, q) = v
          /\ \A w \in Names : \A r \in given[w] : v = w <=> q = r

\* A lookup in the table of a database ends, also that of a project the database does not
\* have, and sees every implementation of the project, some of them twice.
EntriesMet ==
    db # << >> =>
        \A name \in Names :
            /\ Ends(table, hash[name])
            /\ \A i \in DOMAIN db : db[i] = name => Seen(table, hash[name], i) \in {1, 2}

\* Both tables find what is in them (hash.hpp:27-50, solve.cpp:34-44 and 192-205,
\* quark.cpp:48-92).  That they find nothing twice is not true: in a table of eight slots
\* the second probe and the third are the same.
LookupExact == WordsKept /\ EntriesMet
=============================================================================
