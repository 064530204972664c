---------------------------- MODULE SolverInput ----------------------------
(***************************************************************************)
(* How solve.cpp poses its problem to the SAT solver (module Solver):      *)
(* variables are the positions in the database, a request that leaves no   *)
(* choice is an assumption, everything else a clause, and the preferences  *)
(* say which implementations are wanted least.                             *)
(***************************************************************************)
EXTENDS Resolve

CONSTANT Older(_, _)   \* vercmp: is the first version older than the second?

(***************************************************************************)
(* Binary packages come before source, then fewer dependencies before      *)
(* more, then older releases before newer ones.                            *)
(***************************************************************************)
PreferredTo(x, y) ==
    \/ x.component # Source /\ y.component = Source
    \/ /\ (x.component = Source) <=> (y.component = Source)
       /\ \/ Len(x.depends) < Len(y.depends)
          \/ Len(x.depends) = Len(y.depends) /\ Older(x.version, y.version)

\* make_preferences sorts the database; equals come in any order.
Preferences(db) ==
    {p \in [Indices(db) -> Indices(db)] :
        /\ ToSet(p) = Indices(db)
        /\ \A i, j \in Indices(db) : i < j => ~PreferredTo(db[p[j]], db[p[i]])}

\* The only provider of a request is no choice, unless the lookup meets it twice
\* (module Hash); a clause of it twice is one of it alone.
OnlyChoice(db, request) == Cardinality(Providers(db, request)) = 1
Forced(db, requests, metTwice) ==
    SelectSeq(requests, LAMBDA r : OnlyChoice(db, r) /\ r \notin metTwice)

Assumptions(db, forced) ==
    [n \in DOMAIN forced |-> CHOOSE i \in Providers(db, forced[n]) : TRUE]

\* The clauses one by one, in some order.
Listed(cs) == FoldSet(LAMBDA c, s : Append(s, c), << >>, cs)

\* The problems posed if the preferences are p, one for each set of requests whose
\* providers are met twice.  No request may be without providers: solve has returned
\* before in that case.
PosedInOrder(db, requests, ignoreSource, p) ==
    {LET forced == Forced(db, requests, metTwice)
         open == SelectSeq(requests, LAMBDA r : r \notin ToSet(forced))
     IN [vars |-> Len(db),
         clauses |-> Listed(Clauses(db, open, ignoreSource)),
         assumptions |-> Assumptions(db, forced),
         preferences |-> p,
         sources |-> {i \in Indices(db) : db[i].component = Source}] :
     metTwice \in SUBSET {r \in ToSet(requests) : OnlyChoice(db, r)}}

Posed(db, requests, ignoreSource) ==
    UNION {PosedInOrder(db, requests, ignoreSource, p) : p \in Preferences(db)}
=============================================================================
