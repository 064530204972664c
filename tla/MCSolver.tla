------------------------------ MODULE MCSolver -----------------------------
(***************************************************************************)
(* Small problems for Solver, of the shapes solve.cpp poses: a request is  *)
(* a clause of positive literals, a dependency has one negative literal,   *)
(* a conflict two.                                                         *)
(***************************************************************************)
EXTENDS Solver

\* On problems this small the trail is longer than any list of learnt clauses.
Early == -3

Pose(n, cs, as) ==
    [vars |-> n, clauses |-> cs, assumptions |-> as, preferences |-> [v \in 1 .. n |-> v],
     sources |-> (n \div 2) + 1 .. n]

(***************************************************************************)
(* Problems that make the solver work: clauses of three literals learnt,   *)
(* literals removed from them, backjumps over several levels, restarts,    *)
(* unit clauses learnt above assumptions, clauses dropped.                 *)
(***************************************************************************)
MCHard == {
    Pose(5, << {-1, 2, 4}, {1, 2, 5}, {-2, -1}, {-5, 1, 3}, {-5, 2, 3}, {-5, 3, 4}, {-2, 1} >>, << >>),
    Pose(6, << {1, 4}, {-3, -1}, {2, 4}, {-2, 3, 5}, {-4, -3}, {2, 4, 6}, {-1, 4}, {-3, 5, 6},
               {-1, 2, 5}, {-5, -3} >>, << 2 >>),
    Pose(5, << {-2, 4, 5}, {1, 2, 3}, {-1, 2, 4}, {-3, -2}, {-5, 2, 3}, {-3, 1, 5} >>, << >>),
    Pose(5, << {-3, 5}, {1, 5}, {3, 5}, {-2, 3, 4}, {-5, -3}, {2, 4}, {-3, 2, 5} >>, << 1 >>),
    Pose(5, << {-3, 2, 4}, {1, 2, 3}, {-2, 3, 5}, {-1, 5}, {-1, 2, 3}, {-1, 3, 5} >>, << >>),
    Pose(5, << {1, 3, 4}, {-4, 1, 2}, {1, 2, 3}, {-2, -1}, {-1, 2, 5}, {-3, 4, 5}, {-5, 2, 3} >>, << >>)}

\* Three projects in two places: no solution, and not without a search.
Pigeonhole ==
    Pose(6, << {1, 2}, {3, 4}, {5, 6}, {-1, -3}, {-1, -5}, {-3, -5}, {-2, -4}, {-2, -6}, {-4, -6} >>, << >>)

\* A dependency nothing provides, a request that is excluded, the same request twice.
Refused == {
    Pose(2, << {-1}, {1, 2}, {-2, 1} >>, << >>),
    Pose(3, << {-1, 2}, {-2, -3} >>, << 1, 3 >>),
    Pose(3, << {-1, 2}, {-2, -2}, {-3, 3, 1} >>, << 3, 3 >>)}

MCProblems == MCHard \cup {Pigeonhole} \cup Refused

(***************************************************************************)
(* Every problem of a request, three dependencies and a conflict about     *)
(* three implementations, with and without requests that leave no choice.  *)
(***************************************************************************)
Three == 1 .. 3
Requests == {S \in SUBSET Three : Cardinality(S) > 1}
Dependencies == UNION {{{-v} \cup S : S \in SUBSET (Three \ {v})} : v \in Three}
Conflicts == {{-1, -2}, {-1, -3}, {-2, -3}}
MCFew ==
    {Pose(3, << r, d, e, f, c >>, as) :
        r \in Requests, d, e, f \in Dependencies, c \in Conflicts, as \in {<< >>, << 3, 2 >>}}
=============================================================================
