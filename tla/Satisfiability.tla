--------------------------- MODULE Satisfiability --------------------------
(***************************************************************************)
(* What a SAT solver promises: one answer, a solution if there is one.     *)
(***************************************************************************)
VARIABLES solutions, verdict, model

Init == verdict = "none" /\ model = {}

FindModel ==
    /\ verdict = "none"
    /\ model' \in solutions
    /\ verdict' = "sat"
    /\ UNCHANGED solutions

Refute ==
    /\ verdict = "none"
    /\ solutions = {}
    /\ verdict' = "unsat"
    /\ UNCHANGED <<solutions, model>>

Next == FindModel \/ Refute

Spec == Init /\ [][Next]_<<solutions, verdict, model>>
=============================================================================
