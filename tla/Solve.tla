-------------------------------- MODULE Solve -------------------------------
(***************************************************************************)
(* Solver on the problems that solve.cpp poses: what the engine is told    *)
(* about a database and its requests.                                      *)
(***************************************************************************)
EXTENDS Solver, SolverInput

\* What the engine may ask: [db, requests, ignoreSource].
CONSTANT Cases

\* The implementations of a project are neighbours in the database (Crawl).
ASSUME CasesAssumption ==
    \A c \in Cases :
        /\ Len(c.db) \in Nat /\ DOMAIN c.db = 1 .. Len(c.db)
        /\ \A i, j, k \in DOMAIN c.db :
              (i < j /\ j < k /\ c.db[i].id = c.db[k].id) => c.db[j].id = c.db[i].id
        /\ c.ignoreSource \in BOOLEAN

\* The problem p asks for a selection that serves c: some requests that leave no choice
\* are assumed, every other request is a clause, and so is what selections must respect.
Poses(p, c) ==
    /\ p.vars = Len(c.db)
    /\ \E forced \in SUBSET {r \in ToSet(c.requests) : OnlyChoice(c.db, r)} :
          /\ ToSet(p.clauses) = {Providers(c.db, r) : r \in ToSet(c.requests) \ forced}
                                  \cup Clauses(c.db, << >>, c.ignoreSource)
          /\ ToSet(p.assumptions) = UNION {Providers(c.db, r) : r \in forced}

\* The implementations of which a set of literals says that they are selected.
Chosen(a) == {v \in Variables : v \in a}

\* What the engine is told: a consistent selection from the database, by the
\* definition that knows nothing of clauses, or that there is none
\* (solve.cpp:185-263).
SelectionRight ==
    phase = "done" =>
        \A c \in Cases : Poses(problem, c) =>
            IF verdict = "sat"
            THEN Consistent(c.db, Chosen(model), c.requests, c.ignoreSource)
            ELSE \A sel \in SUBSET Indices(c.db) :
                    ~Consistent(c.db, sel, c.requests, c.ignoreSource)
=============================================================================
