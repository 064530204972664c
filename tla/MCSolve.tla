------------------------------ MODULE MCSolve ------------------------------
(***************************************************************************)
(* Solver on the problems that SolverInput poses for small databases, and  *)
(* on every small problem of their shape.                                  *)
(***************************************************************************)
EXTENDS MCSolver, Solve

MCOlder(v, w) == v < w

Want(id, accepted) ==
    [id |-> id, component |-> "", query |-> [accepts |-> {<<v, "x">> : v \in accepted}, throws |-> {}]]
Impl(id, component, version, depends) ==
    [id |-> id, component |-> component, version |-> version, variant |-> "x",
     depends |-> depends, conflicts |-> << >>]
Case(db, requests, ignoreSource) ==
    [db |-> db, requests |-> requests, ignoreSource |-> ignoreSource]

Versions == {1, 2}

\* A can be had as a package that needs B, or built from source with the package
\* of C, which needs B too; B is only available as source.
Detour == <<
    Impl("A", Source, 1, << Want("C", Versions) >>), Impl("A", "", 1, << Want("B", Versions) >>),
    Impl("C", "", 1, << Want("B", Versions) >>),
    Impl("B", Source, 2, << Want("D", Versions) >>), Impl("D", "", 1, << >>) >>

\* Every version of A needs its own version of B and of C; C excludes one of A.
Versioned == <<
    Impl("A", "", 1, << Want("B", {1}), Want("C", {1}) >>),
    Impl("A", "", 2, << Want("B", {2}), Want("C", {2}) >>),
    Impl("B", "", 1, << >>), Impl("B", Source, 2, << Want("C", {2}) >>),
    [Impl("C", "", 1, << >>) EXCEPT !.conflicts = << Want("A", {1}) >>],
    Impl("C", "", 2, << >>) >>

\* Packages for all components, complementing components, mutual dependencies.
Parts == <<
    Impl("A", AnyComponent, 1, << Want("B", {2}) >>), Impl("A", "", 1, << Want("B", {1}) >>),
    Impl("A", "dev", 1, << Want("A", {1}) >>),
    Impl("B", "", 1, << Want("A", {1}) >>), Impl("B", "", 2, << Want("D", {1}) >>) >>

\* B and C need versions of A that are not neighbours in the database.
Apart == <<
    Impl("A", "", 1, << >>), Impl("A", "", 2, << >>), Impl("A", "", 3, << >>),
    Impl("B", "", 1, << Want("A", {1}) >>), Impl("C", "", 1, << Want("A", {3}) >>) >>

\* P needs nothing that has to be built from source, and neither does V; but the fourth
\* version of P, which is of no use, needs the package of V.  Q can only be had in its
\* second version.
Forgetful == <<
    Impl("P", Source, 3, << >>), Impl("P", Source, 2, << >>),
    Impl("P", "", 1, << Want("D", {1}), Want("D", {1}), Want("D", {1}) >>),
    Impl("P", "", 4, << Want("P", {1, 2, 3}), Want("V", {2}) >>),
    Impl("V", "", 2, << >>), Impl("V", Source, 1, << >>), Impl("D", "", 1, << >>),
    Impl("Q", "", 2, << Want("D", {1}) >>), Impl("Q", "", 1, << Want("F", {1}) >>),
    [Impl("F", "", 1, << >>) EXCEPT !.conflicts = << Want("Q", {1}) >>] >>

Develop(id, accepted) == [Want(id, accepted) EXCEPT !.component = "dev"]

DetourCase == Case(Detour, << Want("A", Versions) >>, TRUE)

Posing == {
    DetourCase,
    Case(Detour, << Want("A", Versions) >>, FALSE),
    Case(Versioned, << Want("A", Versions) >>, FALSE),
    Case(Versioned, << Want("A", Versions), Want("B", {1}) >>, FALSE),
    Case(Versioned, << Want("A", {2}), Want("A", {2}), Want("B", Versions) >>, TRUE),
    Case(Apart, << Want("B", Versions), Want("C", Versions) >>, FALSE),
    Case(Apart, << Want("B", Versions), Want("A", 1 .. 3) >>, FALSE),
    Case(Parts, << Want("A", Versions), Develop("A", {1}) >>, FALSE),
    Case(Parts, << Want("B", Versions), Develop("A", {1}) >>, FALSE)}

ProblemsOf(c) == Posed(c.db, c.requests, c.ignoreSource)
MCPosed == UNION {ProblemsOf(c) : c \in Posing}
DetourPosed == ProblemsOf(DetourCase)

\* One of the orders of the preferences is enough for this one.
ForgetfulOrder == << 7, 10, 5, 9, 8, 4, 3, 6, 2, 1 >>
ForgetfulCase ==
    Case(Forgetful, << Want("P", 1 .. 4), Want("Q", Versions), Want("V", Versions) >>, FALSE)
ForgetfulPosed ==
    IF ForgetfulOrder \in Preferences(Forgetful)
    THEN PosedInOrder(Forgetful, ForgetfulCase.requests, FALSE, ForgetfulOrder)
    ELSE {}

MCCases == Posing \cup {ForgetfulCase}

\* The problems are posed as Poses describes it.
ASSUME PosedAsDescribed ==
    /\ \A c \in Posing : \A p \in ProblemsOf(c) : Poses(p, c)
    /\ \A p \in ForgetfulPosed : Poses(p, ForgetfulCase)

MCSolved == MCPosed \cup ForgetfulPosed \cup MCFew \cup MCHard

\* "Prefer binary packages" (solve.cpp:47): no solution builds only some of the
\* chosen projects from source, and nothing else from source.
BinaryPreferred ==
    verdict = "sat" =>
        ~\E a \in Answers : /\ a \cap problem.sources \subseteq model
                            /\ ~(model \cap problem.sources \subseteq a)
=============================================================================
