------------------------------- MODULE Solver ------------------------------
(***************************************************************************)
(* The SAT solver that searches for a selection: minisat/Solver.cpp with   *)
(* the decision order of minisat/VarOrder.h.                               *)
(*                                                                         *)
(* A literal is an integer, v or -v for a variable v; a clause is a set of *)
(* literals.  The watch lists are abstracted: where the code visits the    *)
(* clauses that watch a literal, the model picks any clause that has       *)
(* become unit or false.  So are the activities of learnt clauses: any     *)
(* clause that may be dropped when the database is reduced can be dropped. *)
(*                                                                         *)
(* The decision order is a stack of variables.  What is decided is always  *)
(* that the variable is false (the implementation is not selected), so the *)
(* top of the stack is what is wanted least.                               *)
(***************************************************************************)
EXTENDS Integers, Sequences, FiniteSets, SequencesExt

CONSTANTS
    Problems,       \* the problems solve.cpp may pose
    ConflictLimit,  \* bound: conflicts before the first restart (100 in the code)
    LearntLimit     \* bound: learnt clauses kept (a third of the clauses in the code)

\* vars: the number of variables.  clauses: in the order they are added.
\* assumptions: the literals assumed before the search.  preferences: every
\* variable once, the least preferred last.  sources: the variables that stand for
\* implementations built from source; all others are preferred to them.
ProblemShape(p) ==
    LET Lits == {l \in -p.vars .. p.vars : l # 0} IN
    /\ p.vars \in Nat
    /\ p.clauses \in Seq(SUBSET Lits)
    /\ p.assumptions \in Seq(Lits)
    /\ p.preferences \in Seq(1 .. p.vars)
    /\ Len(p.preferences) = p.vars
    /\ ToSet(p.preferences) = 1 .. p.vars
    /\ p.sources \subseteq 1 .. p.vars
    /\ \A i, j \in 1 .. p.vars :
          (i < j /\ p.preferences[i] \in p.sources) => p.preferences[j] \in p.sources

ASSUME SolverAssumption ==
    /\ \A p \in Problems : ProblemShape(p)
    /\ ConflictLimit \in Nat \ {0, 1}
    /\ LearntLimit \in Int

VARIABLES
    problem,    \* the problem posed; never changes
    phase,      \* "add" (clauses are added), "assume", "search", "done"
    added,      \* how many clauses have been added
    ok,         \* FALSE once the clauses contradict each other at level 0
    clauses,    \* the problem clauses, as simplified when they were added
    learnts,    \* the learnt clauses
    trail,      \* the literals that are true, in the order of their assignment
    trail_lim,  \* the length of the trail at the start of every decision level
    level,      \* the level of a variable's last assignment
    reason,     \* the clause that implied a variable's value, {} if none did
    order,      \* VarOrder: the stack of variables to decide
    conflictC,  \* conflicts since the last restart
    limit,      \* conflicts after which the search is restarted
    verdict,    \* "none", "sat" or "unsat"
    model       \* the literals of the model found

trailVars == <<trail, trail_lim, level, reason, order>>
searchVars == <<conflictC, limit>>
answerVars == <<verdict, model>>
solverVars == <<problem, phase, added, ok, clauses, learnts,
                trailVars, searchVars, answerVars>>

Variables == 1 .. problem.vars
Literals == {l \in -problem.vars .. problem.vars : l # 0}
Var(l) == IF l > 0 THEN l ELSE -l

IsTrue(l) == l \in ToSet(trail)
IsFalse(l) == -l \in ToSet(trail)
IsUndef(l) == ~IsTrue(l) /\ ~IsFalse(l)

DecisionLevel == Len(trail_lim)
RootLevel == Len(problem.assumptions)

ClauseDatabase == clauses \cup learnts
Satisfied(c) == \E l \in c : IsTrue(l)
Falsified(c) == \A l \in c : IsFalse(l)
UnitLiteral(c, l) == l \in c /\ IsUndef(l) /\ \A m \in c \ {l} : IsFalse(m)
Locked(c) == \E l \in c : IsTrue(l) /\ reason[Var(l)] = c

\* Nothing is left to propagate and nothing is contradicted.
Quiescent == \A c \in ClauseDatabase : ~Falsified(c) /\ \A l \in c : ~UnitLiteral(c, l)

Init ==
    /\ problem \in Problems
    /\ phase = "add"
    /\ added = 0
    /\ ok = TRUE
    /\ clauses = {}
    /\ learnts = {}
    /\ trail = << >>
    /\ trail_lim = << >>
    /\ level = [v \in Variables |-> -1]
    /\ reason = [v \in Variables |-> {}]
    /\ order = problem.preferences
    /\ conflictC = 0
    /\ limit = ConflictLimit
    /\ verdict = "none"
    /\ model = {}

(***************************************************************************)
(* Assignments.                                                            *)
(***************************************************************************)
\* enqueue of an unassigned literal at the current level.
Enqueue(l, why) ==
    /\ trail' = Append(trail, l)
    /\ level' = [level EXCEPT ![Var(l)] = DecisionLevel]
    /\ reason' = [reason EXCEPT ![Var(l)] = why]
    /\ UNCHANGED <<trail_lim, order>>

\* assume: open a level; a literal that is already true is not enqueued again.
Assume(l) ==
    /\ trail_lim' = Append(trail_lim, Len(trail))
    /\ IF IsTrue(l) THEN UNCHANGED <<trail, level, reason>>
       ELSE /\ trail' = Append(trail, l)
            /\ level' = [level EXCEPT ![Var(l)] = DecisionLevel + 1]
            /\ reason' = [reason EXCEPT ![Var(l)] = {}]

\* cancelUntil: what it leaves of the trail, and what it pushes onto the order,
\* the last assignment first.
Kept(b) == IF b < DecisionLevel THEN SubSeq(trail, 1, trail_lim[b + 1]) ELSE trail
KeptLevels(b) == SubSeq(trail_lim, 1, IF b < DecisionLevel THEN b ELSE DecisionLevel)
UndoneButFirst(b) ==   \* mutant of Undone: off by one
    [i \in 1 .. Len(trail) - Len(Kept(b)) - 1 |-> Var(trail[Len(trail) + 1 - i])]
Undone(b) == [i \in 1 .. Len(trail) - Len(Kept(b)) |-> Var(trail[Len(trail) + 1 - i])]
KeptReasons(b) == [v \in Variables |-> IF v \in ToSet(Undone(b)) THEN {} ELSE reason[v]]

CancelAssignments(b) ==   \* mutant of CancelUntil: the levels stay
    /\ trail' = Kept(b)
    /\ reason' = KeptReasons(b)
    /\ order' = order \o Undone(b)
    /\ UNCHANGED <<level, trail_lim>>

CancelUntil(b) ==
    /\ trail' = Kept(b)
    /\ trail_lim' = KeptLevels(b)
    /\ reason' = KeptReasons(b)
    /\ order' = order \o Undone(b)
    /\ UNCHANGED level

(***************************************************************************)
(* Adding the clauses of the problem, all at level 0.                      *)
(***************************************************************************)
\* newClause without false literals; true or tautological clauses are dropped.
NewClause ==
    /\ phase = "add"
    /\ added < Len(problem.clauses)
    /\ added' = added + 1
    /\ LET ps == problem.clauses[added + 1]
           qs == {l \in ps : ~IsFalse(l)}
           superfluous == Satisfied(ps) \/ \E l \in ps : -l \in ps
       IN /\ ok' = (ok /\ (superfluous \/ qs # {}))
          /\ IF ok /\ ~superfluous /\ Cardinality(qs) > 1
             THEN clauses' = clauses \cup {qs} ELSE UNCHANGED clauses
          /\ IF ok /\ ~superfluous /\ Cardinality(qs) = 1
             THEN \E l \in qs : Enqueue(l, {}) ELSE UNCHANGED trailVars
    /\ UNCHANGED <<problem, phase, learnts, searchVars, answerVars>>

\* The solver answers and leaves its trail at level 0.
Answer(v, m) ==
    /\ phase' = "done"
    /\ verdict' = v
    /\ model' = m
    /\ CancelUntil(0)

Solve ==
    /\ phase = "add"
    /\ added = Len(problem.clauses)
    /\ IF ok THEN phase' = "assume" /\ UNCHANGED <<trailVars, answerVars>>
             ELSE Answer("unsat", {})
    /\ UNCHANGED <<problem, added, ok, clauses, learnts, searchVars>>

(***************************************************************************)
(* Propagation and conflicts.                                              *)
(***************************************************************************)
Propagate ==
    /\ phase \in {"assume", "search"}
    /\ \E c \in ClauseDatabase : \E l \in c : UnitLiteral(c, l) /\ Enqueue(l, c)
    /\ UNCHANGED <<problem, phase, added, ok, clauses, learnts, searchVars, answerVars>>

\* A conflict that no decision can be blamed for.
HopelessAtFirst == phase = "assume" \/ DecisionLevel <= RootLevel + 1   \* mutant of Hopeless
Hopeless == phase = "assume" \/ DecisionLevel = RootLevel

Contradiction ==
    /\ phase \in {"assume", "search"}
    /\ Hopeless
    /\ \E c \in ClauseDatabase : Falsified(c)
    /\ ok' = (ok /\ DecisionLevel > 0)
    /\ Answer("unsat", {})
    /\ UNCHANGED <<problem, added, clauses, learnts, searchVars>>

\* Literals fixed at level 0 do not enter a learnt clause.
AboveAssumptions(c) == {l \in c : level[Var(l)] > RootLevel}   \* mutant of AboveRoot
AboveRoot(c) == {l \in c : level[Var(l)] > 0}
AtCurrentLevel(c) == {l \in c : level[Var(l)] = DecisionLevel}

\* The clause learnt from a conflict: going back along the trail, a literal is
\* replaced by its reason until one literal of the current level is left.
FirstUIP(confl) ==
    LET back[i \in 0 .. Len(trail)] ==
            IF i = 0 THEN AboveRoot(confl)
            ELSE LET c == back[i - 1]
                     p == trail[Len(trail) + 1 - i]
                 IN IF -p \notin c \/ Cardinality(AtCurrentLevel(c)) = 1 THEN c
                    ELSE (c \ {-p}) \cup AboveRoot(reason[Var(p)] \ {p})
    IN back[Len(trail)]

\* analyze_removable: a literal follows from the others if every chain of reasons
\* behind it ends in them or at level 0.  Chains that visit a level the clause has
\* no literal of are given up (by level modulo 32 in the code).
Minimized(c) ==
    LET levels == {level[Var(l)] : l \in c \ AtCurrentLevel(c)}
        follows(l, known) ==
            reason[Var(l)] # {} /\ (reason[Var(l)] \ {-l}) \subseteq known
        known[i \in 0 .. Len(trail)] ==
            IF i = 0 THEN {}
            ELSE LET l == -trail[i]
                     before == known[i - 1]
                 IN IF \/ l \in c \/ level[Var(l)] = 0
                       \/ level[Var(l)] \in levels /\ follows(l, before)
                    THEN before \cup {l} ELSE before
    IN {l \in c : l \in AtCurrentLevel(c) \/ ~follows(l, known[Len(trail)])}

\* The level at which the learnt clause asserts its literal of the current level;
\* the search never goes back beyond the assumptions.
PreviousLevel(c) == Max({RootLevel, DecisionLevel - 1})   \* mutant of BacktrackLevel

BacktrackLevel(c) ==
    Max({RootLevel} \cup {level[Var(l)] : l \in c \ AtCurrentLevel(c)})

\* analyze, cancelUntil, and newClause for the learnt clause.
Learn ==
    /\ phase = "search"
    /\ DecisionLevel > RootLevel
    /\ \E confl \in ClauseDatabase :
          /\ Falsified(confl)
          /\ LET uip == FirstUIP(confl)
                 learnt == Minimized(uip)
                 b == BacktrackLevel(uip)
             IN \E l \in AtCurrentLevel(uip) :
                   /\ trail' = Append(Kept(b), l)
                   /\ trail_lim' = KeptLevels(b)
                   /\ order' = order \o Undone(b)
                   /\ IF learnt = {l}
                      THEN /\ level' = [level EXCEPT ![Var(l)] = 0]
                           /\ reason' = KeptReasons(b)
                           /\ UNCHANGED learnts
                      ELSE /\ level' = [level EXCEPT ![Var(l)] = b]
                           /\ reason' = [KeptReasons(b) EXCEPT ![Var(l)] = learnt]
                           /\ learnts' = learnts \cup {learnt}
    /\ conflictC' = conflictC + 1
    /\ UNCHANGED <<problem, phase, added, ok, clauses, limit, answerVars>>

(***************************************************************************)
(* Housekeeping and decisions.                                             *)
(***************************************************************************)
\* simplifyDB: at level 0, drop satisfied clauses if enough has been propagated
\* since the last time.  A binary clause lives in the watch lists only, and goes
\* even if it is a reason.
Simplified(cs, due) ==
    IF due /\ DecisionLevel = 0
    THEN {c \in cs : ~Satisfied(c) \/ (Cardinality(c) > 2 /\ Locked(c))} ELSE cs

\* reduceDB: when there are too many learnt clauses, drop inactive ones that are
\* neither binary nor a reason.
DroppableReasons(cs) == {c \in cs : Cardinality(c) > 2}   \* mutant of Droppable

Droppable(cs) ==
    IF Cardinality({c \in cs : Cardinality(c) > 2}) - Len(trail) >= LearntLimit
    THEN {c \in cs : Cardinality(c) > 2 /\ ~Locked(c)} ELSE {}

Housekeeping ==
    \E due \in BOOLEAN :
        /\ clauses' = Simplified(clauses, due)
        /\ \E dropped \in SUBSET Droppable(Simplified(learnts, due)) :
              learnts' = Simplified(learnts, due) \ dropped

\* The next assumption; search starts when all are made.
MakeAssumption ==
    /\ phase = "assume"
    /\ Quiescent
    /\ DecisionLevel < RootLevel
    /\ \E due \in BOOLEAN : clauses' = Simplified(clauses, due)
    /\ LET p == problem.assumptions[DecisionLevel + 1]
       IN IF IsFalse(p) THEN Answer("unsat", {})
          ELSE Assume(p) /\ UNCHANGED <<phase, order, answerVars>>
    /\ UNCHANGED <<problem, added, ok, learnts, searchVars>>

StartSearch ==
    /\ phase = "assume"
    /\ Quiescent
    /\ DecisionLevel = RootLevel
    /\ phase' = "search"
    /\ UNCHANGED <<problem, added, ok, clauses, learnts, trailVars, searchVars, answerVars>>

ShrinkingLimit == (2 * limit) \div 3   \* mutant of NextLimit: the factor upside down
NextLimit == (3 * limit) \div 2

MustRestart == conflictC >= limit

Restart ==
    /\ phase = "search"
    /\ Quiescent
    /\ MustRestart
    /\ CancelUntil(RootLevel)
    /\ conflictC' = 0
    /\ limit' = NextLimit
    /\ UNCHANGED <<problem, phase, added, ok, clauses, learnts, answerVars>>

\* VarOrder::select: the topmost variable that has no value.
Selectable == {k \in DOMAIN order : IsUndef(order[k])}

\* What is decided about a variable: its implementation is not selected.
Selected(v) == v   \* mutant of Decision
Decision(v) == -v

Decide ==
    /\ phase = "search"
    /\ Quiescent
    /\ ~MustRestart
    /\ Housekeeping
    /\ \E k \in Selectable :
          /\ \A j \in Selectable : j <= k
          /\ Assume(Decision(order[k]))
          /\ order' = SubSeq(order, 1, k - 1)
    /\ UNCHANGED <<problem, phase, added, ok, searchVars, answerVars>>

\* No variable is left: what is true is the model.
ModelFound ==
    /\ phase = "search"
    /\ Quiescent
    /\ ~MustRestart
    /\ Selectable = {}
    /\ Housekeeping
    /\ phase' = "done"
    /\ verdict' = "sat"
    /\ model' = ToSet(trail)
    /\ trail' = Kept(0)
    /\ trail_lim' = << >>
    /\ reason' = KeptReasons(0)
    /\ order' = Undone(0)    \* select has emptied it
    /\ UNCHANGED <<problem, added, ok, level, searchVars>>

Next ==
    \/ NewClause \/ Solve
    \/ Propagate \/ Contradiction \/ Learn
    \/ MakeAssumption \/ StartSearch \/ Restart \/ Decide \/ ModelFound

Spec == Init /\ [][Next]_solverVars

\* The solver runs in one thread and does nothing else.
FairSpec == Spec /\ WF_solverVars(Next)

(***************************************************************************)
(* Properties.                                                             *)
(***************************************************************************)
SolverTypeOK ==
    /\ problem \in Problems
    /\ phase \in {"add", "assume", "search", "done"}
    /\ added \in 0 .. Len(problem.clauses)
    /\ ok \in BOOLEAN
    /\ clauses \subseteq SUBSET Literals
    /\ learnts \subseteq SUBSET Literals
    /\ trail \in Seq(Literals)
    /\ trail_lim \in Seq(0 .. Len(trail))
    /\ level \in [Variables -> -1 .. problem.vars + RootLevel]
    /\ reason \in [Variables -> SUBSET Literals]
    /\ order \in Seq(Variables)
    /\ conflictC \in Nat
    /\ limit \in Nat
    /\ verdict \in {"none", "sat", "unsat"}
    /\ model \subseteq Literals

\* A variable without a value is in the decision order: a search that finds the
\* order empty has assigned every variable (VarOrder.h:23-39), although a variable
\* is taken off the order when it is decided or found assigned, and put back only
\* when its assignment is undone.
NoneForgotten ==
    \A v \in Variables : IsUndef(v) => v \in ToSet(order)

\* Every implied literal is implied by the literals before it on the trail, and its
\* reason, if it is a clause with a life of its own (more than two literals), has
\* not been freed by reduceDB or simplifyDB (Solver.cpp:526-545 and 556-595).
ReasonsSupported ==
    \A i \in DOMAIN trail :
        LET r == reason[Var(trail[i])] IN
        r # {} =>
            /\ trail[i] \in r
            /\ \A m \in r \ {trail[i]} : \E j \in 1 .. i - 1 : trail[j] = -m
            /\ Cardinality(r) > 2 => r \in ClauseDatabase

\* A conflict above the assumptions is analysed into a clause that is false now
\* and has one literal of the current level; minimization keeps that literal and
\* a literal of the level to backtrack to, so that the clause implies it there
\* (Solver.cpp:237-320: the backtrack level is computed before minimization).
LearntAsserts ==
    (phase = "search" /\ DecisionLevel > RootLevel) =>
        \A confl \in {c \in ClauseDatabase : Falsified(c)} :
            LET uip == FirstUIP(confl)
                learnt == Minimized(uip)
                b == BacktrackLevel(uip)
            IN /\ Falsified(learnt)
               /\ Cardinality(AtCurrentLevel(learnt)) = 1
               /\ b < DecisionLevel
               /\ b > RootLevel => \E l \in learnt : level[Var(l)] = b

\* An assignment makes every variable true or false.
Assignments ==
    {{IF v \in chosen THEN v ELSE -v : v \in Variables} : chosen \in SUBSET Variables}
Solutions ==
    {a \in Assignments : \A i \in DOMAIN problem.clauses : problem.clauses[i] \cap a # {}}

\* What is learnt, and what is fixed at level 0, follows from the clauses of the
\* problem alone: neither from the assumptions nor from decisions, also when the
\* literal fixed at "level 0" stands above the assumptions on the trail
\* (Solver.cpp:638).
LearntImplied ==
    phase # "add" =>
        /\ \A c \in learnts : \A a \in Solutions : c \cap a # {}
        /\ \A l \in {m \in ToSet(trail) : level[Var(m)] = 0} : \A a \in Solutions : l \in a

\* The solver answers as module Satisfiability promises.
Answers == {a \in Solutions : ToSet(problem.assumptions) \subseteq a}
Promise == INSTANCE Satisfiability WITH solutions <- Answers
AnswersAsPromised == Promise!Spec

\* If it can be done without building anything from source, nothing is built from
\* source (solve.cpp:47-83), also after conflicts have disturbed the order; but only as
\* long as reduceDB drops nothing, since a variable that a dropped clause implied is
\* decided before the sources that come back below it.
SourcesAvoided ==
    (verdict = "sat" /\ \E a \in Answers : a \cap problem.sources = {}) =>
        model \cap problem.sources = {}

\* The search ends: restarts come ever more rarely, and between two of them every
\* learnt clause moves an assignment to a lower level for good, dropped clauses
\* or not.
SolverEnds == <>(phase = "done")
=============================================================================
