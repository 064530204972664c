------------------------------ MODULE Resolve ------------------------------
(***************************************************************************)
(* What solve.cpp makes of a database of implementations: which            *)
(* implementation satisfies which specification, the clauses handed to the *)
(* SAT solver, and the selections that satisfy them.  No state: every      *)
(* operator is a function of its arguments.                                *)
(*                                                                         *)
(* A build is a pair <<version, variant>>.  A query is abstracted to the   *)
(* builds it accepts and the builds on which its evaluation throws (the    *)
(* query names a variable the build's variant does not define).  A         *)
(* specification is [id, component, query]; an implementation is           *)
(* [id, component, version, variant, depends, conflicts], the last two     *)
(* being sequences of specifications.  A literal is an integer: i for      *)
(* "database entry i is selected", -i for its negation.                    *)
(***************************************************************************)
EXTENDS Integers, Sequences, FiniteSets, SequencesExt

Source == "SOURCE"    \* the component name of implementations built from source
AnyComponent == "*"   \* the component name of an all-in-one package

\* The numbers of 1 .. n that are in S, from the first to the last.
Ascending(n, S) ==
    LET upto[i \in 0 .. n] ==
            IF i = 0 THEN << >> ELSE IF i \in S THEN Append(upto[i - 1], i) ELSE upto[i - 1]
    IN upto[n]

Indices(db) == 1 .. Len(db)
Build(impl) == <<impl.version, impl.variant>>

(***************************************************************************)
(* solve.hpp: does an implementation satisfy a specification?  Evaluation  *)
(* has a third outcome, an exception, that Throws captures.                *)
(***************************************************************************)
Considered(impl, spec) ==
    /\ impl.id = spec.id
    /\ impl.component \in {spec.component, AnyComponent, Source}

Satisfies(impl, spec) ==
    Considered(impl, spec) /\ Build(impl) \in spec.query.accepts

Throws(impl, spec) ==
    Considered(impl, spec) /\ Build(impl) \in spec.query.throws

Providers(db, spec) == {i \in Indices(db) : Satisfies(db[i], spec)}

QueryThrows(db, spec) == \E i \in Indices(db) : Throws(db[i], spec)

(***************************************************************************)
(* The clauses.                                                            *)
(***************************************************************************)
RequestClauses(db, requests) ==
    {Providers(db, r) : r \in ToSet(requests)}

DependencyClauses(db) ==
    UNION {{{-i} \cup Providers(db, s) : s \in ToSet(db[i].depends)} : i \in Indices(db)}

ExplicitConflictClauses(db) ==
    UNION {UNION {{{-i, -k} : k \in Providers(db, s)} : s \in ToSet(db[i].conflicts)}
              : i \in Indices(db)}

\* Two implementations of one project that cannot be installed together.
Clash(impl1, impl2) ==
    \/ impl1.version # impl2.version
    \/ impl1.variant # impl2.variant
    \/ impl1.component = impl2.component
    \/ {impl1.component, impl2.component} \cap {AnyComponent, Source} # {}

\* The inner loop stops at the first entry of another project, so a pair is
\* reached only when every entry between the two has the project of the first.
ReachedNext(db, i, k) == k = i + 1 /\ db[i].id = db[k].id   \* mutant of Reached

Reached(db, i, k) == i < k /\ \A j \in i .. k : db[j].id = db[i].id

ImplicitConflictClauses(db) ==
    {{-p[1], -p[2]} : p \in {q \in Indices(db) \X Indices(db) :
                               Reached(db, q[1], q[2]) /\ Clash(db[q[1]], db[q[2]])}}

SourceConflictsWithAll(db) ==   \* mutant of SourceConflictClauses
    {{-p[1], -p[2]} : p \in {q \in Indices(db) \X Indices(db) :
                               /\ db[q[1]].component = Source
                               /\ \E s \in ToSet(db[q[2]].depends) : Satisfies(db[q[1]], s)}}

SourceConflictClauses(db) ==
    {{-p[1], -p[2]} : p \in {q \in Indices(db) \X Indices(db) :
                               /\ db[q[1]].component = Source
                               /\ db[q[2]].component # Source
                               /\ \E s \in ToSet(db[q[2]].depends) : Satisfies(db[q[1]], s)}}

Clauses(db, requests, ignoreSource) ==
    RequestClauses(db, requests)
      \cup DependencyClauses(db)
      \cup ExplicitConflictClauses(db)
      \cup ImplicitConflictClauses(db)
      \cup (IF ignoreSource THEN {} ELSE SourceConflictClauses(db))

\* A selection satisfies a clause: it contains a positive literal of the
\* clause or lacks a negated one.
Holds(sel, clause) == \E l \in clause : IF l > 0 THEN l \in sel ELSE -l \notin sel

Models(db, requests, ignoreSource) ==
    {sel \in SUBSET Indices(db) : \A c \in Clauses(db, requests, ignoreSource) : Holds(sel, c)}

(***************************************************************************)
(* graph.cpp: the relation a selection is ordered by.                      *)
(***************************************************************************)
DependsOn(db, k, i) == \E s \in ToSet(db[k].depends) : Satisfies(db[i], s)

(***************************************************************************)
(* What a selection ought to be, stated without reference to clauses or to *)
(* the position of an entry: every request and every dependency of a       *)
(* selected implementation is provided for, no two selected                *)
(* implementations clash, exclude each other, or (unless ignored) mix a    *)
(* project built from source with a package that depends on it.            *)
(***************************************************************************)
Provided(db, sel, spec) == \E i \in sel : Satisfies(db[i], spec)

Compatible(x, y, ignoreSource) ==
    /\ x.id = y.id => ~Clash(x, y)
    /\ \A s \in ToSet(x.conflicts) : ~Satisfies(y, s)
    /\ \/ ignoreSource
       \/ ~(y.component = Source /\ x.component # Source)
       \/ \A s \in ToSet(x.depends) : ~Satisfies(y, s)

Consistent(db, sel, requests, ignoreSource) ==
    /\ \A r \in ToSet(requests) : Provided(db, sel, r)
    /\ \A i \in sel : \A s \in ToSet(db[i].depends) : Provided(db, sel, s)
    /\ \A i \in sel : \A s \in ToSet(db[i].conflicts) : ~Satisfies(db[i], s)
    /\ \A i, k \in sel : i # k => Compatible(db[i], db[k], ignoreSource)
=============================================================================
