------------------------------ MODULE Engine -------------------------------
(***************************************************************************)
(* k_engine_run as a whole (engine.cpp): the crawl of module Crawl, then   *)
(* the solver, the ordering of what it selected, and the drivers that      *)
(* handle it, one implementation after the other.  The action Conclude of  *)
(* Crawl is replaced by what really happens in phase "solve".              *)
(*                                                                         *)
(* The SAT solver appears here by its contract, a selection that satisfies *)
(* the clauses if there is one; module Solver models how it is found.  The *)
(* order is that of topological_sort (module TopoSort).                    *)
(***************************************************************************)
EXTENDS Crawl, TopoSort

VARIABLES
    options,  \* the boolean options: ignoreSource, noOrder
    plan,     \* the selected implementations (indices into db) in handling order
    at,       \* the position in plan to handle next; 0 when nothing is selected
    handled,  \* what drivers were asked to download in this run: [impl, requested]
    crashed   \* the process died on a null pointer

engineVars == <<options, plan, at, handled, crashed>>
vars == <<crawlVars, engineVars>>

OptionNames == {"ignoreSource", "noOrder"}

EngineInit ==
    /\ Init
    /\ options = [o \in OptionNames |-> FALSE]
    /\ plan = << >>
    /\ at = 0
    /\ handled = << >>
    /\ crashed = FALSE

(***************************************************************************)
(* The client.                                                             *)
(***************************************************************************)
SetOption(o) ==
    /\ phase = "idle"
    /\ options' = [options EXCEPT ![o] = ~@]
    /\ UNCHANGED <<crawlVars, plan, at, handled, crashed>>

StartRun ==
    /\ Run
    /\ plan' = << >>
    /\ handled' = << >>
    /\ UNCHANGED <<options, at, crashed>>

(***************************************************************************)
(* solve.cpp, up to the call of the SAT solver.                            *)
(***************************************************************************)
Solving == phase = "solve" /\ at = 0 /\ ~crashed

EndMidway(outcome) ==   \* mutant of End: the position in the plan is not reset
    /\ phase' = "idle"
    /\ result' = outcome
    /\ UNCHANGED <<web, drivers, urls, next, requests, db, parser, runs,
                   options, at, handled, crashed>>

EndConsuming(outcome) ==   \* mutant of End: the requests are used up
    /\ phase' = "idle"
    /\ result' = outcome
    /\ at' = 0
    /\ requests' = << >>
    /\ UNCHANGED <<web, drivers, urls, next, db, parser, runs, options, handled, crashed>>

\* The end of k_engine_run; crawl variables other than these keep their value.
End(outcome) ==
    /\ phase' = "idle"
    /\ result' = outcome
    /\ at' = 0
    /\ UNCHANGED <<web, drivers, urls, next, requests, db, parser, runs,
                   options, handled, crashed>>

\* A request that ends the loop over the requests: its evaluation throws or it
\* has no choice at all.
Stuck(n) == QueryThrows(db, requests[n]) \/ Providers(db, requests[n]) = {}
FirstStuck(n) == Stuck(n) /\ \A m \in 1 .. n - 1 : ~Stuck(m)

\* The hash table of an empty database is never allocated (hash.hpp:31-33), and
\* looking a request up in it dereferences a null pointer.
Crash ==
    /\ Solving
    /\ db = << >>
    /\ requests # << >>
    /\ crashed' = TRUE
    /\ UNCHANGED <<crawlVars, options, plan, at, handled>>

NoImplementation ==
    /\ Solving
    /\ db # << >>
    /\ \E n \in DOMAIN requests : FirstStuck(n) /\ ~QueryThrows(db, requests[n])
    /\ End("unsatisfiable")
    /\ UNCHANGED <<plan, faults>>

ClausesThrow ==
    \E i \in DOMAIN db : \E s \in ToSet(db[i].depends) \cup ToSet(db[i].conflicts) :
        QueryThrows(db, s)

SolveThrows ==
    /\ Solving
    /\ \/ \E n \in DOMAIN requests : FirstStuck(n) /\ QueryThrows(db, requests[n])
       \/ (\A n \in DOMAIN requests : ~Stuck(n)) /\ ClausesThrow
    /\ End("error")
    /\ UNCHANGED <<plan, faults>>

CanSearch == Solving /\ (\A n \in DOMAIN requests : ~Stuck(n)) /\ ~ClausesThrow

TheModels == Models(db, requests, options.ignoreSource)

NoSolution ==
    /\ CanSearch
    /\ TheModels = {}
    /\ End("unsatisfiable")
    /\ UNCHANGED <<plan, faults>>

(***************************************************************************)
(* A solution exists: order it and handle it.                              *)
(***************************************************************************)
Select ==
    /\ CanSearch
    /\ \E sel \in TheModels :
          LET model == InDatabaseOrder(db, sel)
              sorted == TopologicalSort(db, model)
          IN IF options.noOrder THEN plan' = model
                                ELSE ~sorted.cyclic /\ plan' = sorted.order
    /\ at' = 1
    /\ UNCHANGED <<crawlVars, options, handled, crashed>>

\* topological_sort throws not_a_dag.
CyclicSelection ==
    /\ CanSearch
    /\ ~options.noOrder
    /\ \E sel \in TheModels : TopologicalSort(db, InDatabaseOrder(db, sel)).cyclic
    /\ End("error")
    /\ UNCHANGED <<plan, faults>>

Handling == phase = "solve" /\ at > 0

RequestedFirst(i) == Satisfies(db[i], requests[1])   \* mutant of Requested

Requested(i) == \E n \in DOMAIN requests : Satisfies(db[i], requests[n])

HandleNext ==
    /\ Handling
    /\ at <= Len(plan)
    /\ handled' = Append(handled, [impl |-> plan[at], requested |-> Requested(plan[at])])
    /\ at' = at + 1
    /\ UNCHANGED <<crawlVars, options, plan, crashed>>

\* The driver reports an error: what was handled before stays handled.
DriverFails ==
    /\ Handling
    /\ at <= Len(plan)
    /\ faults < MaxFaults
    /\ faults' = faults + 1
    /\ End("error")
    /\ UNCHANGED plan

AllHandledButOne ==   \* mutant of AllHandled
    /\ at > Len(plan) + 1
    /\ End("ok")
    /\ UNCHANGED <<plan, faults>>

AllHandled ==
    /\ Handling
    /\ at = Len(plan) + 1
    /\ End("ok")
    /\ UNCHANGED <<plan, faults>>

(***************************************************************************)
(* The specification.                                                      *)
(***************************************************************************)
EngineClient ==
    \/ /\ \/ \E name \in DriverNames : AddDriver(name)
          \/ \E spec \in Requestable, source \in BOOLEAN : AddRequest(spec, source)
       /\ UNCHANGED engineVars
    \/ \E o \in OptionNames : SetOption(o)
    \/ StartRun

Reading == (Crawling \/ ReadFails \/ ParseFails) /\ UNCHANGED engineVars

Concluding ==
    \/ Crash \/ NoImplementation \/ SolveThrows \/ NoSolution
    \/ Select \/ CyclicSelection
    \/ HandleNext \/ DriverFails \/ AllHandled

EngineNext == EngineClient \/ Reading \/ Concluding

EngineSpec == EngineInit /\ [][EngineNext]_vars

\* One thread runs the engine and does not stop in the middle.
FairEngineSpec == EngineSpec /\ WF_vars(Reading \/ Concluding)

(***************************************************************************)
(* Properties.                                                             *)
(***************************************************************************)
EngineTypeOK ==
    /\ TypeOK
    /\ options \in [OptionNames -> BOOLEAN]
    /\ plan \in Seq(DOMAIN db)
    /\ at \in 0 .. Len(plan) + 1
    /\ at > 0 => phase = "solve"
    /\ handled \in Seq([impl : DOMAIN db, requested : BOOLEAN])
    /\ crashed \in BOOLEAN

\* Whatever is about to be handled is a consistent selection by the definition that
\* knows nothing of clauses and positions.  It needs the database to keep the
\* implementations of a project together (solve.cpp:134-156).
SelectionConsistent ==
    (Canonical /\ at > 0) => Consistent(db, ToSet(plan), requests, options.ignoreSource)

\* Implementations of the same project either complement or conflict each other:
\* no two of them that conflict are ever handled together (solve.cpp:129-133).
ComplementOrConflict ==
    at > 0 => \A i, k \in ToSet(plan) :
                 (i # k /\ db[i].id = db[k].id) => ~Clash(db[i], db[k])

\* An implementation is handled when everything selected that provides one of its
\* dependencies has been handled, unless the order is switched off, and nothing is
\* handled twice in a run, in whatever order (graph.cpp:20-58, engine.cpp:156-182).
DependenciesFirst ==
    at > 0 =>
        /\ \A m, n \in DOMAIN handled : handled[m].impl = handled[n].impl => m = n
        /\ ~options.noOrder =>
              \A n \in DOMAIN handled : \A i \in ToSet(plan) :
                  DependsOn(db, handled[n].impl, i) => \E m \in 1 .. n - 1 : handled[m].impl = i

\* A run that reports success has handled, marked as requested, an implementation
\* for every request (engine.cpp:168-182).
SuccessServesRequests ==
    [][(result' = "ok" /\ phase # "idle" /\ phase' = "idle") =>
          \A n \in DOMAIN requests :
              \E h \in ToSet(handled) : h.requested /\ Satisfies(db[h.impl], requests[n])]_vars

\* A run that reports that the request is not satisfiable is right about its
\* database: no selection from it is consistent.
UnsatisfiableIsRight ==
    [][(result' = "unsatisfiable" /\ phase # "idle" /\ phase' = "idle") =>
          \A sel \in SUBSET DOMAIN db : ~Consistent(db, sel, requests, options.ignoreSource)]_vars

\* The engine does to the crawl's state only what module Crawl allows.
ImplementsCrawl == Spec

\* Every run comes to an end, with a result or a crash.
RunEnds == (Canonical /\ phase = "fetch") ~> (phase = "idle" \/ crashed)
=============================================================================
