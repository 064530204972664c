---------------------------- MODULE EngineProofs ---------------------------
(***************************************************************************)
(* Proofs about module Engine, for every network, every set of drivers,    *)
(* all options, and any number of requests, runs and failures: a run of    *)
(* the engine is one of the crawl, and its verdicts are right.             *)
(***************************************************************************)
EXTENDS Engine, CrawlProofs

(***************************************************************************)
(* The crawl.                                                              *)
(***************************************************************************)
\* Every way in which solving and handling end is an end that the crawl allows.
LEMMA ConcludingConcludes ==
    ASSUME Concluding PROVE Conclude \/ UNCHANGED crawlVars
  <1>1. CASE NoImplementation \/ SolveThrows \/ NoSolution \/ CyclicSelection
    BY <1>1 DEF NoImplementation, SolveThrows, NoSolution, CyclicSelection, CanSearch, Solving, End, Conclude
  <1>2. CASE DriverFails
    BY <1>2 DEF DriverFails, Handling, End, Conclude
  <1>3. CASE AllHandled
    BY <1>3 DEF AllHandled, Handling, End, Conclude
  <1>4. CASE Crash \/ Select \/ HandleNext
    BY <1>4 DEF Crash, Select, HandleNext
  <1>5. QED
    BY <1>1, <1>2, <1>3, <1>4 DEF Concluding

LEMMA EngineStepsAreCrawlSteps == ASSUME [EngineNext]_vars PROVE [Next]_crawlVars
  <1>1. CASE EngineClient
    BY <1>1 DEF EngineClient, StartRun, SetOption, Next, Client
  <1>2. CASE Reading
    BY <1>2 DEF Reading, Next
  <1>3. CASE Concluding
    BY <1>3, ConcludingConcludes DEF Next
  <1>4. CASE UNCHANGED vars
    BY <1>4 DEF vars
  <1>5. QED
    BY <1>1, <1>2, <1>3, <1>4 DEF EngineNext

\* Whatever the engine does, also when it solves, orders and handles, it does to queue,
\* database and requests only what the crawl does: nothing is rolled back, nothing read
\* twice (engine.cpp:117-187).
THEOREM EngineImplementsCrawl == EngineSpec => ImplementsCrawl
  <1>1. EngineInit => Init
    BY DEF EngineInit
  <1>2. [EngineNext]_vars => [Next]_crawlVars
    BY EngineStepsAreCrawlSteps
  <1>3. QED
    BY <1>1, <1>2, PTL DEF EngineSpec, Spec, ImplementsCrawl

(***************************************************************************)
(* Verdicts.                                                               *)
(***************************************************************************)
OptionsType == options \in [OptionNames -> BOOLEAN]

LEMMA OptionsStay == OptionsType /\ [EngineNext]_vars => OptionsType'
  <1> SUFFICES ASSUME OptionsType, [EngineNext]_vars PROVE OptionsType'
    OBVIOUS
  <1>1. ASSUME NEW o \in OptionNames, SetOption(o) PROVE OptionsType'
    BY <1>1 DEF SetOption, OptionsType
  <1>2. CASE UNCHANGED options
    BY <1>2 DEF OptionsType
  <1>3. ASSUME Concluding PROVE UNCHANGED options
    BY <1>3 DEF Concluding, Crash, NoImplementation, SolveThrows, NoSolution, Select, CyclicSelection,
                HandleNext, DriverFails, AllHandled, End
  <1>4. ASSUME Reading \/ UNCHANGED vars PROVE UNCHANGED options
    BY <1>4 DEF Reading, vars, engineVars
  <1>5. ASSUME EngineClient, ~\E o \in OptionNames : SetOption(o) PROVE UNCHANGED options
    BY <1>5 DEF EngineClient, StartRun, engineVars
  <1>6. QED
    BY <1>1, <1>2, <1>3, <1>4, <1>5 DEF EngineNext

\* What the solver may return is consistent if the database is one the crawl left behind.
LEMMA ModelsConsistent ==
    ASSUME TypeOK, OptionsType, Contiguous, Canonical, NEW sel \in TheModels
    PROVE  Consistent(db, sel, requests, options.ignoreSource)
  <1>1. Len(db) \in Nat /\ DOMAIN db = 1 .. Len(db)
    BY DEF TypeOK
  <1>2. options.ignoreSource \in BOOLEAN
    BY DEF OptionsType, OptionNames
  <1>3. Neighbours(db)
    BY DEF Contiguous, Neighbours
  <1>4. QED
    BY <1>1, <1>2, <1>3, ModelIsConsistent DEF TheModels

\* In every state in which the engine solves, whichever model the solver returns, it is
\* a consistent selection, although the clauses leave out pairs of one project that are
\* not neighbours (solve.cpp:134-156).
THEOREM SelectionsConsistent ==
    EngineSpec => [](Canonical => \A sel \in TheModels :
                        Consistent(db, sel, requests, options.ignoreSource))
  <1>1. TypeOK /\ OptionsType /\ Contiguous =>
           (Canonical => \A sel \in TheModels : Consistent(db, sel, requests, options.ignoreSource))
    BY ModelsConsistent
  <1>2. EngineSpec => []TypeOK /\ []Contiguous
    BY EngineImplementsCrawl, TypeCorrect, DatabaseContiguous, PTL DEF ImplementsCrawl
  <1>3. EngineInit => OptionsType
    BY DEF EngineInit, OptionsType
  <1>4. EngineSpec => []OptionsType
    BY <1>3, OptionsStay, PTL DEF EngineSpec
  <1>5. QED
    BY <1>1, <1>2, <1>4, PTL

\* The verdict "unsatisfiable" comes from two steps only.
LEMMA WhoSaysUnsatisfiable ==
    ASSUME [EngineNext]_vars, result' = "unsatisfiable", phase # "idle", phase' = "idle"
    PROVE  NoImplementation \/ NoSolution
  <1>1. ~EngineClient
    BY DEF EngineClient, AddDriver, AddRequest, SetOption, StartRun, Run
  <1>2. ~Reading
    BY DEF Reading, Crawling, ReadFeed, SkipOffer, TakeOffer, Replay, AddImplementation, FinishFeed,
           ReadAll, ReadFails, ParseFails
  <1>3. ~UNCHANGED vars
    BY DEF vars, crawlVars
  <1>4. ~(Crash \/ Select \/ HandleNext \/ SolveThrows \/ CyclicSelection \/ DriverFails \/ AllHandled)
    BY DEF Crash, Select, HandleNext, SolveThrows, CyclicSelection, DriverFails, AllHandled, End, crawlVars
  <1>5. QED
    BY <1>1, <1>2, <1>3, <1>4 DEF EngineNext, Concluding

LEMMA UnsatisfiableStep ==
    ASSUME TypeOK, OptionsType, NoImplementation \/ NoSolution, NEW sel \in SUBSET DOMAIN db
    PROVE  ~Consistent(db, sel, requests, options.ignoreSource)
  <1>1. Len(db) \in Nat /\ DOMAIN db = 1 .. Len(db) /\ sel \in SUBSET Indices(db)
    BY DEF TypeOK, Indices
  <1>2. options.ignoreSource \in BOOLEAN
    BY DEF OptionsType, OptionNames
  <1>3. CASE NoImplementation
    <2>1. PICK n \in DOMAIN requests : FirstStuck(n) /\ ~QueryThrows(db, requests[n])
      BY <1>3 DEF NoImplementation
    <2>2. Providers(db, requests[n]) = {}
      BY <2>1 DEF FirstStuck, Stuck
    <2>3. requests[n] \in ToSet(requests)
      BY DEF ToSet
    <2>4. ~Provided(db, sel, requests[n])
      BY <1>1, <2>2, ProvidedByIndex
    <2>5. QED
      BY <2>3, <2>4 DEF Consistent
  <1>4. CASE NoSolution
    <2>1. sel \notin Models(db, requests, options.ignoreSource)
      BY <1>4 DEF NoSolution, TheModels
    <2>2. QED
      BY <1>1, <1>2, <2>1, ConsistentIsModel
  <1>5. QED
    BY <1>3, <1>4

\* A run that says that the requests are not satisfiable is right about its database,
\* whatever it holds and in whatever order (engine.cpp:155-160, solve.cpp:211-240).
THEOREM UnsatisfiableProved == EngineSpec => UnsatisfiableIsRight
  <1>1. TypeOK /\ OptionsType /\ [EngineNext]_vars =>
          [(result' = "unsatisfiable" /\ phase # "idle" /\ phase' = "idle") =>
              \A sel \in SUBSET DOMAIN db : ~Consistent(db, sel, requests, options.ignoreSource)]_vars
    BY WhoSaysUnsatisfiable, UnsatisfiableStep
  <1>2. EngineSpec => []TypeOK
    BY EngineImplementsCrawl, TypeCorrect, PTL DEF ImplementsCrawl
  <1>3. EngineInit => OptionsType
    BY DEF EngineInit, OptionsType
  <1>4. EngineSpec => []OptionsType
    BY <1>3, OptionsStay, PTL DEF EngineSpec
  <1>5. QED
    BY <1>1, <1>2, <1>4, PTL DEF EngineSpec, UnsatisfiableIsRight

(***************************************************************************)
(* Selecting and handling.                                                 *)
(***************************************************************************)
EngineTyped ==
    /\ plan \in Seq(DOMAIN db)
    /\ at \in 0 .. Len(plan) + 1
    /\ at > 0 => phase = "solve"
    /\ handled \in Seq([impl : DOMAIN db, requested : BOOLEAN])
    /\ crashed \in BOOLEAN

HandledAs(i) == [impl |-> i, requested |-> Requested(i)]

\* While a selection is handled: the plan is one that the solver may have returned, in an
\* order that serves its dependencies, and it has been handled up to the position `at'.
PlanFollowed ==
    /\ ToSet(plan) \in TheModels
    /\ Lists(plan, ToSet(plan))
    /\ options.noOrder \/ ProvidersFirst(db, plan)
    /\ DOMAIN handled = 1 .. at - 1
    /\ \A n \in 1 .. at - 1 : handled[n] = HandledAs(plan[n])

\* The inductive invariant of the engine.  A run that has not selected anything has
\* handled nothing: what an earlier run handled is forgotten when it starts.
EngineInv ==
    /\ OptionsType
    /\ EngineTyped
    /\ at > 0 => PlanFollowed
    /\ (at = 0 /\ phase # "idle") => handled = << >>

LEMMA EngineInvInit == EngineInit => EngineInv
  <1> SUFFICES ASSUME EngineInit PROVE EngineInv
    OBVIOUS
  <1>1. /\ plan = << >> /\ at = 0 /\ handled = << >> /\ crashed = FALSE /\ phase = "idle"
        /\ options = [o \in OptionNames |-> FALSE]
    BY DEF EngineInit, Init
  <1>2. Len(plan) = 0 /\ at \in 0 .. Len(plan) + 1 /\ ~(at > 0)
    BY <1>1
  <1>3. \A S : << >> \in Seq(S)
    OBVIOUS
  <1>4. EngineTyped
    BY <1>1, <1>2, <1>3 DEF EngineTyped
  <1>5. QED
    BY <1>1, <1>2, <1>4 DEF EngineInv, OptionsType

\* What the client's calls do to the state of a run.
LEMMA ClientSteps ==
    ASSUME EngineClient
    PROVE  /\ phase = "idle" /\ UNCHANGED <<db, at, crashed>>
           /\ \/ phase' = "idle" /\ UNCHANGED <<plan, handled>>
              \/ phase' = "fetch" /\ plan' = << >> /\ handled' = << >>
  BY DEF EngineClient, AddDriver, AddRequest, SetOption, StartRun, Run, crawlVars, engineVars

\* Reading touches nothing of the solution, and the database only grows.
LEMMA ReadingSteps ==
    ASSUME TypeOK, Reading
    PROVE  phase # "idle" /\ phase # "solve" /\ UNCHANGED engineVars /\ DOMAIN db \subseteq DOMAIN db'
  <1>1. phase # "idle" /\ phase # "solve" /\ UNCHANGED engineVars
    BY DEF Reading, Crawling, ReadFeed, SkipOffer, TakeOffer, Replay, AddImplementation, FinishFeed,
           ReadAll, ReadFails, ParseFails
  <1>2. CASE AddImplementation
    <2> DEFINE x == Implementation(parser.id, Offer, parser.depends, parser.conflicts)
    <2>1. db' = Append(db, x) /\ db \in Seq(Impls)
      BY <1>2 DEF AddImplementation, TypeOK
    <2> HIDE DEF x
    <2>2. DOMAIN db = 1 .. Len(db) /\ DOMAIN Append(db, x) = 1 .. Len(db) + 1 /\ Len(db) \in Nat
      BY <2>1
    <2>3. 1 .. Len(db) \subseteq 1 .. Len(db) + 1
      BY <2>2
    <2>4. DOMAIN db \subseteq DOMAIN db'
      BY <2>1, <2>2, <2>3
    <2>5. QED
      BY <1>1, <2>4
  <1>3. CASE ~AddImplementation
    <2>1. UNCHANGED db
      BY <1>3 DEF Reading, Crawling, ReadFeed, SkipOffer, TakeOffer, Replay, FinishFeed,
                  ReadAll, ReadFails, ParseFails
    <2>2. QED
      BY <1>1, <2>1
  <1>4. QED
    BY <1>2, <1>3

\* The steps that end a run, and the one in which it dies.
Ending == NoImplementation \/ SolveThrows \/ NoSolution \/ CyclicSelection \/ DriverFails \/ AllHandled

LEMMA EndingSteps ==
    ASSUME Ending
    PROVE  phase = "solve" /\ phase' = "idle" /\ at' = 0 /\ UNCHANGED <<db, plan, handled, crashed>>
  BY DEF Ending, NoImplementation, SolveThrows, NoSolution, CyclicSelection, DriverFails, AllHandled, End,
         CanSearch, Solving, Handling

LEMMA TypedGrows ==
    ASSUME DOMAIN db \subseteq DOMAIN db', EngineTyped,
           UNCHANGED <<plan, handled, crashed>>, at' = 0 \/ (at' = at /\ phase' = phase)
    PROVE  EngineTyped'
  <1>1. plan \in Seq(DOMAIN db) /\ handled \in Seq([impl : DOMAIN db, requested : BOOLEAN])
    BY DEF EngineTyped
  <1>2. plan \in Seq(DOMAIN db') /\ handled \in Seq([impl : DOMAIN db', requested : BOOLEAN])
    <2> DEFINE A == [impl : DOMAIN db, requested : BOOLEAN]
               B == [impl : DOMAIN db', requested : BOOLEAN]
    <2>1. A \subseteq B
      OBVIOUS
    <2>2. handled \in Seq(A)
      BY <1>1
    <2> HIDE DEF A, B
    <2>3. handled \in Seq(B)
      BY <2>1, <2>2
    <2>4. plan \in Seq(DOMAIN db')
      BY <1>1
    <2>5. QED
      BY <2>3, <2>4 DEF B
  <1>3. Len(plan) \in Nat
    BY <1>1
  <1>4. at' \in 0 .. Len(plan) + 1
    BY <1>3 DEF EngineTyped
  <1>5. QED
    BY <1>2, <1>4 DEF EngineTyped

\* What the solver returns is listed in the plan, and ordered unless that is switched off.
LEMMA SelectPlans ==
    ASSUME TypeOK, OptionsType, Select
    PROVE  /\ ToSet(plan') \in TheModels /\ ToSet(plan') \subseteq DOMAIN db
           /\ Lists(plan', ToSet(plan'))
           /\ options.noOrder \/ ProvidersFirst(db, plan')
  <1>1. PICK sel \in TheModels :
            LET model == InDatabaseOrder(db, sel)
                sorted == TopologicalSort(db, model)
            IN IF options.noOrder THEN plan' = model ELSE ~sorted.cyclic /\ plan' = sorted.order
    BY DEF Select
  <1>2. Len(db) \in Nat /\ DOMAIN db = 1 .. Len(db)
    BY DEF TypeOK
  <1>3. sel \subseteq 1 .. Len(db)
    BY DEF TheModels, Models, Indices
  <1> DEFINE model == InDatabaseOrder(db, sel)
             sorted == TopologicalSort(db, model)
  <1>4. Lists(model, sel)
    BY <1>2, <1>3, AscendingLists DEF InDatabaseOrder
  <1>5. IF options.noOrder THEN plan' = model ELSE ~sorted.cyclic /\ plan' = sorted.order
    BY <1>1
  <1> HIDE DEF model
  <1>6. ~sorted.cyclic => Lists(sorted.order, sel) /\ ProvidersFirst(db, sorted.order)
    BY <1>4, OrderRight
  <1> HIDE DEF sorted
  <1>7. Lists(plan', sel) /\ (options.noOrder \/ ProvidersFirst(db, plan'))
    BY <1>4, <1>5, <1>6
  <1>8. ToSet(plan') = sel
    BY <1>7 DEF Lists
  <1>9. QED
    BY <1>2, <1>3, <1>7, <1>8

LEMMA EngineInvSelect == ASSUME TypeOK, EngineInv, Select PROVE EngineInv'
  <1>1. /\ at = 0 /\ phase = "solve" /\ at' = 1 /\ phase' = "solve" /\ handled = << >>
        /\ UNCHANGED <<db, requests, options, handled, crashed>>
    BY DEF Select, CanSearch, Solving, crawlVars, EngineInv
  <1>2. /\ ToSet(plan') \in TheModels /\ ToSet(plan') \subseteq DOMAIN db
        /\ Lists(plan', ToSet(plan'))
        /\ options.noOrder \/ ProvidersFirst(db, plan')
    BY SelectPlans DEF EngineInv
  <1>3. plan' \in Seq(DOMAIN db) /\ Len(plan') \in Nat
    <2> DEFINE S == ToSet(plan')
               D == DOMAIN db
               q == plan'
    <2>1. q \in Seq(S) /\ Len(q) \in Nat /\ S \subseteq D
      BY <1>2 DEF Lists
    <2> HIDE DEF S, D, q
    <2>2. q \in Seq(D)
      BY <2>1
    <2>3. QED
      BY <2>1, <2>2 DEF D, q
  <1>4. 1 \in 0 .. Len(plan') + 1
    BY <1>3
  <1>5. EngineTyped'
    BY <1>1, <1>3, <1>4 DEF EngineTyped, EngineInv
  <1>6. TheModels' = TheModels
    BY <1>1 DEF TheModels
  <1>7. DOMAIN handled' = 1 .. at' - 1
    <2>1. DOMAIN handled' = {} /\ 1 .. 1 - 1 = {}
      BY <1>1
    <2>2. QED
      BY <1>1, <2>1
  <1>8. PlanFollowed'
    <2>1. \A n \in 1 .. at' - 1 : FALSE
      BY <1>1
    <2>2. ToSet(plan') \in TheModels'
      BY <1>2, <1>6
    <2>3. options'.noOrder \/ ProvidersFirst(db', plan')
      BY <1>1, <1>2
    <2>4. QED
      BY <1>2, <1>7, <2>1, <2>2, <2>3 DEF PlanFollowed
  <1>9. OptionsType'
    BY <1>1 DEF EngineInv, OptionsType
  <1>10. QED
    BY <1>1, <1>5, <1>8, <1>9 DEF EngineInv

LEMMA EngineInvHandle == ASSUME TypeOK, EngineInv, HandleNext PROVE EngineInv'
  <1> DEFINE e == HandledAs(plan[at])
  <1>1. /\ at > 0 /\ at <= Len(plan) /\ phase = "solve" /\ phase' = "solve"
        /\ at' = at + 1 /\ handled' = Append(handled, e)
        /\ UNCHANGED <<db, requests, options, plan, crashed>>
    BY DEF HandleNext, Handling, crawlVars, HandledAs
  <1>2. /\ plan \in Seq(DOMAIN db) /\ Len(plan) \in Nat /\ at \in 0 .. Len(plan) + 1
        /\ handled \in Seq([impl : DOMAIN db, requested : BOOLEAN]) /\ crashed \in BOOLEAN
    BY DEF EngineInv, EngineTyped
  <1>3. PlanFollowed
    BY <1>1 DEF EngineInv
  <1>4. at \in 1 .. Len(plan) /\ plan[at] \in DOMAIN db
    <2>1. at \in 1 .. Len(plan)
      BY <1>1, <1>2
    <2> DEFINE D == DOMAIN db
    <2>2. plan \in Seq(D)
      BY <1>2
    <2> HIDE DEF D
    <2>3. plan[at] \in D
      BY <2>1, <2>2
    <2>4. QED
      BY <2>1, <2>3 DEF D
  <1>5. e \in [impl : DOMAIN db, requested : BOOLEAN]
    <2>1. Requested(plan[at]) \in BOOLEAN
      BY DEF Requested
    <2>2. QED
      BY <1>4, <2>1 DEF HandledAs
  <1> HIDE DEF e
  <1>6. handled' \in Seq([impl : DOMAIN db, requested : BOOLEAN])
    <2> DEFINE R == [impl : DOMAIN db, requested : BOOLEAN]
    <2>1. handled \in Seq(R) /\ e \in R
      BY <1>2, <1>5
    <2> HIDE DEF R
    <2>2. Append(handled, e) \in Seq(R)
      BY <2>1
    <2>3. QED
      BY <1>1, <2>2 DEF R
  <1>7. at + 1 \in 0 .. Len(plan) + 1
    BY <1>2, <1>4
  <1>8. EngineTyped'
    BY <1>1, <1>2, <1>6, <1>7 DEF EngineTyped
  <1>9. /\ Len(handled) = at - 1 /\ DOMAIN Append(handled, e) = 1 .. at
        /\ Append(handled, e)[at] = e
        /\ \A n \in 1 .. at - 1 : Append(handled, e)[n] = handled[n]
    <2> DEFINE R == [impl : DOMAIN db, requested : BOOLEAN]
    <2>1. handled \in Seq(R)
      BY <1>2
    <2> HIDE DEF R
    <2>2. Len(handled) \in Nat /\ DOMAIN handled = 1 .. Len(handled) /\ DOMAIN handled = 1 .. at - 1
      BY <1>3, <2>1 DEF PlanFollowed
    <2>3. Len(handled) = at - 1
      BY <1>4, <2>2
    <2>4. /\ DOMAIN Append(handled, e) = 1 .. Len(handled) + 1
          /\ Append(handled, e)[Len(handled) + 1] = e
          /\ \A n \in 1 .. Len(handled) : Append(handled, e)[n] = handled[n]
      BY <2>1
    <2>5. QED
      BY <1>4, <2>3, <2>4
  <1>10. ASSUME NEW n PROVE HandledAs(plan[n])' = HandledAs(plan[n])
    BY <1>1 DEF HandledAs, Requested
  <1>11. DOMAIN handled' = 1 .. at' - 1
    BY <1>1, <1>4, <1>9
  <1>12. ASSUME NEW n \in 1 .. at' - 1 PROVE handled'[n] = HandledAs(plan[n])'
    <2>1. n \in 1 .. at - 1 \/ n = at
      BY <1>1, <1>4
    <2>2. CASE n = at
      <3>1. handled'[n] = e
        BY <1>1, <1>9, <2>2
      <3>2. QED
        BY <1>1, <1>10, <2>2, <3>1 DEF e
    <2>3. CASE n \in 1 .. at - 1
      <3>1. handled'[n] = handled[n]
        BY <1>1, <1>9, <2>3
      <3>2. handled[n] = HandledAs(plan[n])
        BY <1>3, <2>3 DEF PlanFollowed
      <3>3. QED
        BY <1>1, <1>10, <3>1, <3>2
    <2>4. QED
      BY <2>1, <2>2, <2>3
  <1>13. PlanFollowed'
    <2>1. ToSet(plan') \in TheModels'
      BY <1>1, <1>3 DEF PlanFollowed, TheModels
    <2>2. Lists(plan', ToSet(plan'))
      BY <1>1, <1>3 DEF PlanFollowed
    <2>3. options'.noOrder \/ ProvidersFirst(db', plan')
      BY <1>1, <1>3 DEF PlanFollowed
    <2>4. QED
      BY <1>11, <1>12, <2>1, <2>2, <2>3 DEF PlanFollowed
  <1>14. at' # 0
    BY <1>1, <1>4
  <1>15. OptionsType'
    BY <1>1 DEF EngineInv, OptionsType
  <1>16. QED
    BY <1>8, <1>13, <1>14, <1>15 DEF EngineInv

LEMMA EngineInvNext == TypeOK /\ EngineInv /\ [EngineNext]_vars => EngineInv'
  <1> SUFFICES ASSUME TypeOK, EngineInv, [EngineNext]_vars PROVE EngineInv'
    OBVIOUS
  <1>1. OptionsType'
    BY OptionsStay DEF EngineInv
  <1>2. OptionsType /\ EngineTyped
    BY DEF EngineInv
  <1>3. CASE EngineClient
    <2>1. /\ phase = "idle" /\ UNCHANGED <<db, at, crashed>>
          /\ \/ phase' = "idle" /\ UNCHANGED <<plan, handled>>
             \/ phase' = "fetch" /\ plan' = << >> /\ handled' = << >>
      BY <1>3, ClientSteps
    <2>2. at = 0
      <3>1. at \in Int /\ ~(at > 0) /\ at >= 0
        <4>1. Len(plan) \in Nat
          BY <1>2 DEF EngineTyped
        <4>2. QED
          BY <1>2, <2>1, <4>1 DEF EngineTyped
      <3>2. QED
        BY <3>1
    <2>3. CASE phase' = "idle" /\ UNCHANGED <<plan, handled>>
      <3>1. EngineTyped'
        BY <1>2, <2>1, <2>2, <2>3 DEF EngineTyped
      <3>2. QED
        BY <1>1, <2>1, <2>2, <2>3, <3>1 DEF EngineInv
    <2>4. CASE phase' = "fetch" /\ plan' = << >> /\ handled' = << >>
      <3>1. crashed' \in BOOLEAN /\ at' = 0
        BY <1>2, <2>1, <2>2 DEF EngineTyped
      <3>2. EngineTyped'
        BY <2>4, <3>1 DEF EngineTyped
      <3>3. QED
        BY <1>1, <2>4, <3>1, <3>2 DEF EngineInv
    <2>5. QED
      BY <2>1, <2>3, <2>4
  <1>4. CASE Reading
    <2>1. phase # "idle" /\ phase # "solve" /\ UNCHANGED engineVars /\ DOMAIN db \subseteq DOMAIN db'
      BY <1>4, ReadingSteps
    <2>2. at = 0
      <3>1. Len(plan) \in Nat
        BY <1>2 DEF EngineTyped
      <3>2. QED
        BY <1>2, <2>1, <3>1 DEF EngineTyped
    <2>3. handled = << >> /\ UNCHANGED <<plan, at, handled, crashed>>
      BY <2>1, <2>2 DEF EngineInv, engineVars
    <2>4. EngineTyped'
      BY <1>2, <2>1, <2>2, <2>3, TypedGrows
    <2>5. QED
      BY <1>1, <2>2, <2>3, <2>4 DEF EngineInv
  <1>5. CASE Ending
    <2>1. phase' = "idle" /\ at' = 0 /\ UNCHANGED <<db, plan, handled, crashed>>
      BY <1>5, EndingSteps
    <2>2. EngineTyped'
      BY <1>2, <2>1, TypedGrows
    <2>3. QED
      BY <1>1, <2>1, <2>2 DEF EngineInv
  <1>6. CASE Crash
    <2>1. crashed' = TRUE /\ UNCHANGED <<crawlVars, options, plan, at, handled>>
      BY <1>6 DEF Crash
    <2>2. UNCHANGED <<db, phase, requests, options, plan, at, handled>>
      BY <2>1 DEF crawlVars
    <2>3. EngineTyped'
      BY <1>2, <2>1, <2>2 DEF EngineTyped
    <2>4. at = 0
      BY <1>6 DEF Crash, Solving
    <2>5. QED
      BY <1>1, <2>2, <2>3, <2>4 DEF EngineInv
  <1>7. CASE Select
    BY <1>7, EngineInvSelect
  <1>8. CASE HandleNext
    BY <1>8, EngineInvHandle
  <1>9. CASE UNCHANGED vars
    <2>1. UNCHANGED <<db, phase, requests, options, plan, at, handled, crashed>>
      BY <1>9 DEF vars, crawlVars, engineVars
    <2>2. EngineTyped'
      BY <1>2, <2>1 DEF EngineTyped
    <2>3. PlanFollowed' = PlanFollowed
      BY <2>1 DEF PlanFollowed, TheModels, HandledAs, Requested
    <2>4. QED
      BY <1>1, <2>1, <2>2, <2>3 DEF EngineInv
  <1>10. QED
    BY <1>3, <1>4, <1>5, <1>6, <1>7, <1>8, <1>9 DEF EngineNext, Concluding, Ending

LEMMA EngineInvariant == EngineSpec => []TypeOK /\ []EngineInv
  <1>1. EngineSpec => []TypeOK
    BY EngineImplementsCrawl, TypeCorrect, PTL DEF ImplementsCrawl
  <1>2. QED
    BY <1>1, EngineInvInit, EngineInvNext, PTL DEF EngineSpec

\* Queue, database, plan and position fit together at every point of every run.
THEOREM EngineTypeCorrect == EngineSpec => []EngineTypeOK
  <1>1. TypeOK /\ EngineInv => EngineTypeOK
    BY DEF EngineInv, OptionsType, EngineTyped, EngineTypeOK
  <1>2. QED
    BY <1>1, EngineInvariant, PTL

\* What is handled is a consistent selection, to the end (solve.cpp:129-156).
THEOREM PlanConsistent == EngineSpec => []SelectionConsistent
  <1>1. TypeOK /\ EngineInv /\ Contiguous => SelectionConsistent
    <2> SUFFICES ASSUME TypeOK, EngineInv, Contiguous, Canonical, at > 0
                 PROVE  Consistent(db, ToSet(plan), requests, options.ignoreSource)
      BY DEF SelectionConsistent
    <2>1. ToSet(plan) \in TheModels /\ OptionsType
      BY DEF EngineInv, PlanFollowed
    <2>2. QED
      BY <2>1, ModelsConsistent
  <1>2. EngineSpec => []Contiguous
    BY EngineImplementsCrawl, DatabaseContiguous, PTL DEF ImplementsCrawl
  <1>3. QED
    BY <1>1, <1>2, EngineInvariant, PTL

\* Whatever an implementation depends on has been handled when its turn comes, in
\* every order that the search may find, and no turn comes twice (graph.cpp:20-58,
\* engine.cpp:156-182).
THEOREM ProvidersHandledFirst == EngineSpec => []DependenciesFirst
  <1>1. TypeOK /\ EngineInv => DependenciesFirst
    <2> SUFFICES ASSUME TypeOK, EngineInv, at > 0 PROVE DependenciesFirst
      BY DEF DependenciesFirst
    <2>1. /\ DOMAIN handled = 1 .. at - 1 /\ Lists(plan, ToSet(plan))
          /\ \A k \in 1 .. at - 1 : handled[k] = HandledAs(plan[k])
      BY DEF EngineInv, PlanFollowed
    <2>2. at \in 0 .. Len(plan) + 1 /\ Len(plan) \in Nat
      BY DEF EngineInv, EngineTyped
    <2>3. \A k \in 1 .. at - 1 : handled[k].impl = plan[k] /\ k \in 1 .. Len(plan)
      BY <2>1, <2>2 DEF HandledAs
    <2>4. \A m, n \in DOMAIN handled : handled[m].impl = handled[n].impl => m = n
      BY <2>1, <2>3 DEF Lists
    <2>5. ASSUME ~options.noOrder, NEW n \in DOMAIN handled, NEW i \in ToSet(plan),
                 DependsOn(db, handled[n].impl, i)
          PROVE  \E m \in 1 .. n - 1 : handled[m].impl = i
      <3>1. ProvidersFirst(db, plan)
        BY <2>5 DEF EngineInv, PlanFollowed
      <3>2. n \in 1 .. at - 1 /\ n \in 1 .. Len(plan)
        BY <2>1, <2>3
      <3>3. DependsOn(db, plan[n], i)
        BY <2>3, <2>5, <3>2
      <3>4. PICK m \in 1 .. n - 1 : plan[m] = i
        BY <2>1, <3>1, <3>2, <3>3 DEF ProvidersFirst
      <3>5. m \in 1 .. at - 1
        BY <2>2, <3>2
      <3>6. QED
        BY <2>3, <3>4, <3>5
    <2>6. QED
      BY <2>4, <2>5 DEF DependenciesFirst
  <1>2. QED
    BY <1>1, EngineInvariant, PTL

\* The verdict "ok" comes from one step only.
LEMMA WhoSaysOk ==
    ASSUME [EngineNext]_vars, result' = "ok", phase # "idle", phase' = "idle"
    PROVE  AllHandled
  <1>1. ~EngineClient
    BY DEF EngineClient, AddDriver, AddRequest, SetOption, StartRun, Run
  <1>2. ~Reading
    BY DEF Reading, Crawling, ReadFeed, SkipOffer, TakeOffer, Replay, AddImplementation, FinishFeed,
           ReadAll, ReadFails, ParseFails
  <1>3. ~UNCHANGED vars
    BY DEF vars, crawlVars
  <1>4. ~(Crash \/ Select \/ HandleNext \/ SolveThrows \/ CyclicSelection \/ DriverFails
            \/ NoImplementation \/ NoSolution)
    BY DEF Crash, Select, HandleNext, SolveThrows, CyclicSelection, DriverFails, NoImplementation,
           NoSolution, CanSearch, Solving, Handling, End, crawlVars
  <1>5. QED
    BY <1>1, <1>2, <1>3, <1>4 DEF EngineNext, Concluding

LEMMA OkStep ==
    ASSUME TypeOK, EngineInv, AllHandled, NEW n \in DOMAIN requests
    PROVE  \E h \in ToSet(handled) : h.requested /\ Satisfies(db[h.impl], requests[n])
  <1>1. at > 0 /\ at = Len(plan) + 1 /\ PlanFollowed
    BY DEF AllHandled, Handling, EngineInv
  <1>2. Len(plan) \in Nat /\ Len(db) \in Nat
    BY DEF EngineInv, EngineTyped, TypeOK
  <1>3. at - 1 = Len(plan)
    BY <1>1, <1>2
  <1>4. /\ ToSet(plan) = {plan[k] : k \in 1 .. Len(plan)} /\ DOMAIN handled = 1 .. Len(plan)
        /\ \A k \in 1 .. Len(plan) : handled[k] = HandledAs(plan[k])
    BY <1>1, <1>3 DEF PlanFollowed, Lists, ToSet
  <1>5. Providers(db, requests[n]) \in Clauses(db, requests, options.ignoreSource)
    BY DEF Clauses, RequestClauses, ToSet
  <1>6. Holds(ToSet(plan), Providers(db, requests[n]))
    BY <1>1, <1>5 DEF PlanFollowed, TheModels, Models
  <1>7. PICK i \in ToSet(plan) : i \in Providers(db, requests[n])
    BY <1>2, <1>6, PositiveClause
  <1>8. Satisfies(db[i], requests[n]) /\ Requested(i)
    BY <1>7 DEF Providers, Requested
  <1>9. PICK k \in 1 .. Len(plan) : plan[k] = i
    BY <1>4, <1>7
  <1>10. handled[k] \in ToSet(handled)
    BY <1>4, <1>9 DEF ToSet
  <1>11. handled[k].impl = i /\ handled[k].requested
    BY <1>4, <1>8, <1>9 DEF HandledAs
  <1>12. QED
    BY <1>8, <1>10, <1>11

\* A run that reports success has handled something for every request and marked it as
\* requested, whatever the feeds call themselves (engine.cpp:155-182).
THEOREM SuccessProved == EngineSpec => SuccessServesRequests
  <1>1. TypeOK /\ EngineInv /\ [EngineNext]_vars =>
          [(result' = "ok" /\ phase # "idle" /\ phase' = "idle") =>
              \A n \in DOMAIN requests :
                  \E h \in ToSet(handled) : h.requested /\ Satisfies(db[h.impl], requests[n])]_vars
    BY WhoSaysOk, OkStep
  <1>2. QED
    BY <1>1, EngineInvariant, PTL DEF EngineSpec, SuccessServesRequests
=============================================================================
