# Karrot in TLA+

Karrot is a package manager library. A client asks for projects by url; Karrot
downloads the *feeds* of those projects and of everything they depend on, turns
them into a database of *implementations* (source builds and packages), lets a SAT
solver select a consistent set of them, orders the set, and has *drivers* check out,
download or install each of them. This directory holds a model of the library in
TLA+, from the tokens of a feed and the files of the cache to the calls of the
drivers; the TLC configurations that check it on small instances; and proofs, for
instances of any size, about the crawl, the parser, the clauses, the hash tables, the
engine, the sort, the SAT solver, the drivers and the files of the cache.

Source paths below are those of the repository (`src/engine.cpp` is the library,
`include/karrot.h` its C interface, `example/` a client).

## 1. Inventory

| Component | Source | State | Operations | What makes it correct |
|---|---|---|---|---|
| engine | `src/engine.cpp` | queue, drivers, requests, database, options, error text | add driver, add request, set option, run | a run ends and its result (0, 1, -1) is right; a failed run leaves an engine that can be run again |
| feed queue | `src/feed_queue.hpp` | `urls`, `next` | `push`, `current_id`, `get_next` | no feed twice; every feed that becomes known is read |
| feed parser | `src/feed_parser.cpp`, `src/package.hpp` | specification, releases, variants, components of one feed | parse the sections, add implementations | the database is what the feed says, or the feed is refused for a reason |
| XML reader | `src/xml_reader.cpp` | cursor, open tags, namespaces | next element, skip, attributes | the reader and the loops of the parser stay in step |
| dependencies | `src/dependencies.{hpp,cpp}` | recorded entries | record while parsing, replay per implementation | replay follows the nesting of if/elseif/else and queues what it collects |
| query language | `src/query.cpp` | postfix code | translate, evaluate | precedence; bounded stacks |
| specification | `src/spec.hpp`, `resolve_uri` of `src/url.cpp` | none | resolve a reference, parse an address | a dependency names the feed, query and component its reference means |
| interning, hashing | `src/quark.cpp`, `src/hash.hpp` | string space, index, open-addressing table | intern, look up, grow | equal strings have equal quarks; probes end and miss nothing |
| problem construction | `src/solve.cpp` | none | clauses, assumptions, preferences | the models of the clauses are the consistent selections |
| SAT solver | `src/minisat/Solver.cpp` | clauses, trail, levels, reasons, watches | add clause, propagate, analyse, backjump, restart, reduce | sound, complete, terminating |
| decision order | `src/minisat/VarOrder.h` | stack of variables | `select`, `undo` | no variable is forgotten; what is wanted least is refused first |
| ordering | `src/graph.cpp` | none | topological sort (Boost) | providers come before dependants; cycles are reported |
| drivers | `src/driver.hpp`, `src/package_handler.hpp` | the registered drivers, in a vector | add, get, filter, download | the first of a name is found; each target destroyed once; pointers into the vector |
| versions, variants | `src/vercmp.cpp`, `src/variants.cpp` | none | compare, enumerate | a strict weak order; each combination once |
| download and cache | `src/url_curl.cpp`, `src/url_win32.cpp`, `src/url.cpp` | files | download unless cached | a file in the cache is a whole feed of that url |
| log, errors, version | `src/log.hpp`, `src/error.cpp`, ... | none | | |

How they interact. The library runs in the caller's thread; what is hard inside it is
not concurrency but *re-entrance and history*:

* the parser pushes into the queue that drives the loop that runs the parser, so the
  loop finds its own work, and a feed's query, driver set and id are those of the
  moment it was taken;
* an exception can leave the engine between any two pushes or appends, nothing is
  rolled back, and the client may add drivers or requests and run again;
* the parser is a nest of loops over one reader that has no notion of nesting: what
  one loop leaves unread, or reads too much, the next one sees;
* `solve.cpp` relies on an order of the database that only the crawl establishes;
* the solver keeps one trail, a stack of variables and pointers into clauses that
  are freed under it, and its answer must not depend on any of it;
* implementations keep pointers into the vector of drivers, which moves when it grows;
* drivers are called back and may fail in the middle of the plan.

Between processes there is one thing shared, the cache of feeds, and there the
concurrency is: files are written under their final name, without locks, and are
trusted if they exist.

Every hazard of this kind is listed in `PROJECT.json` at the line where it bites,
with the properties that watch it.

## 2. The modules

```
XmlReader ─┐              ┌─ MCFeed        FeedCache ─┐
           ├─ FeedParser ─┤                           ├─ Session ─┬─ MCSession
Dependencies              └─ ParserProofs  Drivers ───┘           └─ SessionProofs

Resolve ─┬─ Crawl ───┬── Engine ─┬─ MCEngine           Worklist ◁ (Crawl refines)
         │           │           └─ EngineProofs
         │           ├── CrawlProofs ──┘ │
         │           └── MCDocuments ── MCCrawl
         ├─ TopoSort ─── ResolveProofs ──┘      (Engine uses TopoSort)
         └─ SolverInput ─┐           │
                         ├─ Solve ─┬─│── MCSolve
             Solver ─────┤         └─┴── SolverProofs
                         └─ MCSolver ─── MCSolve

Hash ─── Lookup ─┬─ MCLookup ──────── MCFunctions
                 └─ LookupProofs

Satisfiability ◁ (Solver refines)
Query, VerCmp, Url, TopoSort ── MCFunctions
Recursion: used by all the proofs
```

What happens to a request, in the order in which it happens:

* **FeedCache** (`url_curl.cpp`). The cache directory maps names to inodes, so that a
  process goes on writing to a file another one has truncated or removed. Every call of
  `download` is a process with a program counter: `Request`, the look at the directory,
  opening (which truncates), piece by piece, and the removal by name if the transfer
  fails. Error pages of a server are stored like feeds; a full disk goes unnoticed, as
  `write_fun` always claims success; a process may be killed at any point; the server
  may publish a new edition.
* **XmlReader** (`xml_reader.cpp`). The file is a sequence of tokens (a start tag with its
  attributes, an empty element, end tag, text, comment, instruction, garbage). A comment or
  a quoted value without its end is a token of its own kind, the last of its file: at it
  the reader throws nothing but runs out of its buffer (section 4).
  `StartElement`, `Skip`, attributes and namespace scopes as operators on the reader's
  record, reading one token too many where the code does.
* **Dependencies** (`dependencies.{hpp,cpp}`). Recording, in which an `else` overwrites the
  last entry, and replay with its stack of tribools.
* **FeedParser** (`feed_parser.cpp`, `package.hpp`). The nested loops of the parser as a
  stack of frames: `Leave` ends the innermost loop, every other action is one turn of it.
  Its outcome is the database, an exception, or undefined behaviour; `Refusal` tells the
  last two apart where the reader gives up.
* **Resolve** (`solve.cpp`, `solve.hpp`; no state). `Satisfies`, the five families of
  clauses, and `Consistent`, which says what a selection ought to be without clauses
  or positions. `Reached` is the inner loop of `implicit_conflict_clauses` with its
  early `break`. A query is the pair of the builds it accepts and the builds on which
  evaluating it throws.
* **Crawl** (`feed_queue.hpp`, the read loop of `engine.cpp`, and what parser and
  dependencies do to the queue). `urls` and `next` are the queue, `parser` the
  `FeedParser` on the stack of `engine_run`, `db` the database. `ReadFeed` is one turn of
  the loop up to the head of `parse` (with `current_id`); `SkipOffer`/`TakeOffer` decide
  about a build or package, `Replay` is one recorded entry (with its push),
  `AddImplementation` the append. `ReadFails` and `ParseFails` are the exceptions,
  possible between any two of these. The client's calls are actions of phase `"idle"`.
  **Worklist** is what the queue promises, without queue or order: an id waits only if no
  entry has it, waiting or taken, and what is taken keeps its id or gets the one the feed
  gives itself.
* **Engine** (`engine.cpp`). Replaces the last step of Crawl by what happens in it:
  the loop over the requests with its two early exits, throwing queries, the crash on
  an empty table, no solution, the selection, the sort or its exception, and the
  drivers one by one. Here the solver is its contract: any model of the clauses.
* **SolverInput**: how `solve.cpp` fills in a problem (assumptions, clauses,
  preferences, and the hash lookups behind them).
* **Solver** (`minisat/Solver.cpp`, `minisat/VarOrder.h`). Trail, levels, reasons, the
  stack of variables; adding clauses, propagation, first-UIP analysis, minimization,
  backjump, learning, restart, simplification and reduction, assumptions.
  **Satisfiability** is the contract it implements.
* **Solve** (`solve.cpp` around the solver). Which problem is posed for a database and its
  requests, and what the answer means: `Poses` relates the two, `SelectionRight` reads the
  answer back in terms of `Consistent`.
* **TopoSort** (`graph.cpp`). The graph of a selection and Boost's depth-first search,
  as recursive functions: `Meet` is an edge by the colour of its end, `Visited` a vertex
  with its edges in order, `Visits` the function of a vertex and the state of the search
  that `Visited` defines through itself, `DepthFirst` the loop over the white vertices.
* **Drivers** (`driver.hpp`, `package_handler.hpp`). The vector with its capacity; a
  reallocation moves every driver (constructor, then destructor of what was moved from)
  into a new block, and a pointer is a block with a place in it. `destroyed` counts what
  was destroyed of every target.
* **Session** composes FeedCache and Drivers into the life of an engine among other
  processes: its client adds drivers and runs it, a run reads feeds through the shared
  cache and gives each package a pointer to its driver, handling calls through these
  pointers; it is freed, killed, and another one started.
* **Hash** (`hash.hpp`) has the open hash table and its two users as operators: how many
  slots a size needs, the probes of a hash value, what a loop over them meets, and whether
  it ends. **Lookup** (`quark.cpp`, `solve.cpp`) is the two users at work: `Intern` is a call
  of `to_quark` on the table that lives as long as the process, `Index` the table `solve`
  makes of its database. `given` remembers which quarks were returned for a name.
* **Query** (`query.cpp`), **VerCmp** (`vercmp.cpp`), **Url** (`url.cpp`, `spec.hpp`): pure functions.
* `*Proofs`: theorems (section 5), and **Recursion**, what they need to follow a recursive
  function from one number to the next. `MC*`: instances for TLC, and reference definitions
  to compare with. **MCDocuments** has the constructors for small networks.

Definitions marked "mutant of X" are X with a plausible mistake. They are used by no
specification; exchanging X for them makes the property that watches X fail, which
shows that the property depends on the code.

### What is abstracted

* The same thing is modelled at the level at which it matters. In Crawl and Engine a
  *document* is what a feed says once it is read, and if/elseif/else around an entry the
  set `when` of builds for which replay reaches it; FeedParser and Dependencies say how
  it gets there. In Session a feed is a list of types of packages; whether its bytes are
  whole comes from FeedCache.
* `filter` of a driver is external: what it reports is in the document's offers, or the
  constant `Filter`. Hash values are given.
* Characters are grouped into tokens before XmlReader and Query; the lexers are generated
  from `*_re2c.in.hpp`. VerCmp and Url work on characters.
* Watch lists and activities of the solver: where the code visits watchers, the model
  takes any clause that is unit or false; where it compares activities, any clause that
  may be dropped can be. `analyzeFinal` computes a clause nobody reads.
* Options for the log and the dot file change no state that the properties mention.

## 3. What is checked

Deadlock is checked nowhere but in `crawl`: elsewhere the system may stop (the client
has no call left, the solver has answered, the feed is read, the process has died, the
result is there). In `crawl` the client can always add a driver again.

| Run | Instance | Properties |
|---|---|---|
| `crawl` | two networks of three urls, two versions, two drivers: cyclic dependencies with throwing and partial queries; a feed under two urls. 2 requests, 2 runs, 1 fault | `TypeOK`; `QueueDistinct`; `Contiguous`: implementations of a project are neighbours; `ClosedUnderDependencies`: all feeds were taken before solving; `DatabaseExact`: the database is what the feeds yield, stated at once; `CrawlEnds`; `QueueIsWorklist` (refinement) |
| `engine` | four networks (sources and packages; exclusions; a cycle; throwing queries), both options, 2 requests, 2 runs, 1 fault | `EngineTypeOK`; `SelectionConsistent`; `DependenciesFirst`; `SuccessServesRequests`; `UnsatisfiableIsRight`; `ImplementsCrawl` (refinement); `RunEnds` |
| `functions` | all 65536 graphs of four vertices; tests of every operator, deep trees over one operator of each level, and all sequences of up to five tokens; versions of up to four characters; references of five forms, with marks of every kind in query and component. Beside them the tables: eight words, and databases of up to eight entries, with two hash values in every distribution | `EdgesRespected`, `CyclesReported`; `QueryMeaning`, `StacksBounded`; `VersionsOrdered`; `LinksResolve`; `LookupExact` |
| `parse` | feeds written as trees, laid out in several ways, cut off and garbled at every token, also by a comment or a quoted value that does not end | `ReadAsWritten`: the database is what the tree says; `RefusedForCause`; `PositionKept`; `BrokenFeedsAddPackages`; `EveryTurnReadsOn`: a measure of what is left decreases with every turn of a loop |
| `session` | the engine's process and another one, one url whose feed has two editions of two pieces and one, four registrations of two drivers, 2 runs, 1 fault | `SettledFilesWhole`; `TargetsOwnedOnce`; `FirstRegisteredHandles`; `DanglingNeedsLateDriver`; `RunsEnd` |
| `solver` | ten problems that force learnt clauses of three literals, minimization, long backjumps, restarts, units above assumptions and dropped clauses | `SolverTypeOK`; `NoneForgotten`; `ReasonsSupported`; `LearntAsserts`; `LearntImplied`; `AnswersAsPromised` (refinement); `SolverEnds` |
| `solve` | nine cases on four databases in every order the preferences allow; a tenth, on a fifth database, in one order; every problem of a request, three dependencies and a conflict about three implementations; and the problems of `solver` | `SelectionRight`: the answer in terms of `Consistent`; `SourcesAvoided` |
| `renamed`, `filtered`, `source`, `barren`, `prefer` | one network or database each | one property each that the code does not have (section 4) |

What the less obvious of them say:

* `ReadAsWritten` compares the parser, token by token and frame by frame, with a
  definition on the tree of the feed: every release in every variant that is wanted,
  every package with the fields it inherits, each with the dependencies of the branches
  that hold for it. `PositionKept` is why it holds: between two turns of a loop the open
  tags are those of the loops on the stack.
* `EveryTurnReadsOn` is an action property, not a liveness property: `Unread`, twice the
  tokens that are left plus the loops the parser is in, decreases with every step after
  which it goes on. So a file whose comments and quoted values end (section 4) is read to an
  end without an assumption of fairness, broken off or garbled, also
  where `start_element` returns at once at an empty element.
* `LookupExact` is about both tables while they grow. Of the words it says that interning
  one ends, that it has one quark for good, and that the quark is turned back into it; of a
  database that a lookup ends, also of a project that is not there, and sees every
  implementation of the project. In the run new words are interned in one order, as their
  hash values have all distributions, and a process interns or solves, as the two tables have
  nothing in common; the theorem is about all orders.
* `StacksBounded` bounds the operator stack of `query.cpp` by the depth of the parentheses.
* `SettledFilesWhole` lists what a file of the cache may be other than a whole feed, and
  so says that nothing else can happen: the page of an error, what a killed process or a
  full disk left behind, and a file two processes wrote at once while the feed changed, or
  for two urls that share it (`Unsettled`).
* `DanglingNeedsLateDriver`: the call through a pointer into a vector that has moved is
  possible, but only if a driver is added between two runs of one engine.

Bounds, and why they are enough.
`MaxRequests`, `MaxRuns`, `MaxFaults`: a second request, a second run and one fault make every
interleaving of a push, an append, a failure and a rerun happen; the theorems of section 5
hold without them.
Three projects allow a cycle through a third feed and an alias.
`ConflictLimit` is the 100 of `Solver::solve`; 2 makes restarts happen on small
problems. `LearntLimit` stands for a third of the number of clauses; it is an
integer because `learnts.size() - nAssigns()` is, and a negative value makes reduction
happen although the trail of a small problem is always longer than the list of learnt
clauses. Its growth by a tenth per restart is left out, which only allows more
reductions. Four vertices suffice for a diamond, a cycle behind a tail, and self-loops.
Two hash values, one on the probe sequence of the other, give every kind of collision, and
eight entries make both tables grow. Three path segments distinguish the last slash of an
address from the first. In `session` two pieces are the least with a middle in which a
transfer can break; an edition that is shorter than the one before is needed for a
tail of the old one to survive; four registrations move the vector twice (from one
place to two, and to four) and register each name twice; two processes make every race the
cache has between a writer and a reader, two writers, and a writer and a remover.

Fairness. `FairSpec` of Crawl, `FairEngineSpec`, and `FairSpec` of Solver and Session
assume weak fairness of the engine's own steps taken together: `k_engine_run` is a
loop in one thread that does nothing else. In Session these steps include the
server's: it goes on sending or the connection breaks. The code sets no timeout for curl,
so without that a run may wait for ever. No step of the client, of another process, and
no fault is ever assumed to happen, and no fairness between alternatives is assumed: which
clause is propagated or dropped is up to the adversary.

## 4. Where the code departs from what is said of it

* **renamed** - `ComplementOrConflict`. A document may claim another url than the one
  it was read under; `current_id` then files it under the claimed one. If both urls are
  depended on, the feed is read twice and other implementations may lie between
  its own. `implicit_conflict_clauses` stops at the first other project, so two
  versions of one project are handled in one run (`solve.cpp:129,142`).
* **filtered** - `NotSatisfiable`. `parse_build` evaluates the query of whoever pushed
  the feed first. Another dependant with another query finds its source build
  missing, and the client is told that the request is not satisfiable
  (`feed_parser.cpp:149`, `example/karrot.cpp:158`).
* **source** - `SourceRequestsGetSource`. A request limited to source is served by a
  package for all components (`solve.hpp:27`, `karrot.h:133`).
* **barren** - `MissingIsReported`. Nothing is allocated for an empty database, and
  looking up the first request dereferences a null pointer (`hash.hpp:31`,
  `solve.cpp:37,220`).
* **prefer** - `BinaryPreferred`. `VarOrder::undo` pushes also variables that were only
  propagated, above less preferred ones that are undecided. Binary packages are
  preferred only up to the first backjump; what remains true, as long as no clause is
  dropped, is `SourcesAvoided`: if nothing need be built from source, nothing is.

`SourcesAvoided` is checked while nothing has been dropped, and there is a reason. Its proof
would go by the clauses that made the solver leave what it preferred, and these may be
dropped; an attempt at it led to a database (`Forgetful` of MCSolve) on which the model, if
it may drop clauses from the start, goes back to a source build that it had left for good
reason. Whether the thresholds of the code ever let it drop a clause on a problem on
which that matters is open, so no finding is claimed.

`Canonical` (no document claims another url) is therefore a premise of several
properties: without it they are false, as `renamed` shows. Other premises name what the
code does not cope with and no text in the repository says it should:

* `Separated`: `XmlReader::skip` reads one token beyond the element it skips. If a start
  tag follows an end tag with nothing in between, its element is lost. Files with text or
  a line break between the tags are read correctly.
* `Orphaned`: an `else` or `elseif` that follows no branch overwrites whatever entry was
  recorded last, or writes to an empty list (`dependencies.hpp:33`).
* `BrokenFeedsAddPackages` is about packages only: a build section that breaks off leaves
  source builds with fewer dependencies.
* `LookupExact` allows an entry to be met twice: in a table of eight slots the second
  probe is the third. A request with one provider then becomes a clause with the same
  literal twice instead of an assumption, and is logged as ambiguous; the selection is the
  same (`SelectionRight`).
* A comment without `-->`, or a quoted value without its closing quote, is no error: the
  scanner has no check for the end of its buffer there and reads what lies behind it
  (`xml_re2c.in.hpp:82,119-132`). That `-->` ends no comment if an odd number of hyphens
  stands right before it is a case of this, as the scanner takes hyphens in pairs. The
  parser is then "undefined", and nothing is claimed of what follows: neither that reading
  ends (`EveryTurnReadsOn`) nor what is added (`BrokenFeedsAddPackages`). Crawl and Session
  know only feeds that are read to an end or throw.
* `LinksResolve` has two premises, and excludes the other references of its run by them: a
  reference that is no address has no `://` anywhere, as the code takes it for one even if
  the mark belongs to the query (`url.cpp:46`); and one that begins in the folder of the
  feed belongs to an address with a path (`url.cpp:67`). Dot segments mean nothing to the
  code (the TODO at `url.cpp:66`): the property says that `..` stays in the address like
  any other segment, which is not what the writer of a feed may expect.
* In `query.cpp` blanks are part of identifiers, and a bare word to the right of an
  operator is never looked up as a variable. Query models it so; `QueryMeaning` is about
  what the operators do.
* Two addresses that differ in the scheme only, or in `/` against `-`, share a file of
  the cache (`url.cpp:28`). FeedCache takes file names as a constant that may map two urls
  to one name, and `SettledFilesWhole` counts such a file as whole if it is an edition of
  either feed, and as unsettled if two processes wrote it at a time.

## 5. What is proved

All by TLAPS, for all values of the constants: any number of feeds, drivers, requests, runs
and failures, any database, any clauses, any graph, any number of processes. The
assumptions are the named ones of the modules (`CrawlAssumption`, `SolverAssumption`,
`CasesAssumption`, `SessionAssumption`, `CacheAssumption`, `FeedAssumption` and
`LookupAssumption`), which say that the constants
are well-typed, that the problems are those of `ProblemShape`, and that the implementations
of a project are neighbours in the database; the last is what `DatabaseContiguous` proves
of the crawl. TLC evaluates them in the runs.

| Module | Theorem | Says |
|---|---|---|
| CrawlProofs | `TypeCorrect`, `QueueStaysDistinct`, `DatabaseContiguous`, `DatabaseClosed` | `TypeOK`, `QueueDistinct`, `Contiguous`, `ClosedUnderDependencies` always |
| | `DatabaseFollowsQueue` | `QueueOrder` always: the strengthening behind contiguity |
| | `DatabaseAsOffered` | `DatabaseExact` always |
| | `QueueImplementsWorklist` | the crawl, with renames and failures, is a behaviour of Worklist: at most once while documents go by their urls. That what waits is read in the end is no part of it |
| ParserProofs | `PlaceKept` | `PositionKept` always |
| | `ReadingEnds` | every step of the parser is one of `EveryTurnReadsOn`, whatever the file, if its comments and quoted values end |
| ResolveProofs | `ConsistentIsModel`, `ModelIsConsistent` | the models of the clauses of `solve.cpp` are the consistent selections, if the implementations of a project are neighbours (needed for the second only) |
| | `CycleReported` | on every graph the search ends, reports a cycle if and only if there is one, and otherwise puts out every vertex once, behind all its successors |
| | `OrderRight` | a selection is refused if and only if some of it depends on itself in a circle; otherwise every member comes once and behind what it depends on |
| EngineProofs | `EngineImplementsCrawl` | every behaviour of the engine is one of the crawl |
| | `SelectionsConsistent` | whichever model the solver returns to the engine is consistent |
| | `EngineTypeCorrect`, `PlanConsistent`, `ProvidersHandledFirst` | `EngineTypeOK`, `SelectionConsistent`, `DependenciesFirst` always |
| | `SuccessProved`, `UnsatisfiableProved` | `SuccessServesRequests`, `UnsatisfiableIsRight` always |
| SolverProofs | `NothingForgotten` | `NoneForgotten` always |
| | `ModelsSolve` | a model that is reported gives every variable a value and has a literal of every clause and every assumption |
| | `SolverTypeCorrect`, `ReasonsAlwaysSupported`, `ConflictsAssert`, `LearntAlwaysImplied` | `SolverTypeOK`, `ReasonsSupported`, `LearntAsserts`, `LearntImplied` always |
| | `AnswersRight` | the solver is a behaviour of Satisfiability: its models solve the problem, and "unsatisfiable" is true |
| | `SelectionsRight` | `SelectionRight` always: the engine is told a consistent selection, or that there is none, and both are true |
| LookupProofs | `LookupsExact` | `LookupExact` always |
| SessionProofs | `TargetsHaveOneOwner`, `FirstDriverHandles`, `DanglingPointersExplained` | `TargetsOwnedOnce`, `FirstRegisteredHandles`, `DanglingNeedsLateDriver` always |
| | `SettledFilesAreWhole` | `SettledFilesWhole` always |

Together they reach from a request to the drivers: the crawl leaves a closed and contiguous
database, with nothing in it but what the feeds offer (CrawlProofs, and ParserProofs for
how a feed is read); for such a database the clauses mean what they should
(ResolveProofs); the solver decides them, so the engine is told the truth
(SolverProofs, and LookupProofs for the table behind the clauses); the selection is put in
order (ResolveProofs) and handled in that order (EngineProofs), each package by its driver (SessionProofs).

The arguments:

* *Crawl.* `Contiguous` is not inductive: that the next append belongs to the project of the
  last ones is known from the queue only. (1) The queue is distinct: `push` looks at every
  entry, those already taken included. (2) `QueueOrder`: the database lists implementations
  in the order in which the queue lists their ids, and the parser at work is that of the
  last entry taken. (3) If i < j < k and i, k are of one project, the queue positions
  p <= q <= r behind them have p = r by (1), so j is of that project too.
  For `ClosedUnderDependencies` the strengthening `NeedsQueued` follows a dependency from
  `Replay`, which pushes it in the same step as it collects it, through the parser into the
  database. `DatabaseExact` speaks of one moment; `ExactSoFar` says at every moment of the
  first run what is in the database (the yield of the feeds read, and of the feed at work
  up to the offer at work), and in the implementation under construction (what the
  entries replayed so far contribute). That an offer appended is the next of `Ascending`,
  and one skipped is not in it, is by the recursion that defines it. The drivers are part
  of the state it speaks of, because a client may add one, but only between runs.
  The refinement maps the ids of the entries behind `next` to what waits in Worklist, those
  before it to what is done, and `next` to the number of reads; what a feed calls itself is
  a constant of both. A push of an id that no entry has discovers it, another stutters;
  reading a feed, renamed, kept or failed, takes it.
* *Parser.* `PositionKept` compares two stacks that know nothing of each other.
  `ParserInv` adds to it that the reader is well-formed, that it has met no error while
  the parser goes on, and that the outermost loop is that of the project (`InLoops`). What `start_element`, `skip` and
  `next_element` do to the reader is shown by following their turns: each turn takes a
  token or finds that there is none, so one at which they end exists, and it is the only
  one, because an ended loop stays as it is; and with something between an end tag and
  the next start, `skip` gives back the depth it was called at. Then `Leave` takes away
  the loop whose end tag was read, and every other action enters a loop with its tag or
  skips what it opened. The same lemmas bound how far each operation reads, which is the
  measure `Unread`.
* *Resolve.* Family by family, what the clauses demand of a selection; only the implicit
  conflicts need positions: between two implementations of a project there are, in a
  contiguous database, none of another, so the inner loop reaches the second.
* *Sort.* `Visits` is defined through itself at states that have fewer white vertices, so
  that there is such a function, and only one, is itself to be shown: by induction on
  the number of white vertices (`RecursionExists`, `VisitsRight`). What a visit does
  (`VisitDoes`) rests on an invariant of the search: the gray vertices are those of the
  path that led here, so an edge to a gray one closes a cycle and is reported rightly;
  black vertices have been output, each once and behind all its successors. Conversely,
  if nothing was reported and there were a cycle, the member of it that was output first
  would have a successor that was output before it. `AscendingLists` and the definition
  of `DependencyGraph` carry this from the graph to selections.
* *Engine.* Every way in which solving and handling ends is an end the crawl allows, so
  `Contiguous` is inherited through the refinement, and with `ModelIsConsistent` gives
  `SelectionsConsistent`. "Unsatisfiable" comes from two steps, and both mean that the
  clauses have no model; by `ConsistentIsModel` no selection is consistent then. The
  inductive invariant of the rest, `EngineInv`, has as its core `PlanFollowed`: while an
  implementation is handled, the plan lists a model of the clauses, by `OrderRight` with
  each provider before its dependants unless the option says that no order is wanted, and
  what was handled is the beginning of the plan.
* *Solver, completeness of the answer.* `SolverInv` adds the types of the trail and its
  levels to `NoneForgotten`; that they are preserved by `Learn` needs that a clause learnt
  by the recursion of `FirstUIP` is one of literals and that the backtrack level is a
  level, shown with an induction over the trail. What a step takes off the trail it puts
  back into the order (`Recovered`), and a decision takes off the order only what has a
  value. `SearchInv` accounts for every clause: it is a tautology, or has a literal fixed
  at level 0, or contains a clause that is kept; and literals fixed at a level stay as
  long as the level is open (`FixedStays`), so neither simplification nor a backjump loses
  a clause or an assumption.
* *Solver, soundness of the answer.* `TrailSound` says of the trail that no variable is on it
  twice, that the literals of a level stand together, that the literal a level was opened
  with is the only one of it without a reason (literals fixed for good aside), and that
  the other literals of a reason are false and come earlier. Its part `QuietBelow` says
  that the levels below the current one leave no clause unit or false, which is what
  makes every conflict one of the current level. `MeaningSound` says that what was learnt
  and what is fixed at level 0 follows from the problem. `Analysed` is the invariant of the
  walk back over the trail in `FirstUIP`; when one literal of the current level is left the
  walk ends, and minimization removes a literal only if it follows from what stays
  (`Known`). So the clause `Asserts` a literal after the backjump, and a conflict on the
  level of the assumptions refutes them. The type invariant needs a bound of the levels:
  each level above the assumptions has a literal of its own on the trail (`Owned`).
* *Selections.* `SelectionsRight` replaces clauses and assumptions by the families of
  `Resolve`: a request with one provider is an assumption, every other one a clause, and in
  a solution both mean that one of its providers is chosen.
* *Tables.* Probe k of a hash value lies `Offset(k)` behind it. Twice the difference of two
  offsets is (j - i)(i + j + 13); if i and j are both even or both odd, the second factor is
  odd, so a power of two that divides the product divides j - i (`OddFactor`). Hence the
  even probes, as many as there are slots, all differ and meet every slot
  (`EverySlotProbed`), and there are more slots than entries (`SlotsRight`), so one of
  them is free. `Entered` says of a table that every entry has one slot, and that the probes
  up to it find no free one; so a lookup, which ends at the first free slot, has seen it
  (`ChainHas`), and once among the even probes and once among the odd ones at most
  (`SeenRight`). Growing makes a new table of all the words (`FilledEnters`).
* *Drivers.* `DriversOwned` follows each target through the moves of the vector;
  `PointersKept` says that a pointer is live as long as no driver was registered after it
  was taken, and names the first driver of its type either way.
* *Cache.* `SettledFilesWhole` says something only of files nobody works on; `CacheInv`
  says of every file why it is as it is (`Explained`). The core is `OneEdition`: all who
  write to the inode send one edition or the page of an error, every piece in it is at
  its place, and it is whole, or begins with a page, or one of the writers `Covers` it: all
  that this writer has sent is there. A piece may overwrite the page another writer relied
  on, and then its own writer has sent only this piece and covers the file itself
  (`ReceiveWrites`); a writer that completes and covers leaves no hole (`CompleteLeaves`).
  `Linked` says that a file has one name and is written under that name, so that removal by
  name takes away the file of the process that removes or none. The proof showed the
  property as it had been stated to be false for two urls with one file name, an instance
  the run does not have: two processes then write two feeds over each other although
  neither has changed. The property now says so (`Unsettled`).

The invariants were checked by TLC before they were proved: `ExactSoFar` on the networks of
`crawl`, `EngineInv` on those of `engine`, those of the solver on the problems of `solver` and `solve`, `CacheInv` with three
processes and two urls that share a file.

Only model-checked:

* liveness (`CrawlEnds`, `RunEnds`, `RunsEnd`, `SolverEnds`): ENABLED is out of the prover's
  reach;
* most of the run `functions`, and `ReadAsWritten`, `RefusedForCause` and
  `BrokenFeedsAddPackages` in `parse`, whose reference definitions are recursive over data.
  Of `functions` the tables are proved (`LookupsExact`), and so is the sort, in the form of
  `CycleReported` in place of `EdgesRespected` and `CyclesReported`;
* `SourcesAvoided`, for the reason given in section 4.

## 6. Not modelled, and what could follow

* **Watch lists** (`Solver::propagate`): the model visits all clauses. A module that refines
  `Propagate` by two watches per clause would be next.
* **Activities**: decisions use a stack, and which clauses are dropped is left open.
* **Variants**: the grammar of `variants.cpp` and the dictionary; that a variant may be wrong
  is a choice in Crawl and FeedParser.
* **Characters** of feeds and queries: the lexers are generated.
* **File names** of the cache: a constant.
* **Windows** (`url_win32.cpp`): calls of the system.
* **Log, errors, version, the dot file, the example client, the schema, the tests**: output,
  constants, or clients whose calls are a special case of those modelled.

A theorem that could follow: that `Propagate` with watches implements the one here.
