------------------------------- MODULE Crawl -------------------------------
(***************************************************************************)
(* How the engine collects its database: the feed queue (feed_queue.hpp),  *)
(* the read loop of engine_run (engine.cpp) and the feed parser            *)
(* (feed_parser.cpp) with the replay of recorded dependencies              *)
(* (dependencies.cpp).                                                     *)
(*                                                                         *)
(* The parser pushes the dependencies of an implementation into the queue  *)
(* that drives the loop, so the loop discovers its own work.  Every push   *)
(* and every append to the database is a step of its own, because an       *)
(* exception (a failed download, malformed XML, a query that names an      *)
(* unknown variable) may leave the engine between any two of them, and the *)
(* engine may be run again from there: nothing is rolled back.             *)
(*                                                                         *)
(* A document is what a feed says once it is read: its href (the id the    *)
(* feed claims), its releases, the implementations it offers in the order  *)
(* the parser meets them (first the build of every release and variant,    *)
(* then what each driver's filter makes of every package) and its recorded *)
(* dependency entries.  An entry belongs to the build section, to a        *)
(* component, or to the runtime (component ""), and `when' holds the       *)
(* builds for which replay finds its enclosing if/elseif/else branches     *)
(* taken.                                                                  *)
(***************************************************************************)
EXTENDS Resolve

CONSTANTS
    Ids,          \* the urls under which feeds are known
    Versions, Variants, Components,
    DriverNames,  \* the names under which drivers may be registered
    Webs,         \* the possible contents of the network
    Requestable,  \* the specifications a client may request
    MaxRequests,  \* bound: requests a client makes
    MaxRuns,      \* bound: calls of k_engine_run
    MaxFaults     \* bound: failed downloads, malformed feeds, failing drivers

Builds == Versions \X Variants
Queries == [accepts : SUBSET Builds, throws : SUBSET Builds]
Specs == [id : Ids, component : Components, query : Queries]
Entries == [section : Components \cup {"build"}, when : SUBSET Builds,
            kind : {"depends", "conflicts"}, spec : Specs]
Offers == [type : DriverNames, component : Components, version : Versions,
           variant : Variants, system : BOOLEAN]
Documents == [href : Ids, releases : SUBSET Versions,
              offers : Seq(Offers), entries : Seq(Entries)]
Impls == [id : Ids, component : Components, version : Versions, variant : Variants,
          depends : Seq(Specs), conflicts : Seq(Specs)]

ASSUME CrawlAssumption ==
    /\ Ids # {}
    /\ \A w \in Webs : w \in [Ids -> Documents]
    /\ Requestable \subseteq Specs
    /\ Source \in Components
    /\ {MaxRequests, MaxRuns, MaxFaults} \subseteq Nat

VARIABLES
    web,       \* the documents on the network, by url; never changes
    drivers,   \* PackageHandler: the names of the registered drivers
    urls,      \* FeedQueue: every specification pushed so far
    next,      \* FeedQueue: how many of them have been taken
    requests,  \* the requests, in the order they were made
    db,        \* the database of implementations
    phase,     \* where k_engine_run is: "idle" (not running), "fetch", "parse", "solve"
    parser,    \* the FeedParser at work, meaningful in phase "parse"
    result,    \* how the last run ended
    runs,      \* how often the engine was run
    faults     \* how many exceptions a run met that no query caused

crawlVars == <<web, drivers, urls, next, requests, db, phase, parser, result, runs, faults>>

\* url: where the document was read; id, query: the specification the parser was
\* given, id replaced by the document's; offer: the offer being parsed; entry: the
\* next entry to replay for it, or 0 while the offer has not been taken up; depends
\* and conflicts: what the implementation under construction has collected.
Parsers == [url : Ids, id : Ids, query : Queries, offer : Nat, entry : Nat,
            depends : Seq(Specs), conflicts : Seq(Specs)]

NoQuery == [accepts |-> Builds, throws |-> {}]

(***************************************************************************)
(* The feed queue.                                                         *)
(***************************************************************************)
PushIfNotWaiting(queue, spec) ==   \* mutant of Push
    IF \E i \in DOMAIN queue : i > next /\ queue[i].id = spec.id
    THEN queue ELSE Append(queue, spec)

Push(queue, spec) ==
    IF \E i \in DOMAIN queue : queue[i].id = spec.id THEN queue ELSE Append(queue, spec)

\* current_id: the entry taken last is filed under the id its feed claims.
Rename(queue, i, id) == [queue EXCEPT ![i].id = id]

(***************************************************************************)
(* The parser.                                                             *)
(***************************************************************************)
NoParser == [url |-> CHOOSE u \in Ids : TRUE, id |-> CHOOSE u \in Ids : TRUE,
             query |-> NoQuery, offer |-> 0, entry |-> 0,
             depends |-> << >>, conflicts |-> << >>]

NewParser(spec) ==
    [url |-> spec.id, id |-> web[spec.id].href, query |-> spec.query,
     offer |-> 1, entry |-> 0, depends |-> << >>, conflicts |-> << >>]

OfferBuild(offer) == <<offer.version, offer.variant>>

\* Is the offer turned into an implementation?  A source build needs a
\* driver for its version control system and must match the query of the
\* queue entry; a package needs a driver for its type and, unless the system
\* provides it, the version of a release.
Eligible(doc, offer, query) ==
    /\ offer.type \in drivers
    /\ IF offer.component = Source
       THEN OfferBuild(offer) \in query.accepts
       ELSE offer.system \/ offer.version \in doc.releases

\* Does replaying the entry for the offer have an effect?
Active(entry, offer) ==
    /\ IF offer.component = Source
       THEN entry.section = "build"
       ELSE /\ ~offer.system
            /\ entry.section # "build"
            /\ offer.component \in {entry.section, AnyComponent}
    /\ OfferBuild(offer) \in entry.when

Implementation(id, offer, depends, conflicts) ==
    [id |-> id, component |-> offer.component, version |-> offer.version,
     variant |-> offer.variant, depends |-> depends, conflicts |-> conflicts]

(***************************************************************************)
(* Init.  No request, no driver, an empty queue.                           *)
(***************************************************************************)
Init ==
    /\ web \in Webs
    /\ drivers = {}
    /\ urls = << >>
    /\ next = 0
    /\ requests = << >>
    /\ db = << >>
    /\ phase = "idle"
    /\ parser = NoParser
    /\ result = "none"
    /\ runs = 0
    /\ faults = 0

(***************************************************************************)
(* The client's calls, made while the engine does not run.                 *)
(***************************************************************************)
AddDriver(name) ==
    /\ phase = "idle"
    /\ drivers' = drivers \cup {name}
    /\ UNCHANGED <<web, urls, next, requests, db, phase, parser, result, runs, faults>>

\* The queue gets the specification as requested, the list of requests gets it
\* with its component replaced when only source builds are wanted.
AddRequest(spec, source) ==
    /\ phase = "idle"
    /\ Len(requests) < MaxRequests
    /\ urls' = Push(urls, spec)
    /\ requests' = Append(requests, IF source THEN [spec EXCEPT !.component = Source] ELSE spec)
    /\ UNCHANGED <<web, drivers, next, db, phase, parser, result, runs, faults>>

Run ==
    /\ phase = "idle"
    /\ runs < MaxRuns
    /\ runs' = runs + 1
    /\ phase' = "fetch"
    /\ result' = "none"
    /\ UNCHANGED <<web, drivers, urls, next, requests, db, parser, faults>>

(***************************************************************************)
(* The read loop.                                                          *)
(***************************************************************************)
\* get_next, download, open, and the head of FeedParser::parse.
ReadFeed ==
    /\ phase = "fetch"
    /\ next < Len(urls)
    /\ next' = next + 1
    /\ parser' = NewParser(urls[next + 1])
    /\ urls' = Rename(urls, next + 1, web[urls[next + 1].id].href)
    /\ phase' = "parse"
    /\ UNCHANGED <<web, drivers, requests, db, result, runs, faults>>

\* The download fails or what was downloaded is no project feed: the entry has
\* been taken from the queue and stays taken.
ReadFails ==
    /\ phase = "fetch"
    /\ next < Len(urls)
    /\ faults < MaxFaults
    /\ next' = next + 1
    /\ faults' = faults + 1
    /\ phase' = "idle"
    /\ result' = "error"
    /\ UNCHANGED <<web, drivers, urls, requests, db, parser, runs>>

Offer == web[parser.url].offers[parser.offer]
Entry == web[parser.url].entries[parser.entry]
MoreOffers == parser.offer <= Len(web[parser.url].offers)
MoreEntries == parser.entry <= Len(web[parser.url].entries)

\* Evaluating the query of the queue entry on a source build throws.
QueryFails ==
    /\ Offer.component = Source
    /\ Offer.type \in drivers
    /\ OfferBuild(Offer) \in parser.query.throws

SkipOfferForever ==   \* mutant of SkipOffer: the offer is not passed over
    /\ phase = "parse"
    /\ parser.entry = 0
    /\ MoreOffers
    /\ ~Eligible(web[parser.url], Offer, parser.query)
    /\ UNCHANGED crawlVars

SkipOffer ==
    /\ phase = "parse"
    /\ parser.entry = 0
    /\ MoreOffers
    /\ ~QueryFails
    /\ ~Eligible(web[parser.url], Offer, parser.query)
    /\ parser' = [parser EXCEPT !.offer = @ + 1]
    /\ UNCHANGED <<web, drivers, urls, next, requests, db, phase, result, runs, faults>>

TakeOfferOnTop ==   \* mutant of TakeOffer: what the last offer collected is kept
    /\ phase = "parse"
    /\ parser.entry = 0
    /\ MoreOffers
    /\ ~QueryFails
    /\ Eligible(web[parser.url], Offer, parser.query)
    /\ parser' = [parser EXCEPT !.entry = 1]
    /\ UNCHANGED <<web, drivers, urls, next, requests, db, phase, result, runs, faults>>

TakeOffer ==
    /\ phase = "parse"
    /\ parser.entry = 0
    /\ MoreOffers
    /\ ~QueryFails
    /\ Eligible(web[parser.url], Offer, parser.query)
    /\ parser' = [parser EXCEPT !.entry = 1, !.depends = << >>, !.conflicts = << >>]
    /\ UNCHANGED <<web, drivers, urls, next, requests, db, phase, result, runs, faults>>

ReplayWithoutPush ==   \* mutant of Replay
    /\ phase = "parse"
    /\ parser.entry > 0
    /\ MoreEntries
    /\ parser' = IF Active(Entry, Offer) /\ Entry.kind = "depends"
                 THEN [parser EXCEPT !.entry = @ + 1, !.depends = Append(@, Entry.spec)]
                 ELSE [parser EXCEPT !.entry = @ + 1]
    /\ UNCHANGED <<web, drivers, urls, next, requests, db, phase, result, runs, faults>>

\* One entry of Dependencies::replay.
Replay ==
    /\ phase = "parse"
    /\ parser.entry > 0
    /\ MoreEntries
    /\ IF Active(Entry, Offer) /\ Entry.kind = "depends"
       THEN /\ urls' = Push(urls, Entry.spec)
            /\ parser' = [parser EXCEPT !.entry = @ + 1, !.depends = Append(@, Entry.spec)]
       ELSE /\ urls' = urls
            /\ parser' = IF Active(Entry, Offer)
                         THEN [parser EXCEPT !.entry = @ + 1, !.conflicts = Append(@, Entry.spec)]
                         ELSE [parser EXCEPT !.entry = @ + 1]
    /\ UNCHANGED <<web, drivers, next, requests, db, phase, result, runs, faults>>

AddImplementationTwice ==   \* mutant of AddImplementation: the entries are not rewound
    /\ phase = "parse"
    /\ parser.entry > 0
    /\ ~MoreEntries
    /\ db' = Append(db, Implementation(parser.id, Offer, parser.depends, parser.conflicts))
    /\ parser' = [parser EXCEPT !.offer = @ + 1]
    /\ UNCHANGED <<web, drivers, urls, next, requests, phase, result, runs, faults>>

AddImplementation ==
    /\ phase = "parse"
    /\ parser.entry > 0
    /\ ~MoreEntries
    /\ db' = Append(db, Implementation(parser.id, Offer, parser.depends, parser.conflicts))
    /\ parser' = [parser EXCEPT !.offer = @ + 1, !.entry = 0]
    /\ UNCHANGED <<web, drivers, urls, next, requests, phase, result, runs, faults>>

FinishFeed ==
    /\ phase = "parse"
    /\ parser.entry = 0
    /\ ~MoreOffers
    /\ phase' = "fetch"
    /\ parser' = NoParser
    /\ UNCHANGED <<web, drivers, urls, next, requests, db, result, runs, faults>>

\* The parser throws: whatever it pushed and appended so far stays.  A fault is XML
\* that breaks off or a branch of an entry whose test throws in replay.
ParseFails ==
    /\ phase = "parse"
    /\ \/ faults < MaxFaults /\ faults' = faults + 1
       \/ parser.entry = 0 /\ MoreOffers /\ QueryFails /\ faults' = faults
    /\ phase' = "idle"
    /\ parser' = NoParser
    /\ result' = "error"
    /\ UNCHANGED <<web, drivers, urls, next, requests, db, runs>>

ReadAll ==
    /\ phase = "fetch"
    /\ next = Len(urls)
    /\ phase' = "solve"
    /\ UNCHANGED <<web, drivers, urls, next, requests, db, parser, result, runs, faults>>

\* What engine_run does with a complete database; module Engine has the detail.
Conclude ==
    /\ phase = "solve"
    /\ phase' = "idle"
    /\ result' \in {"ok", "unsatisfiable", "error"}
    /\ \/ faults' = faults
       \/ faults < MaxFaults /\ result' = "error" /\ faults' = faults + 1
    /\ UNCHANGED <<web, drivers, urls, next, requests, db, parser, runs>>

Client ==
    \/ \E name \in DriverNames : AddDriver(name)
    \/ \E spec \in Requestable, source \in BOOLEAN : AddRequest(spec, source)
    \/ Run

Crawling == ReadFeed \/ SkipOffer \/ TakeOffer \/ Replay \/ AddImplementation \/ FinishFeed \/ ReadAll

Next == Client \/ Crawling \/ ReadFails \/ ParseFails \/ Conclude

Spec == Init /\ [][Next]_crawlVars

\* engine_run is a loop of one thread: it goes on as long as it can.
FairSpec == Spec /\ WF_crawlVars(Crawling \/ ParseFails \/ Conclude)

(***************************************************************************)
(* Properties.                                                             *)
(***************************************************************************)
TypeOK ==
    /\ web \in Webs
    /\ drivers \subseteq DriverNames
    /\ urls \in Seq(Specs)
    /\ next \in 0 .. Len(urls)
    /\ requests \in Seq(Specs)
    /\ db \in Seq(Impls)
    /\ phase \in {"idle", "fetch", "parse", "solve"}
    /\ parser \in Parsers
    /\ phase = "parse" => parser.offer > 0 /\ next > 0
    /\ parser.entry > 0 => phase = "parse" /\ MoreOffers
    /\ result \in {"none", "ok", "unsatisfiable", "error"}
    /\ runs \in 0 .. MaxRuns
    /\ faults \in 0 .. MaxFaults

\* No document claims an id other than the url it is found under.
Canonical == \A u \in Ids : web[u].href = u

\* No feed is in the queue twice, so none is read twice, however many
\* implementations depend on it and however often the engine is run again
\* (feed_queue.hpp:26-36).  While documents may rename their entry this is
\* promised only of the entries not yet taken.
QueueDistinct ==
    \A i, j \in DOMAIN urls :
        (i # j /\ (Canonical \/ (i > next /\ j > next))) => urls[i].id # urls[j].id

\* The implementations of one project are neighbours in the database, whatever
\* the runs and failures that built it.  implicit_conflict_clauses depends on it:
\* its inner loop stops at the first entry of another project (solve.cpp:142-145).
Contiguous ==
    Canonical =>
        \A i, j, k \in DOMAIN db : (i < j /\ j < k /\ db[i].id = db[k].id) => db[j].id = db[i].id

\* When the solver gets the database, the feed of every request and of every
\* dependency of every implementation has been taken from the queue.
ClosedUnderDependencies ==
    (Canonical /\ phase = "solve") =>
        LET taken == {urls[p].id : p \in 1 .. next} IN
        /\ \A i \in DOMAIN requests : requests[i].id \in taken
        /\ \A i \in DOMAIN db : \A s \in ToSet(db[i].depends) : s.id \in taken

\* What replay collects for an offer from the first n entries of a document, and the
\* implementations that the first n offers of a feed yield under the query of its queue
\* entry, stated at once: the eligible ones, each with the entries active for it.
Collected(doc, offer, kind, n) ==
    LET active == Ascending(n, {e \in DOMAIN doc.entries :
                                   doc.entries[e].kind = kind /\ Active(doc.entries[e], offer)})
    IN [i \in DOMAIN active |-> doc.entries[active[i]].spec]

YieldUpto(spec, n) ==
    LET doc == web[spec.id]
        chosen == Ascending(n, {o \in DOMAIN doc.offers : Eligible(doc, doc.offers[o], spec.query)})
        of(offer) == Implementation(spec.id, offer,
                                    Collected(doc, offer, "depends", Len(doc.entries)),
                                    Collected(doc, offer, "conflicts", Len(doc.entries)))
    IN [i \in DOMAIN chosen |-> of(doc.offers[chosen[i]])]

Yield(spec) == YieldUpto(spec, Len(web[spec.id].offers))

\* What the first run hands to the solver, if nothing went wrong, is the yield of
\* every queue entry in the order of the queue: the entry-by-entry replay forgets
\* nothing, repeats nothing, and leaks nothing from one offer into the next
\* (feed_parser.cpp:131-160 and 291-350, dependencies.cpp:16-80).
DatabaseExact ==
    (Canonical /\ runs = 1 /\ faults = 0 /\ phase = "solve") =>
        db = FlattenSeq([p \in 1 .. next |-> Yield(urls[p])])

\* A run that has begun to read feeds does not read feeds for ever, cyclic
\* dependencies between projects or not, provided no document renames its entry.
CrawlEnds == (Canonical /\ phase = "fetch") ~> (phase \in {"solve", "idle"})

\* The queue, with its order and its cursor, is a worklist: whatever depends on a feed,
\* fails or is run again, an id waits only if no entry has it, taken or not.  Hence no feed
\* is taken twice while documents go by their urls; one that renames its entry may come
\* back, under the id it has freed or the one it takes (feed_queue.hpp:26-48).
WaitingIds == {urls[p].id : p \in next + 1 .. Len(urls)}
TakenIds == {urls[p].id : p \in 1 .. next}
WL == INSTANCE Worklist WITH called <- [u \in Ids |-> web[u].href],
                             waiting <- WaitingIds, done <- TakenIds, reads <- next
QueueIsWorklist == WL!Spec
=============================================================================
