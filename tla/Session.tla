------------------------------ MODULE Session ------------------------------
(***************************************************************************)
(* The life of an engine among other processes: its client adds drivers    *)
(* and runs it, a run loads feeds through the cache they share and gives   *)
(* every implementation a pointer to its driver, and at the end calls the  *)
(* drivers through these pointers.  The composition of FeedCache and       *)
(* Drivers; which of the implementations are selected, and in what order,  *)
(* is the business of module Engine, and left open here.                   *)
(***************************************************************************)
EXTENDS FeedCache, Drivers, SequencesExt

CONSTANTS
    Self,       \* the process the engine is in
    Queue,      \* the urls it has to read, in this order
    Types,      \* the types of the packages in the feed of a url
    Registrations,   \* the names of the drivers the client adds, in this order
    MaxRuns     \* bound on runs

ASSUME SessionAssumption ==
    /\ Self \in Procs
    /\ Queue \in Seq(Urls)
    /\ Types \in [Urls -> Seq(STRING)]
    /\ Registrations \in Seq(DriverNames)
    /\ MaxRuns \in Nat

VARIABLES
    phase,     \* "idle", "reading", "parsing", "handling"; "freed" or "dead"; "undefined"
    reload,    \* the option reload_feeds, set before the first run
    unread,    \* the rest of the feed queue
    packages,  \* the packages of the feed being parsed that are left, by type
    broken,    \* whether the file of this feed is not whole
    db,        \* the implementations: type and pointer to the driver of each
    plan,      \* the places in db of those that are left to be handled
    called,    \* whose targets this engine has called: type and target
    runs

parseVars == <<packages, broken>>
sessionVars == <<phase, reload, unread, parseVars, db, plan, called, runs>>
vars == <<cacheVars, driverVars, sessionVars>>

Init ==
    /\ CacheInit
    /\ DriversInit
    /\ phase = "idle"
    /\ reload \in BOOLEAN
    /\ unread = Queue
    /\ packages = << >> /\ broken = FALSE
    /\ db = << >>
    /\ plan = {}
    /\ called = {}
    /\ runs = 0

(***************************************************************************)
(* The client.                                                             *)
(***************************************************************************)
AddDriver ==
    /\ phase = "idle"
    /\ Len(destroyed) < Len(Registrations)
    /\ Add(Registrations[Len(destroyed) + 1])
    /\ UNCHANGED <<cacheVars, sessionVars>>

Run ==
    /\ phase = "idle"
    /\ runs < MaxRuns
    /\ phase' = "reading"
    /\ runs' = runs + 1
    /\ UNCHANGED <<cacheVars, driverVars, reload, unread, parseVars, db, plan, called>>

FreeEngine ==
    /\ phase = "idle"
    /\ Clear
    /\ phase' = "freed"
    /\ UNCHANGED <<cacheVars, reload, unread, parseVars, db, plan, called, runs>>

(***************************************************************************)
(* Reading.                                                                *)
(***************************************************************************)
NextFeedAgain ==   \* mutant of NextFeed: a feed stays in the queue until it was read
    /\ phase = "reading" /\ load[Self].at = "idle"
    /\ unread # << >>
    /\ Request(Self, Head(unread), reload)
    /\ UNCHANGED <<driverVars, sessionVars>>

\* The feed is out of the queue before it is there.
NextFeed ==
    /\ phase = "reading" /\ load[Self].at = "idle"
    /\ unread # << >>
    /\ Request(Self, Head(unread), reload)
    /\ unread' = Tail(unread)
    /\ UNCHANGED <<driverVars, phase, reload, parseVars, db, plan, called, runs>>

Load ==
    /\ Loading(Self)
    /\ UNCHANGED <<driverVars, sessionVars>>

\* download throws, or XmlReader cannot open the file any more.
LoadFails ==
    /\ phase = "reading"
    /\ load[Self].at = "failed" \/ (load[Self].at = "have" /\ dir[File(Self)] = 0)
    /\ Return(Self)
    /\ phase' = "idle"
    /\ UNCHANGED <<driverVars, reload, unread, parseVars, db, plan, called, runs>>

\* The file is read in one go, and parsed afterwards.  Of a feed that is not whole some
\* packages are there; it is an error, or taken for a shorter feed if it merely breaks off.
ReadFeed ==
    /\ phase = "reading" /\ load[Self].at = "have" /\ dir[File(Self)] # 0
    /\ LET pieces == disk[dir[File(Self)]].pieces
           types == Types[load[Self].url]
       IN IF Whole(pieces, File(Self)) THEN packages' = types /\ broken' = FALSE
          ELSE broken' = TRUE /\ \E n \in 0 .. Len(types) : packages' = SubSeq(types, 1, n)
    /\ phase' = "parsing"
    /\ Return(Self)
    /\ UNCHANGED <<driverVars, reload, unread, db, plan, called, runs>>

Implementation(type) == [type |-> type, driver |-> Get(type), registered |-> Len(drivers)]

AddPackage ==
    /\ phase = "parsing" /\ packages # << >>
    /\ packages' = Tail(packages)
    /\ db' = IF Get(Head(packages)) = NoDriver THEN db
             ELSE Append(db, Implementation(Head(packages)))
    /\ UNCHANGED <<cacheVars, driverVars, phase, reload, unread, broken, plan, called, runs>>

EndOfFeed ==
    /\ phase = "parsing" /\ packages = << >>
    /\ \/ phase' = "reading"
       \/ broken /\ phase' = "idle"
    /\ UNCHANGED <<cacheVars, driverVars, reload, unread, parseVars, db, plan, called, runs>>

(***************************************************************************)
(* Handling.                                                               *)
(***************************************************************************)
\* Solving may fail; or it selects some of the implementations, to be handled in any order.
Solve ==
    /\ phase = "reading" /\ load[Self].at = "idle"
    /\ unread = << >>
    /\ \/ phase' = "idle" /\ UNCHANGED plan
       \/ phase' = "handling" /\ plan' \in SUBSET DOMAIN db
    /\ UNCHANGED <<cacheVars, driverVars, reload, unread, parseVars, db, called, runs>>

HandleNext ==
    /\ phase = "handling"
    /\ \E i \in plan :
          /\ IF Live(db[i].driver)
             THEN /\ called' = called \cup
                         {[type |-> db[i].type, target |-> drivers[db[i].driver.at].target]}
                  /\ phase' \in {"handling", "idle"}    \* idle: the driver reports an error
             ELSE phase' = "undefined" /\ UNCHANGED called
          /\ plan' = IF phase' = "handling" THEN plan \ {i} ELSE {}
    /\ UNCHANGED <<cacheVars, driverVars, reload, unread, parseVars, db, runs>>

AllHandled ==
    /\ phase = "handling" /\ plan = {}
    /\ phase' = "idle"
    /\ UNCHANGED <<cacheVars, driverVars, reload, unread, parseVars, db, plan, called, runs>>

(***************************************************************************)
(* The other processes, the servers, and what kills processes.             *)
(***************************************************************************)
Others ==
    /\ \/ \E p \in Procs \ {Self} :
            \/ \E u \in Urls, force \in BOOLEAN : Request(p, u, force)
            \/ Loading(p) \/ Return(p) \/ Kill(p)
       \/ \E u \in Urls : Publish(u)
    /\ UNCHANGED <<driverVars, sessionVars>>

Busy == phase \in {"reading", "parsing", "handling"}

Die ==
    /\ Busy
    /\ Kill(Self)
    /\ phase' = "dead"
    /\ UNCHANGED <<driverVars, reload, unread, parseVars, db, plan, called, runs>>

\* What every engine starts with.
Afresh ==
    /\ phase' = "idle" /\ reload' \in BOOLEAN
    /\ unread' = Queue
    /\ packages' = << >> /\ broken' = FALSE
    /\ plan' = {} /\ called' = {}
    /\ drivers' = << >> /\ destroyed' = << >> /\ memory' = 0 /\ capacity' = 0

RestartWithDatabase ==   \* mutant of Restart: the database is no member of the engine
    phase \in {"dead", "freed"} /\ runs < MaxRuns /\ Afresh /\ UNCHANGED <<cacheVars, db, runs>>

\* Another process, or another engine: of the first nothing is left but the cache.
Restart ==
    /\ phase \in {"dead", "freed"}
    /\ runs < MaxRuns
    /\ Afresh /\ db' = << >>
    /\ UNCHANGED <<cacheVars, runs>>

Client == AddDriver \/ Run \/ FreeEngine
Running ==
    \/ NextFeed \/ Load \/ LoadFails \/ ReadFeed \/ AddPackage \/ EndOfFeed
    \/ Solve \/ HandleNext \/ AllHandled

Next == Client \/ Running \/ Others \/ Die \/ Restart
Spec == Init /\ [][Next]_vars

\* The engine does not stop in the middle of a run, and a server goes on sending or
\* the connection breaks: curl would wait for ever, as no timeout is set.
FairSpec == Spec /\ WF_vars(Running)

(***************************************************************************)
(* Properties.                                                             *)
(***************************************************************************)
\* What is handled is handled by the driver that was registered first under its type,
\* whatever was registered before and after the feed was read (package_handler.hpp:25-37,
\* feed_parser.cpp:254, engine.cpp:179).
FirstRegisteredHandles ==
    \A c \in called : Called(c.type) # {} => c.target = drivers[FirstOf(Called(c.type))].target

\* A driver is called through a dangling pointer only after a driver was registered
\* behind the back of an implementation that was read before: between two runs of one
\* engine, the first of which may well have failed (package_handler.hpp:23 and 33).
DanglingNeedsLateDriver ==
    phase = "undefined" => \E k \in DOMAIN db : db[k].registered < Len(drivers)

\* Every run comes to an end, whatever other processes do to the files it reads.
RunsEnd == Busy ~> ~Busy
=============================================================================
