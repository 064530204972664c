---------------------------- MODULE CrawlProofs ----------------------------
(***************************************************************************)
(* Proofs about module Crawl, for every network, every set of drivers,     *)
(* every sequence of requests and runs, and any number of faults.          *)
(***************************************************************************)
EXTENDS Crawl, ResolveProofs

(***************************************************************************)
(* The operators on the queue.                                             *)
(***************************************************************************)
\* Push keeps a queue a queue and never shortens it (feed_queue.hpp:26-36).
LEMMA PushType ==
    ASSUME NEW queue \in Seq(Specs), NEW spec \in Specs
    PROVE  /\ Push(queue, spec) \in Seq(Specs)
           /\ Len(Push(queue, spec)) >= Len(queue)
           /\ \A i \in DOMAIN queue : Push(queue, spec)[i] = queue[i]
           /\ \E i \in DOMAIN Push(queue, spec) : Push(queue, spec)[i].id = spec.id
           /\ \A i \in DOMAIN Push(queue, spec) : i \in DOMAIN queue \/ Push(queue, spec)[i] = spec
  <1>1. CASE \E i \in DOMAIN queue : queue[i].id = spec.id
    BY <1>1 DEF Push
  <1>2. CASE ~\E i \in DOMAIN queue : queue[i].id = spec.id
    <2>1. Push(queue, spec) = Append(queue, spec)
      BY <1>2 DEF Push
    <2>2. QED
      BY <2>1
  <1>3. QED
    BY <1>1, <1>2

\* Push leaves distinct what was distinct: it looks at every entry, those
\* already taken included.
LEMMA PushDistinct ==
    ASSUME NEW queue \in Seq(Specs), NEW spec \in Specs, NEW from \in Nat,
           \A i, j \in DOMAIN queue : (i # j /\ i > from /\ j > from) => queue[i].id # queue[j].id
    PROVE  \A i, j \in DOMAIN Push(queue, spec) :
              (i # j /\ i > from /\ j > from) => Push(queue, spec)[i].id # Push(queue, spec)[j].id
  <1>1. CASE \E i \in DOMAIN queue : queue[i].id = spec.id
    BY <1>1 DEF Push
  <1>2. CASE ~\E i \in DOMAIN queue : queue[i].id = spec.id
    <2>1. Push(queue, spec) = Append(queue, spec)
      BY <1>2 DEF Push
    <2>2. QED
      BY <1>2, <2>1
  <1>3. QED
    BY <1>1, <1>2

\* Renaming an entry keeps the others and the length (feed_queue.hpp:37-40).
LEMMA RenameType ==
    ASSUME NEW queue \in Seq(Specs), NEW i \in DOMAIN queue, NEW id \in Ids
    PROVE  /\ Rename(queue, i, id) \in Seq(Specs)
           /\ Len(Rename(queue, i, id)) = Len(queue)
           /\ \A j \in DOMAIN queue \ {i} : Rename(queue, i, id)[j] = queue[j]
           /\ Rename(queue, i, id)[i].id = id
           /\ queue[i].id = id => Rename(queue, i, id) = queue
  <1> DEFINE r == [queue[i] EXCEPT !.id = id]
  <1>0. queue[i] \in Specs
    OBVIOUS
  <1>1. r \in Specs /\ r.id = id
    BY <1>0 DEF Specs
  <1>2. Rename(queue, i, id) = [queue EXCEPT ![i] = r]
    BY DEF Rename
  <1>3. queue[i].id = id => r = queue[i]
    BY <1>0 DEF Specs
  <1> HIDE DEF r
  <1>4. QED
    BY <1>1, <1>2, <1>3

\* What the assumption says of a document.
LEMMA DocumentType ==
    ASSUME web \in Webs, NEW u \in Ids
    PROVE  /\ web[u].href \in Ids
           /\ web[u].offers \in Seq(Offers)
           /\ web[u].entries \in Seq(Entries)
  <1>1. web[u] \in Documents
    BY CrawlAssumption
  <1>2. QED
    BY <1>1 DEF Documents

(***************************************************************************)
(* The type invariant.                                                     *)
(***************************************************************************)
\* The parser that is not at work has a type.
LEMMA NoParserType == NoParser \in Parsers /\ NoParser.entry = 0
  <1>1. PICK u \in Ids : u = CHOOSE v \in Ids : TRUE
    BY CrawlAssumption
  <1>2. NoQuery \in Queries
    BY DEF NoQuery, Queries
  <1>3. QED
    BY <1>1, <1>2 DEF NoParser, Parsers

\* The offer and the entry the parser points at are an offer and an entry of the
\* document, and the parser's id is an id.
LEMMA ParserPoints ==
    ASSUME TypeOK
    PROVE  /\ MoreOffers /\ parser.offer > 0 => Offer \in Offers
           /\ MoreEntries /\ parser.entry > 0 => Entry \in Entries
           /\ Len(web[parser.url].offers) \in Nat
           /\ Len(web[parser.url].entries) \in Nat
  <1>1. parser.url \in Ids /\ parser.offer \in Nat /\ parser.entry \in Nat
    BY DEF TypeOK, Parsers
  <1>2. web[parser.url].offers \in Seq(Offers) /\ web[parser.url].entries \in Seq(Entries)
    BY <1>1, DocumentType DEF TypeOK
  <1>3. QED
    BY <1>1, <1>2 DEF MoreOffers, MoreEntries, Offer, Entry

\* The changes that the actions make to the parser keep its type.
LEMMA ParserSteps ==
    ASSUME NEW p \in Parsers
    PROVE  /\ [p EXCEPT !.offer = @ + 1] \in Parsers
           /\ [p EXCEPT !.entry = 1, !.depends = << >>, !.conflicts = << >>] \in Parsers
           /\ [p EXCEPT !.entry = @ + 1] \in Parsers
           /\ [p EXCEPT !.offer = @ + 1, !.entry = 0] \in Parsers
  <1>1. p.offer + 1 \in Nat /\ p.entry + 1 \in Nat
    BY DEF Parsers
  <1>2. << >> \in Seq(Specs)
    OBVIOUS
  <1>3. QED
    BY <1>1, <1>2 DEF Parsers

\* So do the changes that collect a specification.
LEMMA ParserCollects ==
    ASSUME NEW p \in Parsers, NEW s \in Specs
    PROVE  /\ [p EXCEPT !.entry = @ + 1, !.depends = Append(@, s)] \in Parsers
           /\ [p EXCEPT !.entry = @ + 1, !.conflicts = Append(@, s)] \in Parsers
  <1>1. p.entry + 1 \in Nat
    BY DEF Parsers
  <1>2. Append(p.depends, s) \in Seq(Specs) /\ Append(p.conflicts, s) \in Seq(Specs)
    BY DEF Parsers
  <1>3. QED
    BY <1>1, <1>2 DEF Parsers

\* The engine that k_engine_new returns is of the right type (engine.cpp:28-62).
LEMMA TypeInit == Init => TypeOK
  <1>1. SUFFICES ASSUME Init PROVE TypeOK
    OBVIOUS
  <1>2. 0 \in 0 .. MaxRuns /\ 0 \in 0 .. MaxFaults
    BY CrawlAssumption
  <1>3. QED
    BY <1>1, <1>2, NoParserType DEF Init, TypeOK

\* No operation of the client, step of the parser or failure leaves the types.
LEMMA TypeNext == TypeOK /\ [Next]_crawlVars => TypeOK'
  <1> SUFFICES ASSUME TypeOK, [Next]_crawlVars PROVE TypeOK'
    OBVIOUS
  <1> USE DEF TypeOK
  <1>1. ASSUME NEW name \in DriverNames, AddDriver(name) PROVE TypeOK'
    BY <1>1 DEF AddDriver, MoreOffers
  <1>2. ASSUME NEW spec \in Requestable, NEW source \in BOOLEAN, AddRequest(spec, source)
        PROVE  TypeOK'
    <2>1. spec \in Specs
      BY CrawlAssumption
    <2>2. [spec EXCEPT !.component = Source] \in Specs
      BY <2>1, CrawlAssumption DEF Specs
    <2>3. urls' \in Seq(Specs) /\ Len(urls') >= Len(urls)
      BY <1>2, <2>1, PushType DEF AddRequest
    <2>4. requests' \in Seq(Specs)
      BY <1>2, <2>1, <2>2 DEF AddRequest
    <2>5. QED
      BY <1>2, <2>3, <2>4 DEF AddRequest, MoreOffers
  <1>3. CASE Run
    BY <1>3, CrawlAssumption DEF Run, MoreOffers
  <1>4. CASE ReadFeed
    <2>1. urls[next + 1] \in Specs /\ next + 1 \in DOMAIN urls
      BY <1>4 DEF ReadFeed
    <2>2. urls[next + 1].id \in Ids /\ urls[next + 1].query \in Queries
      BY <2>1 DEF Specs
    <2>3. web[urls[next + 1].id].href \in Ids
      BY <2>2, DocumentType
    <2>4. urls' \in Seq(Specs) /\ Len(urls') = Len(urls)
      BY <1>4, <2>1, <2>3, RenameType DEF ReadFeed
    <2>5. parser' \in Parsers /\ parser'.offer = 1 /\ parser'.entry = 0
      BY <1>4, <2>2, <2>3 DEF ReadFeed, NewParser, Parsers
    <2>6. QED
      BY <1>4, <2>4, <2>5 DEF ReadFeed
  <1>5. CASE ReadFails
    BY <1>5, CrawlAssumption DEF ReadFails, MoreOffers
  <1>6. CASE SkipOffer
    <2>1. parser.offer \in Nat /\ parser' \in Parsers
      BY <1>6, ParserSteps DEF SkipOffer, Parsers
    <2>2. parser'.offer = parser.offer + 1 /\ parser'.entry = 0
      BY <1>6 DEF SkipOffer, Parsers
    <2>3. QED
      BY <1>6, <2>1, <2>2 DEF SkipOffer
  <1>7. CASE TakeOffer
    <2>1. parser' \in Parsers
      BY <1>7, ParserSteps DEF TakeOffer
    <2>2. parser'.offer = parser.offer /\ parser'.url = parser.url
      BY <1>7 DEF TakeOffer, Parsers
    <2>3. QED
      BY <1>7, <2>1, <2>2 DEF TakeOffer, MoreOffers
  <1>8. CASE Replay
    <2>1. Entry \in Entries
      BY <1>8, ParserPoints DEF Replay
    <2>2. Entry.spec \in Specs
      BY <2>1 DEF Entries
    <2>3. urls' \in Seq(Specs) /\ Len(urls') >= Len(urls)
      <3>1. urls' = urls \/ urls' = Push(urls, Entry.spec)
        BY <1>8 DEF Replay
      <3>2. urls \in Seq(Specs)
        OBVIOUS
      <3>3. /\ Push(urls, Entry.spec) \in Seq(Specs)
            /\ Len(Push(urls, Entry.spec)) >= Len(urls)
        BY <2>2, <3>2, PushType
      <3>4. Len(urls) \in Nat
        BY <3>2
      <3>5. QED
        BY <3>1, <3>2, <3>3, <3>4
    <2>4. parser' \in Parsers
      BY <1>8, <2>2, ParserSteps, ParserCollects DEF Replay
    <2>5. parser'.offer = parser.offer /\ parser'.url = parser.url
      BY <1>8 DEF Replay, Parsers
    <2>6. QED
      BY <1>8, <2>3, <2>4, <2>5 DEF Replay, MoreOffers
  <1>9. CASE AddImplementation
    <2>1. Offer \in Offers /\ parser.id \in Ids
      BY <1>9, ParserPoints DEF AddImplementation, Parsers
    <2>2. Implementation(parser.id, Offer, parser.depends, parser.conflicts) \in Impls
      BY <2>1 DEF Implementation, Impls, Offers, Parsers
    <2>3. db' \in Seq(Impls)
      BY <1>9, <2>2 DEF AddImplementation
    <2>4. parser' \in Parsers
      BY <1>9, ParserSteps DEF AddImplementation
    <2>5. parser.offer \in Nat /\ parser'.offer = parser.offer + 1 /\ parser'.entry = 0
      BY <1>9 DEF AddImplementation, Parsers
    <2>6. QED
      BY <1>9, <2>3, <2>4, <2>5 DEF AddImplementation
  <1>10. CASE FinishFeed
    BY <1>10, NoParserType DEF FinishFeed
  <1>11. CASE ParseFails
    BY <1>11, NoParserType, CrawlAssumption DEF ParseFails
  <1>12. CASE ReadAll
    BY <1>12 DEF ReadAll, MoreOffers
  <1>13. CASE Conclude
    BY <1>13, CrawlAssumption DEF Conclude, MoreOffers
  <1>14. CASE UNCHANGED crawlVars
    BY <1>14 DEF crawlVars, MoreOffers
  <1>15. QED
    BY <1>1, <1>2, <1>3, <1>4, <1>5, <1>6, <1>7, <1>8, <1>9, <1>10, <1>11, <1>12, <1>13, <1>14
       DEF Next, Client, Crawling

\* Every variable keeps its type, and the parser is between two offers unless an
\* offer is being replayed (engine.cpp:120-147, feed_parser.cpp:41-103).
THEOREM TypeCorrect == Spec => []TypeOK
  BY TypeInit, TypeNext, PTL DEF Spec

(***************************************************************************)
(* The queue.                                                              *)
(***************************************************************************)
\* The part of an action that matters to the queue: nothing happens to it, an
\* entry is taken without being touched, a specification is pushed, or an entry is
\* taken and filed under the id its document claims.
LEMMA QueueSteps ==
    ASSUME TypeOK, [Next]_crawlVars
    PROVE  /\ web' = web
           /\ \/ urls' = urls /\ next' = next
              \/ urls' = urls /\ next' = next + 1 /\ next < Len(urls)
              \/ \E spec \in Specs : urls' = Push(urls, spec) /\ next' = next
              \/ /\ next < Len(urls) /\ next' = next + 1
                 /\ urls[next + 1].id \in Ids
                 /\ urls' = Rename(urls, next + 1, web[urls[next + 1].id].href)
  <1>1. ASSUME NEW spec \in Requestable, NEW source \in BOOLEAN, AddRequest(spec, source)
        PROVE  web' = web /\ (\E s \in Specs : urls' = Push(urls, s)) /\ next' = next
    BY <1>1, CrawlAssumption DEF AddRequest
  <1>2. CASE ReadFeed
    <2>1. urls[next + 1] \in Specs
      BY <1>2 DEF ReadFeed, TypeOK
    <2>2. urls[next + 1].id \in Ids
      BY <2>1 DEF Specs
    <2>3. QED
      BY <1>2, <2>2 DEF ReadFeed
  <1>3. CASE Replay
    <2>1. Entry \in Entries
      BY <1>3, ParserPoints DEF Replay
    <2>2. Entry.spec \in Specs
      BY <2>1 DEF Entries
    <2>3. web' = web /\ next' = next /\ (urls' = urls \/ urls' = Push(urls, Entry.spec))
      BY <1>3 DEF Replay
    <2>4. QED
      BY <2>2, <2>3
  <1>4. CASE ReadFails
    BY <1>4 DEF ReadFails
  <1>5. CASE \E name \in DriverNames : AddDriver(name)
    BY <1>5 DEF AddDriver
  <1>6. CASE Run \/ SkipOffer \/ TakeOffer \/ AddImplementation \/ FinishFeed
               \/ ParseFails \/ ReadAll \/ Conclude \/ UNCHANGED crawlVars
    BY <1>6 DEF Run, SkipOffer, TakeOffer, AddImplementation, FinishFeed,
                ParseFails, ReadAll, Conclude, crawlVars
  <1>7. QED
    BY <1>1, <1>2, <1>3, <1>4, <1>5, <1>6 DEF Next, Client, Crawling

\* No step puts a feed into the queue that is there already: pushing looks for it,
\* and taking an entry renames it only if the document claims another id.
LEMMA DistinctNext == TypeOK /\ QueueDistinct /\ [Next]_crawlVars => QueueDistinct'
  <1> SUFFICES ASSUME TypeOK, QueueDistinct, [Next]_crawlVars PROVE QueueDistinct'
    OBVIOUS
  <1>1. urls \in Seq(Specs) /\ next \in Nat /\ web' = web /\ Canonical' = Canonical
    BY QueueSteps DEF TypeOK, Canonical
  <1>2. CASE urls' = urls /\ (next' = next \/ next' = next + 1)
    BY <1>1, <1>2 DEF QueueDistinct
  <1>3. CASE \E spec \in Specs : urls' = Push(urls, spec) /\ next' = next
    <2>1. PICK spec \in Specs : urls' = Push(urls, spec) /\ next' = next
      BY <1>3
    <2>2. CASE Canonical
      <3>1. \A i, j \in DOMAIN urls : (i # j /\ i > 0 /\ j > 0) => urls[i].id # urls[j].id
        BY <2>2 DEF QueueDistinct
      <3>2. \A i, j \in DOMAIN urls' : (i # j /\ i > 0 /\ j > 0) => urls'[i].id # urls'[j].id
        BY <1>1, <2>1, <3>1, PushDistinct
      <3>3. urls' \in Seq(Specs)
        BY <1>1, <2>1, PushType
      <3>4. QED
        BY <3>2, <3>3 DEF QueueDistinct
    <2>3. CASE ~Canonical
      <3>1. \A i, j \in DOMAIN urls : (i # j /\ i > next /\ j > next) => urls[i].id # urls[j].id
        BY DEF QueueDistinct
      <3>2. \A i, j \in DOMAIN urls' : (i # j /\ i > next /\ j > next) => urls'[i].id # urls'[j].id
        BY <1>1, <2>1, <3>1, PushDistinct
      <3>3. QED
        BY <1>1, <2>1, <2>3, <3>2 DEF QueueDistinct
    <2>4. QED
      BY <2>2, <2>3
  <1>4. CASE /\ next < Len(urls) /\ next' = next + 1
             /\ urls[next + 1].id \in Ids
             /\ urls' = Rename(urls, next + 1, web[urls[next + 1].id].href)
    <2>1. web[urls[next + 1].id].href \in Ids /\ next + 1 \in DOMAIN urls
      BY <1>1, <1>4, DocumentType DEF TypeOK
    <2>2. CASE Canonical
      <3>1. urls' = urls
        BY <1>1, <1>4, <2>1, <2>2, RenameType DEF Canonical
      <3>2. QED
        BY <1>1, <2>2, <3>1 DEF QueueDistinct
    <2>3. CASE ~Canonical
      <3>1. /\ Len(urls') = Len(urls) /\ urls' \in Seq(Specs)
            /\ \A j \in DOMAIN urls \ {next + 1} : urls'[j] = urls[j]
        BY <1>1, <1>4, <2>1, RenameType
      <3>2. QED
        BY <1>1, <1>4, <2>3, <3>1 DEF QueueDistinct
    <2>4. QED
      BY <2>2, <2>3
  <1>5. QED
    BY <1>2, <1>3, <1>4, QueueSteps

\* The queue holds no feed twice (feed_queue.hpp:26-48); with documents that claim
\* another id this is true of the entries still to be taken.
THEOREM QueueStaysDistinct == Spec => []QueueDistinct
  <1>1. Init => QueueDistinct
    BY DEF Init, QueueDistinct
  <1>2. QED
    BY <1>1, TypeCorrect, DistinctNext, PTL DEF Spec

(***************************************************************************)
(* The database.  Contiguous is not inductive: that the next entry belongs *)
(* to the feed that wrote the last ones is known only from the queue.  The *)
(* strengthening says that the database follows the order of the queue.    *)
(***************************************************************************)
QueueOrder ==
    Canonical =>
        /\ phase = "parse" => next > 0 /\ parser.id = urls[next].id
        /\ \A i, j \in DOMAIN db : i <= j =>
              \E p, q \in 1 .. next : p <= q /\ urls[p].id = db[i].id /\ urls[q].id = db[j].id

\* What was taken from the queue stays what it is while no document renames it.
LEMMA TakenStays ==
    ASSUME TypeOK, [Next]_crawlVars, Canonical
    PROVE  /\ next' >= next /\ next \in Nat
           /\ \A p \in DOMAIN urls : p \in DOMAIN urls' /\ urls'[p] = urls[p]
  <1>1. urls \in Seq(Specs) /\ next \in Nat
    BY DEF TypeOK
  <1>2. CASE urls' = urls /\ (next' = next \/ next' = next + 1)
    BY <1>1, <1>2
  <1>3. CASE \E spec \in Specs : urls' = Push(urls, spec) /\ next' = next
    <2>1. PICK spec \in Specs : urls' = Push(urls, spec) /\ next' = next
      BY <1>3
    <2>2. /\ urls' \in Seq(Specs) /\ Len(urls') >= Len(urls)
          /\ \A i \in DOMAIN urls : urls'[i] = urls[i]
      BY <1>1, <2>1, PushType
    <2>3. QED
      BY <1>1, <2>1, <2>2
  <1>4. CASE /\ next < Len(urls) /\ next' = next + 1
             /\ urls[next + 1].id \in Ids
             /\ urls' = Rename(urls, next + 1, web[urls[next + 1].id].href)
    <2>1. web[urls[next + 1].id].href \in Ids /\ next + 1 \in DOMAIN urls
      BY <1>1, <1>4, DocumentType DEF TypeOK
    <2>2. urls' = urls
      BY <1>1, <1>4, <2>1, RenameType DEF Canonical
    <2>3. QED
      BY <1>1, <1>4, <2>2
  <1>5. QED
    BY <1>2, <1>3, <1>4, QueueSteps

\* Only AddImplementation appends to the database, and it appends what was taken
\* from the queue last (feed_parser.cpp:157 and 348).
LEMMA OrderNext == TypeOK /\ QueueOrder /\ [Next]_crawlVars => QueueOrder'
  <1> SUFFICES ASSUME TypeOK, QueueOrder, [Next]_crawlVars, Canonical' PROVE QueueOrder'
    BY DEF QueueOrder
  <1>1. Canonical
    BY QueueSteps DEF Canonical
  <1>2. /\ next' >= next /\ next \in Nat /\ next' \in Nat /\ next <= Len(urls)
        /\ urls \in Seq(Specs) /\ db \in Seq(Impls)
        /\ \A p \in DOMAIN urls : p \in DOMAIN urls' /\ urls'[p] = urls[p]
    BY <1>1, TakenStays, TypeNext DEF TypeOK
  <1> DEFINE Sorted(u, n, d) ==
         \A i, j \in DOMAIN d : i <= j =>
            \E p, q \in 1 .. n : p <= q /\ u[p].id = d[i].id /\ u[q].id = d[j].id
  <1>3. Sorted(urls, next, db) /\ (phase = "parse" => next > 0 /\ parser.id = urls[next].id)
    BY <1>1 DEF QueueOrder
  <1>4. Sorted(urls', next', db)
    <2>1. SUFFICES ASSUME NEW i \in DOMAIN db, NEW j \in DOMAIN db, i <= j
                   PROVE  \E p, q \in 1 .. next' :
                             p <= q /\ urls'[p].id = db[i].id /\ urls'[q].id = db[j].id
      OBVIOUS
    <2>2. PICK p, q \in 1 .. next : p <= q /\ urls[p].id = db[i].id /\ urls[q].id = db[j].id
      BY <1>3, <2>1
    <2>3. p \in DOMAIN urls /\ q \in DOMAIN urls
      BY <1>2
    <2>4. p \in 1 .. next' /\ q \in 1 .. next' /\ urls'[p] = urls[p] /\ urls'[q] = urls[q]
      BY <1>2, <2>3
    <2>5. QED
      BY <2>2, <2>4
  <1>5. CASE AddImplementation
    <2>1. PICK impl : db' = Append(db, impl) /\ impl.id = parser.id
      BY <1>5 DEF AddImplementation, Implementation
    <2>2. next' = next /\ next > 0 /\ impl.id = urls[next].id /\ urls' = urls /\ phase' = phase
      BY <1>3, <1>5, <2>1 DEF AddImplementation
    <2>3. parser'.id = parser.id
      BY <1>5 DEF AddImplementation, TypeOK, Parsers
    <2>4. DOMAIN db' = 1 .. Len(db) + 1 /\ db'[Len(db) + 1] = impl
          /\ \A i \in DOMAIN db : db'[i] = db[i]
      BY <1>2, <2>1
    <2>5. ASSUME NEW i \in DOMAIN db', NEW j \in DOMAIN db', i <= j
          PROVE  \E p, q \in 1 .. next :
                    p <= q /\ urls[p].id = db'[i].id /\ urls[q].id = db'[j].id
      <3>1. CASE j \in DOMAIN db
        <4>1. i \in DOMAIN db
          BY <1>2, <2>4, <2>5, <3>1
        <4>2. db'[i] = db[i] /\ db'[j] = db[j]
          BY <2>4, <3>1, <4>1
        <4>3. QED
          BY <1>3, <2>5, <3>1, <4>1, <4>2
      <3>2. CASE j = Len(db) + 1 /\ i \in DOMAIN db
        <4>1. PICK p \in 1 .. next : urls[p].id = db[i].id
          BY <1>3, <3>2
        <4>2. QED
          BY <1>2, <2>2, <2>4, <3>2, <4>1
      <3>3. CASE j = Len(db) + 1 /\ i = Len(db) + 1
        BY <1>2, <2>2, <2>4, <3>3
      <3>4. QED
        BY <1>2, <2>4, <3>1, <3>2, <3>3
    <2>6. phase' = "parse" => next' > 0 /\ parser'.id = urls'[next'].id
      BY <1>3, <1>5, <2>2, <2>3 DEF AddImplementation
    <2>7. Sorted(urls', next', db')
      BY <2>2, <2>5
    <2>8. QED
      BY <2>6, <2>7 DEF QueueOrder
  <1>6. CASE ReadFeed
    <2>1. urls[next + 1] \in Specs /\ next + 1 \in DOMAIN urls
      BY <1>2, <1>6 DEF ReadFeed
    <2>2. urls[next + 1].id \in Ids
      BY <2>1 DEF Specs
    <2>3. parser'.id = urls[next + 1].id
      BY <1>1, <1>6, <2>2 DEF ReadFeed, NewParser, Canonical
    <2>4. urls'[next'].id = urls[next + 1].id /\ next' > 0
      BY <1>2, <1>6, <2>1 DEF ReadFeed
    <2>5. QED
      BY <1>4, <1>6, <2>3, <2>4 DEF QueueOrder, ReadFeed
  <1>7. CASE SkipOffer \/ TakeOffer \/ Replay
    <2>1. parser'.id = parser.id /\ phase = "parse" /\ next' = next /\ db' = db
      BY <1>7 DEF SkipOffer, TakeOffer, Replay, TypeOK, Parsers
    <2>2. urls'[next] = urls[next]
      BY <1>2, <1>3, <2>1
    <2>3. QED
      BY <1>3, <1>4, <2>1, <2>2 DEF QueueOrder
  <1>8. CASE UNCHANGED crawlVars
    BY <1>3, <1>4, <1>8 DEF QueueOrder, crawlVars
  <1>9. ASSUME phase' # "parse", db' = db
        PROVE  QueueOrder'
    BY <1>4, <1>9 DEF QueueOrder
  <1>10. CASE Client
    BY <1>9, <1>10 DEF Client, AddDriver, AddRequest, Run
  <1>11. CASE ReadFails \/ FinishFeed \/ ParseFails \/ ReadAll \/ Conclude
    BY <1>9, <1>11 DEF ReadFails, FinishFeed, ParseFails, ReadAll, Conclude
  <1>12. QED
    BY <1>5, <1>6, <1>7, <1>8, <1>10, <1>11 DEF Next, Crawling

\* The database follows the queue (engine.cpp:123-147).
THEOREM DatabaseFollowsQueue == Spec => []QueueOrder
  <1>1. Init => QueueOrder
    BY DEF Init, QueueOrder
  <1>2. QED
    BY <1>1, TypeCorrect, OrderNext, PTL DEF Spec

\* Distinct queue entries and a database in their order leave the implementations
\* of a project together: solve.cpp:142-145 finds every pair it looks for.
THEOREM DatabaseContiguous == Spec => []Contiguous
  <1>1. TypeOK /\ QueueDistinct /\ QueueOrder => Contiguous
    <2>1. SUFFICES ASSUME TypeOK, QueueDistinct, QueueOrder, Canonical,
                          NEW i \in DOMAIN db, NEW j \in DOMAIN db, NEW k \in DOMAIN db,
                          i < j, j < k, db[i].id = db[k].id
                   PROVE  db[j].id = db[i].id
      BY DEF Contiguous
    <2>2. /\ next \in Nat /\ next <= Len(urls) /\ Len(urls) \in Nat /\ DOMAIN urls = 1 .. Len(urls)
          /\ i \in Nat /\ j \in Nat /\ k \in Nat
      <3>1. db \in Seq(Impls) /\ urls \in Seq(Specs) /\ next \in 0 .. Len(urls)
        BY <2>1 DEF TypeOK
      <3>2. DOMAIN db = 1 .. Len(db) /\ DOMAIN urls = 1 .. Len(urls) /\ Len(urls) \in Nat
        BY <3>1
      <3>3. QED
        BY <3>1, <3>2
    <2>3. \A m, n \in DOMAIN db : m <= n =>
             \E p, q \in 1 .. next : p <= q /\ urls[p].id = db[m].id /\ urls[q].id = db[n].id
      BY <2>1 DEF QueueOrder
    <2>4. i <= j /\ j <= k
      BY <2>1, <2>2
    <2>5. PICK p, q \in 1 .. next : p <= q /\ urls[p].id = db[i].id /\ urls[q].id = db[j].id
      BY <2>1, <2>3, <2>4
    <2>6. PICK r, t \in 1 .. next : r <= t /\ urls[r].id = db[j].id /\ urls[t].id = db[k].id
      BY <2>1, <2>3, <2>4
    <2>7. p = t /\ q = r
      BY <2>1, <2>2, <2>5, <2>6 DEF QueueDistinct
    <2>8. QED
      BY <2>2, <2>5, <2>6, <2>7
  <1>2. QED
    BY <1>1, TypeCorrect, QueueStaysDistinct, DatabaseFollowsQueue, PTL

(***************************************************************************)
(* Closure.  The strengthening follows a dependency from the parser, where *)
(* it is collected when it is pushed, into the database.                   *)
(***************************************************************************)
QueuedIds == {urls[p].id : p \in DOMAIN urls}
IdsOf(specs) == {s.id : s \in ToSet(specs)}

NeedsQueued ==
    Canonical =>
        /\ phase = "solve" => next = Len(urls)
        /\ \A n \in DOMAIN requests : requests[n].id \in QueuedIds
        /\ IdsOf(parser.depends) \subseteq QueuedIds
        /\ \A n \in DOMAIN db : IdsOf(db[n].depends) \subseteq QueuedIds

\* Pushing a specification queues its id.
LEMMA PushQueues ==
    ASSUME TypeOK, NEW spec \in Specs, urls' = Push(urls, spec)
    PROVE  spec.id \in QueuedIds'
  <1>1. PICK i \in DOMAIN Push(urls, spec) : Push(urls, spec)[i].id = spec.id
    BY PushType DEF TypeOK
  <1>2. QED
    BY <1>1 DEF QueuedIds

\* Collecting a specification adds its id and no other.
LEMMA IdsOfAppend ==
    ASSUME NEW specs \in Seq(Specs), NEW s \in Specs
    PROVE  IdsOf(Append(specs, s)) \subseteq IdsOf(specs) \cup {s.id}
  <1>1. \A i \in DOMAIN Append(specs, s) : i \in DOMAIN specs \/ Append(specs, s)[i] = s
    OBVIOUS
  <1>2. \A i \in DOMAIN specs : Append(specs, s)[i] = specs[i]
    OBVIOUS
  <1>3. QED
    BY <1>1, <1>2 DEF IdsOf, ToSet

\* Whatever is collected was pushed in the same step, and what was pushed stays
\* (dependencies.cpp:65-71).
LEMMA NeedsNext == TypeOK /\ NeedsQueued /\ [Next]_crawlVars => NeedsQueued'
  <1> SUFFICES ASSUME TypeOK, NeedsQueued, [Next]_crawlVars, Canonical' PROVE NeedsQueued'
    BY DEF NeedsQueued
  <1>1. Canonical
    BY QueueSteps DEF Canonical
  <1>2. QueuedIds \subseteq QueuedIds'
    BY <1>1, TakenStays DEF QueuedIds
  <1>3. urls \in Seq(Specs) /\ db \in Seq(Impls) /\ requests \in Seq(Specs) /\ parser \in Parsers
    BY DEF TypeOK
  <1>4. /\ phase = "solve" => next = Len(urls)
        /\ \A n \in DOMAIN requests : requests[n].id \in QueuedIds'
        /\ IdsOf(parser.depends) \subseteq QueuedIds'
        /\ \A n \in DOMAIN db : IdsOf(db[n].depends) \subseteq QueuedIds'
    BY <1>1, <1>2 DEF NeedsQueued
  <1>5. IdsOf(<< >>) = {}
    BY DEF IdsOf, ToSet
  <1>6. ASSUME NEW spec \in Requestable, NEW source \in BOOLEAN, AddRequest(spec, source)
        PROVE  NeedsQueued'
    <2>1. spec \in Specs
      BY CrawlAssumption
    <2>2. PICK r : requests' = Append(requests, r) /\ r.id = spec.id /\ r \in Specs
      BY <1>6, <2>1, CrawlAssumption DEF AddRequest, Specs
    <2>3. spec.id \in QueuedIds'
      BY <1>6, <2>1, PushQueues DEF AddRequest
    <2>4. \A n \in DOMAIN requests' : requests'[n].id \in QueuedIds'
      BY <1>3, <1>4, <2>2, <2>3
    <2>5. QED
      BY <1>4, <1>6, <2>4 DEF NeedsQueued, AddRequest
  <1>7. CASE ReadFeed
    <2>1. parser'.depends = << >>
      BY <1>7 DEF ReadFeed, NewParser
    <2>2. QED
      BY <1>4, <1>5, <1>7, <2>1 DEF NeedsQueued, ReadFeed
  <1>8. CASE TakeOffer
    <2>1. parser'.depends = << >>
      BY <1>3, <1>8 DEF TakeOffer, Parsers
    <2>2. QED
      BY <1>4, <1>5, <1>8, <2>1 DEF NeedsQueued, TakeOffer
  <1>9. CASE Replay
    <2>1. CASE Active(Entry, Offer) /\ Entry.kind = "depends"
      <3>1. Entry.spec \in Specs
        BY <1>9, ParserPoints DEF Replay, Entries
      <3>2. urls' = Push(urls, Entry.spec)
        BY <1>9, <2>1 DEF Replay
      <3>3. parser'.depends = Append(parser.depends, Entry.spec)
        BY <1>3, <1>9, <2>1 DEF Replay, Parsers
      <3>4. Entry.spec.id \in QueuedIds'
        BY <3>1, <3>2, PushQueues
      <3>5. parser.depends \in Seq(Specs)
        BY <1>3 DEF Parsers
      <3>6. IdsOf(parser'.depends) \subseteq QueuedIds'
        BY <1>4, <3>1, <3>3, <3>4, <3>5, IdsOfAppend
      <3>7. QED
        BY <1>4, <1>9, <3>6 DEF NeedsQueued, Replay
    <2>2. CASE ~(Active(Entry, Offer) /\ Entry.kind = "depends")
      <3>1. parser'.depends = parser.depends
        BY <1>3, <1>9, <2>2 DEF Replay, Parsers
      <3>2. QED
        BY <1>4, <1>9, <3>1 DEF NeedsQueued, Replay
    <2>3. QED
      BY <2>1, <2>2
  <1>10. CASE AddImplementation
    <2>1. PICK impl : db' = Append(db, impl) /\ impl.depends = parser.depends
      BY <1>10 DEF AddImplementation, Implementation
    <2>2. parser'.depends = parser.depends
      BY <1>3, <1>10 DEF AddImplementation, Parsers
    <2>3. \A n \in DOMAIN db' : IdsOf(db'[n].depends) \subseteq QueuedIds'
      BY <1>3, <1>4, <2>1
    <2>4. QED
      BY <1>4, <1>10, <2>2, <2>3 DEF NeedsQueued, AddImplementation
  <1>11. CASE SkipOffer
    <2>1. parser'.depends = parser.depends
      BY <1>3, <1>11 DEF SkipOffer, Parsers
    <2>2. QED
      BY <1>4, <1>11, <2>1 DEF NeedsQueued, SkipOffer
  <1>12. CASE FinishFeed \/ ParseFails
    <2>1. parser'.depends = << >>
      BY <1>12 DEF FinishFeed, ParseFails, NoParser
    <2>2. QED
      BY <1>4, <1>5, <1>12, <2>1 DEF NeedsQueued, FinishFeed, ParseFails
  <1>13. CASE Run \/ ReadFails \/ ReadAll \/ Conclude \/ UNCHANGED crawlVars
    BY <1>4, <1>13 DEF NeedsQueued, Run, ReadFails, ReadAll, Conclude, crawlVars
  <1>14. ASSUME NEW name \in DriverNames, AddDriver(name) PROVE NeedsQueued'
    BY <1>4, <1>14 DEF NeedsQueued, AddDriver
  <1>15. QED
    BY <1>6, <1>7, <1>8, <1>9, <1>10, <1>11, <1>12, <1>13, <1>14 DEF Next, Client, Crawling

\* The solver never gets a database in which the feed of a request or of a
\* dependency was not taken from the queue first (engine.cpp:123-155,
\* dependencies.cpp:65-71).
THEOREM DatabaseClosed == Spec => []ClosedUnderDependencies
  <1>1. Init => NeedsQueued
    BY DEF Init, NeedsQueued, NoParser, IdsOf, ToSet
  <1>2. TypeOK /\ NeedsQueued => ClosedUnderDependencies
    <2>1. ASSUME TypeOK, NeedsQueued, Canonical, phase = "solve"
          PROVE  QueuedIds = {urls[p].id : p \in 1 .. next}
      BY <2>1 DEF TypeOK, NeedsQueued, QueuedIds
    <2>2. QED
      BY <2>1 DEF NeedsQueued, ClosedUnderDependencies, IdsOf
  <1>3. QED
    BY <1>1, <1>2, TypeCorrect, NeedsNext, PTL DEF Spec

(***************************************************************************)
(* The yield of a feed, offer by offer and entry by entry.  The operators  *)
(* are those of DatabaseExact as functions of the network and the drivers. *)
(***************************************************************************)
EligibleUnder(registered, doc, offer, query) ==
    /\ offer.type \in registered
    /\ IF offer.component = Source
       THEN OfferBuild(offer) \in query.accepts
       ELSE offer.system \/ offer.version \in doc.releases

Chosen(registered, doc, query, n) ==
    Ascending(n, {o \in DOMAIN doc.offers : EligibleUnder(registered, doc, doc.offers[o], query)})

Implemented(id, doc, offer) ==
    Implementation(id, offer, Collected(doc, offer, "depends", Len(doc.entries)),
                              Collected(doc, offer, "conflicts", Len(doc.entries)))

YieldOf(network, registered, spec, n) ==
    LET doc == network[spec.id]
        chosen == Chosen(registered, doc, spec.query, n)
    IN [i \in DOMAIN chosen |-> Implemented(spec.id, doc, doc.offers[chosen[i]])]

YieldsOf(network, registered, queue, k) ==
    FlattenSeq([p \in 1 .. k |->
                  YieldOf(network, registered, queue[p], Len(network[queue[p].id].offers))])

\* They are what DatabaseExact says.
LEMMA YieldsAsStated ==
    FlattenSeq([p \in 1 .. next |-> Yield(urls[p])]) = YieldsOf(web, drivers, urls, next)
  BY DEF YieldsOf, YieldOf, Yield, YieldUpto, Chosen, EligibleUnder, Eligible, Implemented

\* What a list of numbers picks from a function, and what one number more adds.
Picked(q, g) == [i \in DOMAIN q |-> g[q[i]]]

LEMMA PickedAppend ==
    ASSUME NEW q \in Seq(Nat), NEW k \in Nat, NEW g
    PROVE  /\ Picked(Append(q, k), g) = Append(Picked(q, g), g[k])
           /\ Picked(q, g) \in Seq({g[n] : n \in Nat})
  <1> DEFINE T == {g[n] : n \in Nat}
  <1>1. \A i \in DOMAIN q : q[i] \in Nat
    OBVIOUS
  <1>2. DOMAIN q = 1 .. Len(q) /\ Len(q) \in Nat
    OBVIOUS
  <1>3. g[k] \in T /\ \A i \in DOMAIN q : g[q[i]] \in T
    BY <1>1
  <1> HIDE DEF T
  <1>4. Picked(q, g) \in Seq(T) /\ Len(Picked(q, g)) = Len(q)
    BY <1>2, <1>3 DEF Picked
  <1>5. Append(Picked(q, g), g[k]) = [i \in 1 .. Len(q) + 1 |-> IF i = Len(q) + 1 THEN g[k] ELSE g[q[i]]]
    <2>1. /\ Append(Picked(q, g), g[k]) \in Seq(T) /\ Len(Append(Picked(q, g), g[k])) = Len(q) + 1
          /\ Append(Picked(q, g), g[k])[Len(q) + 1] = g[k]
          /\ \A i \in 1 .. Len(q) : Append(Picked(q, g), g[k])[i] = Picked(q, g)[i]
      BY <1>2, <1>3, <1>4
    <2>2. \A i \in 1 .. Len(q) : Picked(q, g)[i] = g[q[i]]
      BY <1>2 DEF Picked
    <2>3. \A i \in 1 .. Len(q) + 1 : i = Len(q) + 1 \/ i \in 1 .. Len(q)
      BY <1>2
    <2>4. \A i \in 1 .. Len(q) : i # Len(q) + 1
      BY <1>2
    <2> DEFINE m == Len(q) + 1
               r == Append(Picked(q, g), g[k])
    <2>5. r \in Seq(T) /\ Len(r) = m /\ \A i \in 1 .. m : r[i] = IF i = m THEN g[k] ELSE g[q[i]]
      BY <2>1, <2>2, <2>3, <2>4
    <2>6. m \in Nat
      BY <1>2
    <2> HIDE DEF r, m
    <2>7. r = [i \in 1 .. m |-> IF i = m THEN g[k] ELSE g[q[i]]]
      BY <2>5, <2>6
    <2>8. QED
      BY <2>7 DEF r, m
  <1>6. /\ DOMAIN Append(q, k) = 1 .. Len(q) + 1 /\ Append(q, k)[Len(q) + 1] = k
        /\ \A i \in 1 .. Len(q) : Append(q, k)[i] = q[i]
    BY <1>2
  <1>7. \A i \in 1 .. Len(q) + 1 : g[Append(q, k)[i]] = IF i = Len(q) + 1 THEN g[k] ELSE g[q[i]]
    <2>1. \A i \in 1 .. Len(q) + 1 : i = Len(q) + 1 \/ i \in 1 .. Len(q)
      BY <1>2
    <2>2. \A i \in 1 .. Len(q) : i # Len(q) + 1
      BY <1>2
    <2>3. QED
      BY <1>6, <2>1, <2>2
  <1>8. QED
    BY <1>4, <1>5, <1>6, <1>7 DEF Picked, T

\* The concatenations that FlattenSeq builds, sequence by sequence.
IsFlatten(ss, n, f) == f = [i \in 1 .. n |-> IF i = 1 THEN ss[i] ELSE f[i - 1] \o ss[i]]

LEMMA FlattenExists ==
    ASSUME NEW n \in Nat, NEW ss
    PROVE  \E f : IsFlatten(ss, n, f)
  <1> DEFINE P == {k \in Nat : \E f : IsFlatten(ss, k, f)}
  <1>1. 0 \in P
    <2> DEFINE f == [i \in 1 .. 0 |-> << >>]
    <2>1. IsFlatten(ss, 0, f)
      BY DEF IsFlatten
    <2>2. QED
      BY <2>1
  <1>2. ASSUME NEW k \in P PROVE k + 1 \in P
    <2>1. k \in Nat /\ \A i \in 1 .. k + 1 : i = k + 1 \/ (i \in 1 .. k /\ i # k + 1)
      OBVIOUS
    <2>2. PICK f : IsFlatten(ss, k, f)
      OBVIOUS
    <2>3. DOMAIN f = 1 .. k /\ \A i \in 1 .. k : f[i] = IF i = 1 THEN ss[i] ELSE f[i - 1] \o ss[i]
      BY <2>2 DEF IsFlatten
    <2> DEFINE last == IF k + 1 = 1 THEN ss[k + 1] ELSE f[k] \o ss[k + 1]
               h == [i \in 1 .. k + 1 |-> IF i = k + 1 THEN last ELSE f[i]]
    <2>4. \A i \in 1 .. k + 1 : h[i] = IF i = 1 THEN ss[i] ELSE h[i - 1] \o ss[i]
      <3> SUFFICES ASSUME NEW i \in 1 .. k + 1
                   PROVE  h[i] = IF i = 1 THEN ss[i] ELSE h[i - 1] \o ss[i]
        OBVIOUS
      <3> HIDE DEF last
      <3>1. CASE i = k + 1
        <4>1. h[i] = last /\ i - 1 = k /\ (i # 1 => h[i - 1] = f[k])
          BY <2>1, <3>1
        <4>2. QED
          BY <3>1, <4>1 DEF last
      <3>2. CASE i # k + 1
        <4>1. i \in 1 .. k /\ h[i] = f[i] /\ (i # 1 => i - 1 \in 1 .. k + 1 /\ i - 1 # k + 1 /\ h[i - 1] = f[i - 1])
          BY <2>1, <3>2
        <4> HIDE DEF h
        <4>2. QED
          BY <2>3, <4>1
      <3>3. QED
        BY <3>1, <3>2
    <2>5. IsFlatten(ss, k + 1, h)
      <3> HIDE DEF last
      <3>1. h = [i \in 1 .. k + 1 |-> IF i = 1 THEN ss[i] ELSE h[i - 1] \o ss[i]]
        BY <2>4
      <3>2. QED
        BY <3>1 DEF IsFlatten
    <2>6. k + 1 \in Nat
      BY <2>1
    <2> HIDE DEF h
    <2>7. QED
      BY <2>5, <2>6
  <1>3. P \in SUBSET Nat
    OBVIOUS
  <1> HIDE DEF P
  <1>4. P = Nat
    BY <1>1, <1>2, <1>3, InductionOverNat
  <1>5. QED
    BY <1>4 DEF P

\* FlattenSeq is the last value of such a function.
LEMMA FlattenDefined ==
    ASSUME NEW n \in Nat, n # 0, NEW ss, Len(ss) = n
    PROVE  \E f : IsFlatten(ss, n, f) /\ FlattenSeq(ss) = f[n]
  <1> DEFINE f == CHOOSE f : IsFlatten(ss, n, f)
  <1>1. IsFlatten(ss, n, f)
    BY FlattenExists
  <1>2. FlattenSeq(ss) = f[n]
    BY DEF FlattenSeq, IsFlatten
  <1>3. QED
    BY <1>1, <1>2

\* One sequence more is concatenated.
LEMMA FlattenStep ==
    ASSUME NEW n \in Nat, NEW s, NEW t, Len(s) = n, Len(t) = n + 1,
           s = << >> \/ n # 0,
           \A i \in 1 .. n : t[i] = s[i],
           NEW T, t[n + 1] \in Seq(T)
    PROVE  FlattenSeq(t) = FlattenSeq(s) \o t[n + 1]
  <1>1. PICK f : IsFlatten(t, n + 1, f) /\ FlattenSeq(t) = f[n + 1]
    BY FlattenDefined
  <1>2. \A i \in 1 .. n + 1 : f[i] = IF i = 1 THEN t[i] ELSE f[i - 1] \o t[i]
    BY <1>1 DEF IsFlatten
  <1>3. CASE n = 0
    <2>1. FlattenSeq(s) = << >>
      BY <1>3 DEF FlattenSeq
    <2>2. f[n + 1] = t[n + 1]
      BY <1>2, <1>3
    <2>3. << >> \o t[n + 1] = t[n + 1]
      OBVIOUS
    <2>4. QED
      BY <1>1, <2>1, <2>2, <2>3
  <1>4. CASE n # 0
    <2>1. PICK a : IsFlatten(s, n, a) /\ FlattenSeq(s) = a[n]
      BY <1>4, FlattenDefined
    <2>2. \A i \in 1 .. n : a[i] = IF i = 1 THEN s[i] ELSE a[i - 1] \o s[i]
      BY <2>1 DEF IsFlatten
    <2> DEFINE N == n - 1
               F == [i \in 0 .. n |-> f[i + 1]]
               A == [i \in 0 .. n |-> a[i + 1]]
    <2>3. N \in Nat /\ N + 1 = n
      BY <1>4
    <2>4. F[0] = A[0] /\ \A i \in 1 .. N : F[i - 1] = A[i - 1] => F[i] = A[i]
      <3>1. f[1] = a[1]
        BY <1>2, <1>4, <2>2
      <3>2. \A i \in 1 .. N : f[i] = a[i] => f[i + 1] = a[i + 1]
        <4>1. \A i \in 1 .. N : i + 1 \in 1 .. n /\ i + 1 \in 1 .. n + 1 /\ i + 1 # 1 /\ (i + 1) - 1 = i
          OBVIOUS
        <4>2. QED
          BY <1>2, <2>2, <4>1
      <3>3. \A i \in 1 .. N : i \in 0 .. n /\ i - 1 \in 0 .. n /\ (i - 1) + 1 = i
        BY ONLY n \in Nat
      <3>4. 0 \in 0 .. n /\ 0 + 1 = 1
        OBVIOUS
      <3>5. QED
        BY <3>1, <3>2, <3>3, <3>4
    <2>5. F[N] = f[n] /\ A[N] = a[n] /\ N \in 0 .. N
      BY <2>3
    <2> HIDE DEF N, F, A
    <2>6. \A i \in 0 .. N : F[i] = A[i]
      BY ONLY <2>3, <2>4, SameRun
    <2>7. f[n] = a[n]
      BY <2>5, <2>6
    <2>8. f[n + 1] = f[n] \o t[n + 1]
      <3>1. n + 1 \in 1 .. n + 1 /\ n + 1 # 1 /\ (n + 1) - 1 = n
        BY <1>4
      <3>2. QED
        BY <1>2, <3>1
    <2>9. QED
      BY <1>1, <2>1, <2>7, <2>8
  <1>5. QED
    BY <1>3, <1>4

\* What replaying one entry more collects.
LEMMA CollectedStep ==
    ASSUME NEW doc, NEW offer, NEW kind
    PROVE  /\ Collected(doc, offer, kind, 0) = << >>
           /\ \A n \in Nat : n + 1 \in DOMAIN doc.entries =>
                Collected(doc, offer, kind, n + 1) =
                  IF doc.entries[n + 1].kind = kind /\ Active(doc.entries[n + 1], offer)
                  THEN Append(Collected(doc, offer, kind, n), doc.entries[n + 1].spec)
                  ELSE Collected(doc, offer, kind, n)
  <1> DEFINE S == {e \in DOMAIN doc.entries : doc.entries[e].kind = kind /\ Active(doc.entries[e], offer)}
             g == [e \in Nat |-> doc.entries[e].spec]
  <1>1. \A n \in Nat : Collected(doc, offer, kind, n) = Picked(Ascending(n, S), g)
    <2> SUFFICES ASSUME NEW n \in Nat PROVE Collected(doc, offer, kind, n) = Picked(Ascending(n, S), g)
      OBVIOUS
    <2> DEFINE q == Ascending(n, S)
    <2>1. Collected(doc, offer, kind, n) = [i \in DOMAIN q |-> doc.entries[q[i]].spec]
      BY DEF Collected
    <2>2. q \in Seq(Nat)
      BY AscendingType
    <2> HIDE DEF q
    <2>3. \A i \in DOMAIN q : q[i] \in Nat
      BY <2>2
    <2>4. \A i \in DOMAIN q : g[q[i]] = doc.entries[q[i]].spec
      BY <2>3
    <2> HIDE DEF g
    <2>5. QED
      BY <2>1, <2>4 DEF Picked, q
  <1>2. \A n : n \in DOMAIN doc.entries =>
           (n \in S <=> doc.entries[n].kind = kind /\ Active(doc.entries[n], offer))
    OBVIOUS
  <1>3. \A n \in Nat : g[n] = doc.entries[n].spec
    OBVIOUS
  <1> HIDE DEF S, g
  <1>4. Collected(doc, offer, kind, 0) = << >>
    <2>1. Ascending(0, S) = << >>
      BY AscendingStep
    <2>2. QED
      BY <1>1, <2>1 DEF Picked
  <1>5. ASSUME NEW n \in Nat, n + 1 \in DOMAIN doc.entries
        PROVE  Collected(doc, offer, kind, n + 1) =
                  IF doc.entries[n + 1].kind = kind /\ Active(doc.entries[n + 1], offer)
                  THEN Append(Collected(doc, offer, kind, n), doc.entries[n + 1].spec)
                  ELSE Collected(doc, offer, kind, n)
    <2>1. Ascending(n + 1, S) = IF n + 1 \in S THEN Append(Ascending(n, S), n + 1) ELSE Ascending(n, S)
      BY AscendingStep
    <2>2. n + 1 \in Nat /\ Ascending(n, S) \in Seq(Nat)
      BY AscendingType
    <2>3. Picked(Append(Ascending(n, S), n + 1), g) = Append(Picked(Ascending(n, S), g), g[n + 1])
      BY <2>2, PickedAppend
    <2>4. QED
      BY <1>1, <1>2, <1>3, <1>5, <2>1, <2>2, <2>3
  <1>6. QED
    BY <1>4, <1>5

\* What one offer more yields.
LEMMA YieldStep ==
    ASSUME NEW network, NEW registered, NEW spec
    PROVE  LET doc == network[spec.id] IN
           /\ YieldOf(network, registered, spec, 0) = << >>
           /\ \A n \in Nat : n + 1 \in DOMAIN doc.offers =>
                YieldOf(network, registered, spec, n + 1) =
                  IF EligibleUnder(registered, doc, doc.offers[n + 1], spec.query)
                  THEN Append(YieldOf(network, registered, spec, n),
                              Implemented(spec.id, doc, doc.offers[n + 1]))
                  ELSE YieldOf(network, registered, spec, n)
           /\ \E T : \A n \in Nat : YieldOf(network, registered, spec, n) \in Seq(T)
  <1> DEFINE doc == network[spec.id]
             S == {o \in DOMAIN doc.offers : EligibleUnder(registered, doc, doc.offers[o], spec.query)}
             g == [o \in Nat |-> Implemented(spec.id, doc, doc.offers[o])]
             Y(n) == YieldOf(network, registered, spec, n)
  <1>1. \A n \in Nat : Y(n) = Picked(Ascending(n, S), g)
    <2> SUFFICES ASSUME NEW n \in Nat PROVE Y(n) = Picked(Ascending(n, S), g)
      OBVIOUS
    <2> DEFINE q == Ascending(n, S)
    <2>1. Y(n) = [i \in DOMAIN q |-> Implemented(spec.id, doc, doc.offers[q[i]])]
      BY DEF YieldOf, Chosen
    <2>2. q \in Seq(Nat)
      BY AscendingType
    <2> HIDE DEF q
    <2>3. \A i \in DOMAIN q : q[i] \in Nat
      BY <2>2
    <2>4. \A i \in DOMAIN q : g[q[i]] = Implemented(spec.id, doc, doc.offers[q[i]])
      BY <2>3
    <2> HIDE DEF g, Y
    <2>5. QED
      BY <2>1, <2>4 DEF Picked, q
  <1>2. \A n : n \in DOMAIN doc.offers =>
           (n \in S <=> EligibleUnder(registered, doc, doc.offers[n], spec.query))
    OBVIOUS
  <1>3. \A n \in Nat : g[n] = Implemented(spec.id, doc, doc.offers[n])
    OBVIOUS
  <1> HIDE DEF S, g, Y, doc
  <1>4. Y(0) = << >>
    <2>1. Ascending(0, S) = << >>
      BY AscendingStep
    <2>2. QED
      BY <1>1, <2>1 DEF Picked
  <1>5. ASSUME NEW n \in Nat, n + 1 \in DOMAIN doc.offers
        PROVE  Y(n + 1) = IF EligibleUnder(registered, doc, doc.offers[n + 1], spec.query)
                          THEN Append(Y(n), Implemented(spec.id, doc, doc.offers[n + 1]))
                          ELSE Y(n)
    <2>1. Ascending(n + 1, S) = IF n + 1 \in S THEN Append(Ascending(n, S), n + 1) ELSE Ascending(n, S)
      BY AscendingStep
    <2>2. n + 1 \in Nat /\ Ascending(n, S) \in Seq(Nat)
      BY AscendingType
    <2>3. Picked(Append(Ascending(n, S), n + 1), g) = Append(Picked(Ascending(n, S), g), g[n + 1])
      BY <2>2, PickedAppend
    <2>4. QED
      BY <1>1, <1>2, <1>3, <1>5, <2>1, <2>2, <2>3
  <1>6. \A n \in Nat : Y(n) \in Seq({g[k] : k \in Nat})
    BY <1>1, AscendingType, PickedAppend
  <1>7. QED
    BY <1>4, <1>5, <1>6 DEF Y, doc

\* What one queue entry more yields.
LEMMA YieldsStep ==
    ASSUME NEW network, NEW registered, NEW queue, NEW n \in Nat,
           Len(network[queue[n + 1].id].offers) \in Nat
    PROVE  YieldsOf(network, registered, queue, n + 1) =
             YieldsOf(network, registered, queue, n)
               \o YieldOf(network, registered, queue[n + 1], Len(network[queue[n + 1].id].offers))
  <1> DEFINE Y(p) == YieldOf(network, registered, queue[p], Len(network[queue[p].id].offers))
             s == [p \in 1 .. n |-> Y(p)]
             t == [p \in 1 .. n + 1 |-> Y(p)]
  <1>1. PICK T : Y(n + 1) \in Seq(T)
    BY YieldStep
  <1>2. YieldsOf(network, registered, queue, n + 1) = FlattenSeq(t)
        /\ YieldsOf(network, registered, queue, n) = FlattenSeq(s)
    BY DEF YieldsOf
  <1> HIDE DEF Y
  <1>4. Len(s) = n /\ Len(t) = n + 1 /\ (s = << >> \/ n # 0) /\ t[n + 1] = Y(n + 1)
        /\ \A i \in 1 .. n : t[i] = s[i]
    OBVIOUS
  <1> HIDE DEF s, t
  <1>5. FlattenSeq(t) = FlattenSeq(s) \o t[n + 1]
    BY <1>1, <1>4, FlattenStep
  <1>6. QED
    BY <1>2, <1>4, <1>5 DEF Y

\* The yield depends on the entries taken and on no other.
LEMMA YieldsSame ==
    ASSUME NEW network, NEW registered, NEW queue, NEW other, NEW n \in Nat,
           \A p \in 1 .. n : queue[p] = other[p]
    PROVE  YieldsOf(network, registered, queue, n) = YieldsOf(network, registered, other, n)
  <1> DEFINE Y(spec) == YieldOf(network, registered, spec, Len(network[spec.id].offers))
  <1>1. /\ YieldsOf(network, registered, queue, n) = FlattenSeq([p \in 1 .. n |-> Y(queue[p])])
        /\ YieldsOf(network, registered, other, n) = FlattenSeq([p \in 1 .. n |-> Y(other[p])])
    BY DEF YieldsOf
  <1> HIDE DEF Y
  <1>2. [p \in 1 .. n |-> Y(queue[p])] = [p \in 1 .. n |-> Y(other[p])]
    OBVIOUS
  <1>3. QED
    BY <1>1, <1>2

\* No entry yields nothing.
LEMMA YieldsOfNone ==
    ASSUME NEW network, NEW registered, NEW queue
    PROVE  YieldsOf(network, registered, queue, 0) = << >>
  <1> DEFINE Y(p) == YieldOf(network, registered, queue[p], Len(network[queue[p].id].offers))
             none == [p \in 1 .. 0 |-> Y(p)]
  <1>1. YieldsOf(network, registered, queue, 0) = FlattenSeq(none)
    BY DEF YieldsOf
  <1>2. none = << >>
    OBVIOUS
  <1> HIDE DEF none
  <1>3. QED
    BY <1>1, <1>2 DEF FlattenSeq

\* Concatenation of sequences of anything.
LEMMA ConcatType ==
    ASSUME NEW T, NEW U, NEW s \in Seq(T), NEW t \in Seq(U)
    PROVE  s \o t \in Seq(T \cup U)
  <1> DEFINE V == T \cup U
  <1>1. s \in Seq(V) /\ t \in Seq(V)
    OBVIOUS
  <1> HIDE DEF V
  <1>2. s \o t \in Seq(V)
    BY <1>1
  <1>3. QED
    BY <1>2 DEF V

\* Appending after concatenating is concatenating what was appended to.
LEMMA ConcatAppend ==
    ASSUME NEW T, NEW U, NEW s \in Seq(T), NEW t \in Seq(U), NEW e
    PROVE  Append(s \o t, e) = s \o Append(t, e)
  <1> DEFINE V == (T \cup U) \cup {e}
  <1>1. s \in Seq(V) /\ t \in Seq(V) /\ e \in V
    OBVIOUS
  <1> HIDE DEF V
  <1>2. s \o t \in Seq(V) /\ Append(t, e) \in Seq(V)
    BY <1>1
  <1> DEFINE a == Append(s \o t, e)
             b == s \o Append(t, e)
             n == Len(s) + Len(t) + 1
  <1>3. a \in Seq(V) /\ b \in Seq(V) /\ Len(a) = n /\ Len(b) = n /\ Len(s) \in Nat /\ Len(t) \in Nat
    BY <1>1, <1>2
  <1>4. \A i \in 1 .. n : a[i] = b[i]
    <2> SUFFICES ASSUME NEW i \in 1 .. n PROVE a[i] = b[i]
      OBVIOUS
    <2>1. CASE i \in 1 .. Len(s)
      BY <1>1, <1>2, <2>1
    <2>2. CASE i = n
      BY <1>1, <1>2, <2>2
    <2>3. CASE i > Len(s) /\ i # n
      <3>1. i - Len(s) \in 1 .. Len(t) /\ i \in 1 .. Len(s) + Len(t)
        BY <1>3, <2>3
      <3>2. a[i] = (s \o t)[i] /\ (s \o t)[i] = t[i - Len(s)]
        BY <1>1, <1>2, <2>3, <3>1
      <3>3. b[i] = Append(t, e)[i - Len(s)] /\ Append(t, e)[i - Len(s)] = t[i - Len(s)]
        BY <1>1, <1>2, <2>3, <3>1
      <3>4. QED
        BY <3>2, <3>3
    <2>4. QED
      BY <1>3, <2>1, <2>2, <2>3
  <1>5. n \in Nat
    BY <1>3
  <1> HIDE DEF a, b, n
  <1>6. a = b
    BY <1>3, <1>4, <1>5
  <1>7. QED
    BY <1>6 DEF a, b

\* What any number of feeds yields is a sequence.
LEMMA YieldsType ==
    ASSUME NEW network, NEW registered, NEW queue, NEW n \in Nat,
           \A p \in 1 .. n : Len(network[queue[p].id].offers) \in Nat
    PROVE  \E T : YieldsOf(network, registered, queue, n) \in Seq(T)
  <1> DEFINE P == {k \in Nat : k <= n => \E T : YieldsOf(network, registered, queue, k) \in Seq(T)}
  <1>1. 0 \in P
    <2>1. YieldsOf(network, registered, queue, 0) = << >>
      BY YieldsOfNone
    <2>2. << >> \in Seq({})
      OBVIOUS
    <2>3. QED
      BY <2>1, <2>2
  <1>2. ASSUME NEW k \in P PROVE k + 1 \in P
    <2> SUFFICES ASSUME k + 1 <= n
                 PROVE  \E T : YieldsOf(network, registered, queue, k + 1) \in Seq(T)
      OBVIOUS
    <2>1. k \in Nat /\ k + 1 \in 1 .. n
      OBVIOUS
    <2> DEFINE m == Len(network[queue[k + 1].id].offers)
    <2>2. m \in Nat
      BY <2>1
    <2>3. PICK T : YieldsOf(network, registered, queue, k) \in Seq(T)
      BY <2>1
    <2>4. PICK U : YieldOf(network, registered, queue[k + 1], m) \in Seq(U)
      BY <2>2, YieldStep
    <2>5. YieldsOf(network, registered, queue, k + 1)
            = YieldsOf(network, registered, queue, k) \o YieldOf(network, registered, queue[k + 1], m)
      BY <2>1, <2>2, YieldsStep
    <2> HIDE DEF m
    <2>6. YieldsOf(network, registered, queue, k + 1) \in Seq(T \cup U)
      BY <2>3, <2>4, <2>5, ConcatType
    <2>7. QED
      BY <2>6
  <1>3. P \in SUBSET Nat
    OBVIOUS
  <1> HIDE DEF P
  <1>4. P = Nat
    BY <1>1, <1>2, <1>3, InductionOverNat
  <1>5. QED
    BY <1>4 DEF P

(***************************************************************************)
(* The first run.  That the database is right when the solver gets it is   *)
(* not inductive: the strengthening says what is in it, in the parser and  *)
(* in the implementation under construction after every single step.       *)
(***************************************************************************)
ParserExact ==
    LET doc == web[parser.url] IN
    /\ parser.url = urls[next].id /\ parser.id = urls[next].id /\ parser.query = urls[next].query
    /\ parser.offer - 1 <= Len(doc.offers) /\ parser.entry - 1 <= Len(doc.entries)
    /\ parser.entry > 0 =>
         /\ EligibleUnder(drivers, doc, Offer, parser.query)
         /\ parser.depends = Collected(doc, Offer, "depends", parser.entry - 1)
         /\ parser.conflicts = Collected(doc, Offer, "conflicts", parser.entry - 1)

FirstRun == Canonical /\ runs = 1 /\ faults = 0

ExactSoFar ==
    /\ runs = 0 => db = << >> /\ next = 0 /\ phase = "idle"
    /\ FirstRun =>
         /\ phase \in {"fetch", "solve"} => db = YieldsOf(web, drivers, urls, next)
         /\ phase = "parse" =>
              /\ db = YieldsOf(web, drivers, urls, next - 1)
                        \o YieldOf(web, drivers, urls[next], parser.offer - 1)
              /\ ParserExact

\* The parser, its document and what it points at keep their types while it is at work.
LEMMA ParsingFacts ==
    ASSUME TypeOK, phase = "parse"
    PROVE  /\ parser.url \in Ids /\ parser.offer \in Nat \ {0} /\ parser.entry \in Nat
           /\ next \in Nat \ {0} /\ next \in DOMAIN urls /\ urls \in Seq(Specs)
           /\ Len(web[parser.url].offers) \in Nat /\ Len(web[parser.url].entries) \in Nat
           /\ DOMAIN web[parser.url].offers = 1 .. Len(web[parser.url].offers)
           /\ DOMAIN web[parser.url].entries = 1 .. Len(web[parser.url].entries)
  <1>1. parser.url \in Ids /\ parser.offer \in Nat /\ parser.entry \in Nat
    BY DEF TypeOK, Parsers
  <1>2. web[parser.url].offers \in Seq(Offers) /\ web[parser.url].entries \in Seq(Entries)
    BY <1>1, DocumentType DEF TypeOK
  <1>3. urls \in Seq(Specs) /\ next \in 0 .. Len(urls) /\ next > 0 /\ parser.offer > 0
    BY DEF TypeOK
  <1>4. next \in Nat \ {0} /\ next \in DOMAIN urls
    BY <1>3
  <1>5. QED
    BY <1>1, <1>2, <1>3, <1>4

\* Every feed in the queue has a number of offers.
LEMMA OffersCounted ==
    ASSUME TypeOK, NEW p \in DOMAIN urls
    PROVE  Len(web[urls[p].id].offers) \in Nat
  <1>1. urls[p] \in Specs
    BY DEF TypeOK
  <1>2. urls[p].id \in Ids
    BY <1>1 DEF Specs
  <1>3. web[urls[p].id].offers \in Seq(Offers)
    BY <1>2, DocumentType DEF TypeOK
  <1>4. QED
    BY <1>3

\* Reading a feed: nothing of it is in the database yet.
LEMMA ExactReadFeed ==
    ASSUME TypeOK, ExactSoFar, ReadFeed, FirstRun
    PROVE  ExactSoFar'
  <1>1. /\ web' = web /\ drivers' = drivers /\ db' = db /\ runs' = runs /\ faults' = faults
        /\ next' = next + 1 /\ phase' = "parse" /\ phase = "fetch" /\ parser' = NewParser(urls[next + 1])
    BY DEF ReadFeed
  <1>2. urls \in Seq(Specs) /\ next \in Nat /\ next + 1 \in DOMAIN urls
    BY DEF TypeOK, ReadFeed
  <1>3. urls[next + 1] \in Specs /\ urls[next + 1].id \in Ids
    <2>1. urls[next + 1] \in Specs
      BY <1>2
    <2>2. QED
      BY <2>1 DEF Specs
  <1>4. web[urls[next + 1].id].href = urls[next + 1].id
    BY <1>3 DEF FirstRun, Canonical
  <1>5. urls' = urls
    BY <1>2, <1>3, <1>4, RenameType DEF ReadFeed
  <1>6. /\ parser'.url = urls[next + 1].id /\ parser'.id = urls[next + 1].id
        /\ parser'.query = urls[next + 1].query /\ parser'.offer = 1 /\ parser'.entry = 0
    BY <1>1, <1>4 DEF NewParser
  <1>7. Len(web[urls[next + 1].id].offers) \in Nat /\ Len(web[urls[next + 1].id].entries) \in Nat
    <2>1. /\ web[urls[next + 1].id].offers \in Seq(Offers)
          /\ web[urls[next + 1].id].entries \in Seq(Entries)
      BY <1>3, DocumentType DEF TypeOK
    <2>2. QED
      BY <2>1
  <1>8. db = YieldsOf(web, drivers, urls, next)
    BY <1>1 DEF ExactSoFar
  <1>9. db' = YieldsOf(web, drivers, urls, next' - 1) \o YieldOf(web, drivers, urls[next + 1], 0)
    <2>1. next' - 1 = next
      BY <1>1, <1>2
    <2>2. YieldOf(web, drivers, urls[next + 1], 0) = << >>
      BY YieldStep
    <2>3. db \in Seq(Impls) /\ db \o << >> = db
      BY DEF TypeOK
    <2>4. QED
      BY <1>1, <1>8, <2>1, <2>2, <2>3
  <1>10. parser'.offer - 1 = 0 /\ parser'.entry - 1 <= 0
    BY <1>6
  <1>11. ParserExact'
    BY <1>1, <1>5, <1>6, <1>7, <1>10 DEF ParserExact
  <1>12. runs # 0
    BY DEF FirstRun
  <1>13. QED
    BY <1>1, <1>5, <1>6, <1>9, <1>10, <1>11, <1>12 DEF ExactSoFar

\* An offer that is passed over yields nothing.
LEMMA ExactSkipOffer ==
    ASSUME TypeOK, ExactSoFar, SkipOffer, FirstRun
    PROVE  ExactSoFar'
  <1>1. /\ web' = web /\ drivers' = drivers /\ db' = db /\ runs' = runs /\ faults' = faults
        /\ next' = next /\ phase' = "parse" /\ phase = "parse" /\ urls' = urls
        /\ parser.entry = 0 /\ parser' = [parser EXCEPT !.offer = @ + 1]
        /\ MoreOffers /\ ~EligibleUnder(drivers, web[parser.url], Offer, parser.query)
    BY DEF SkipOffer, Eligible, EligibleUnder
  <1>2. /\ parser'.offer = parser.offer + 1 /\ parser'.entry = 0 /\ parser'.url = parser.url
        /\ parser'.id = parser.id /\ parser'.query = parser.query
    BY <1>1 DEF TypeOK, Parsers
  <1>3. ParserExact /\ db = YieldsOf(web, drivers, urls, next - 1)
                              \o YieldOf(web, drivers, urls[next], parser.offer - 1)
    BY <1>1 DEF ExactSoFar
  <1>4. parser.offer \in DOMAIN web[parser.url].offers /\ parser.offer - 1 \in Nat
        /\ (parser.offer - 1) + 1 = parser.offer /\ (parser.offer + 1) - 1 = parser.offer
        /\ parser.offer <= Len(web[parser.url].offers)
    BY <1>1, ParsingFacts DEF MoreOffers
  <1>5. YieldOf(web, drivers, urls[next], parser.offer) = YieldOf(web, drivers, urls[next], parser.offer - 1)
    <2>1. urls[next].id = parser.url /\ urls[next].query = parser.query
      BY <1>3 DEF ParserExact
    <2> DEFINE n == parser.offer - 1
    <2>2. n \in Nat /\ n + 1 = parser.offer
      BY <1>4
    <2> HIDE DEF n
    <2>3. n + 1 \in DOMAIN web[urls[next].id].offers
          /\ ~EligibleUnder(drivers, web[urls[next].id], web[urls[next].id].offers[n + 1], urls[next].query)
      BY <1>1, <1>4, <2>1, <2>2 DEF Offer
    <2>4. YieldOf(web, drivers, urls[next], n + 1) = YieldOf(web, drivers, urls[next], n)
      BY <2>2, <2>3, YieldStep
    <2>5. QED
      BY <2>2, <2>4 DEF n
  <1>6. db' = YieldsOf(web, drivers, urls, next - 1) \o YieldOf(web, drivers, urls[next], parser'.offer - 1)
    BY <1>1, <1>2, <1>3, <1>4, <1>5
  <1>7. ParserExact'
    <2>1. parser'.entry - 1 <= Len(web[parser.url].entries)
      BY <1>1, <1>2, ParsingFacts
    <2>2. QED
      BY <1>1, <1>2, <1>3, <1>4, <2>1 DEF ParserExact
  <1>8. runs # 0
    BY DEF FirstRun
  <1>9. QED
    BY <1>1, <1>6, <1>7, <1>8 DEF ExactSoFar

\* An offer that is taken up has collected nothing.
LEMMA ExactTakeOffer ==
    ASSUME TypeOK, ExactSoFar, TakeOffer, FirstRun
    PROVE  ExactSoFar'
  <1>1. /\ web' = web /\ drivers' = drivers /\ db' = db /\ runs' = runs /\ faults' = faults
        /\ next' = next /\ phase' = "parse" /\ phase = "parse" /\ urls' = urls
        /\ parser' = [parser EXCEPT !.entry = 1, !.depends = << >>, !.conflicts = << >>]
        /\ EligibleUnder(drivers, web[parser.url], Offer, parser.query)
    BY DEF TakeOffer, Eligible, EligibleUnder
  <1>2. /\ parser'.offer = parser.offer /\ parser'.entry = 1 /\ parser'.url = parser.url
        /\ parser'.id = parser.id /\ parser'.query = parser.query
        /\ parser'.depends = << >> /\ parser'.conflicts = << >>
    BY <1>1 DEF TypeOK, Parsers
  <1>3. ParserExact /\ db = YieldsOf(web, drivers, urls, next - 1)
                              \o YieldOf(web, drivers, urls[next], parser.offer - 1)
    BY <1>1 DEF ExactSoFar
  <1>4. Offer' = Offer
    BY <1>1, <1>2 DEF Offer
  <1>5. parser'.entry - 1 = 0 /\ 0 <= Len(web[parser.url].entries)
    BY <1>1, <1>2, ParsingFacts
  <1>6. ParserExact'
    <2>1. \A kind : Collected(web[parser.url], Offer, kind, 0) = << >>
      BY CollectedStep
    <2>2. QED
      BY <1>1, <1>2, <1>3, <1>4, <1>5, <2>1 DEF ParserExact
  <1>7. runs # 0
    BY DEF FirstRun
  <1>8. QED
    BY <1>1, <1>2, <1>3, <1>6, <1>7 DEF ExactSoFar

\* Replaying an entry collects what is active of it, and pushing what was collected leaves
\* the queue as it was up to the entry at work.
LEMMA ExactReplay ==
    ASSUME TypeOK, ExactSoFar, Replay, FirstRun
    PROVE  ExactSoFar'
  <1>1. /\ web' = web /\ drivers' = drivers /\ db' = db /\ runs' = runs /\ faults' = faults
        /\ next' = next /\ phase' = "parse" /\ phase = "parse" /\ parser.entry > 0 /\ MoreEntries
    BY DEF Replay
  <1>2. ParserExact /\ db = YieldsOf(web, drivers, urls, next - 1)
                              \o YieldOf(web, drivers, urls[next], parser.offer - 1)
    BY <1>1 DEF ExactSoFar
  <1>3. parser.entry \in DOMAIN web[parser.url].entries /\ parser.entry - 1 \in Nat
        /\ (parser.entry - 1) + 1 = parser.entry /\ (parser.entry + 1) - 1 = parser.entry
        /\ parser.entry <= Len(web[parser.url].entries)
    BY <1>1, ParsingFacts DEF MoreEntries
  <1>4. Entry \in Entries /\ Entry = web[parser.url].entries[parser.entry]
    BY <1>1, ParserPoints DEF Entry
  <1>5. Entry.kind \in {"depends", "conflicts"} /\ Entry.spec \in Specs
    BY <1>4 DEF Entries
  <1>6. \A p \in 1 .. next : urls'[p] = urls[p]
    <2>1. urls' = urls \/ urls' = Push(urls, Entry.spec)
      BY DEF Replay
    <2>2. urls \in Seq(Specs) /\ \A p \in 1 .. next : p \in DOMAIN urls
      BY <1>1, ParsingFacts
    <2>3. urls \in Seq(Specs) /\ Entry.spec \in Specs
      BY <1>5, <2>2
    <2>4. \A p \in DOMAIN urls : Push(urls, Entry.spec)[p] = urls[p]
      BY <2>3, PushType
    <2>5. QED
      BY <2>1, <2>2, <2>4
  <1>7. /\ parser'.offer = parser.offer /\ parser'.entry = parser.entry + 1 /\ parser'.url = parser.url
        /\ parser'.id = parser.id /\ parser'.query = parser.query
        /\ parser'.depends = IF Entry.kind = "depends" /\ Active(Entry, Offer)
                             THEN Append(parser.depends, Entry.spec) ELSE parser.depends
        /\ parser'.conflicts = IF Entry.kind = "conflicts" /\ Active(Entry, Offer)
                               THEN Append(parser.conflicts, Entry.spec) ELSE parser.conflicts
    <2>1. parser \in Parsers
      BY DEF TypeOK
    <2>2. CASE Active(Entry, Offer) /\ Entry.kind = "depends"
      BY <2>1, <2>2 DEF Replay, Parsers
    <2>3. CASE Active(Entry, Offer) /\ Entry.kind = "conflicts"
      BY <2>1, <2>3 DEF Replay, Parsers
    <2>4. CASE ~Active(Entry, Offer)
      BY <2>1, <2>4 DEF Replay, Parsers
    <2>5. QED
      BY <1>5, <2>2, <2>3, <2>4
  <1>8. Offer' = Offer
    BY <1>1, <1>7 DEF Offer
  <1>9. \A kind : Collected(web[parser.url], Offer, kind, parser.entry) =
                    IF Entry.kind = kind /\ Active(Entry, Offer)
                    THEN Append(Collected(web[parser.url], Offer, kind, parser.entry - 1), Entry.spec)
                    ELSE Collected(web[parser.url], Offer, kind, parser.entry - 1)
    <2> DEFINE n == parser.entry - 1
    <2>1. n \in Nat /\ n + 1 = parser.entry /\ n + 1 \in DOMAIN web[parser.url].entries
      BY <1>3
    <2> HIDE DEF n
    <2>2. \A kind : Collected(web[parser.url], Offer, kind, n + 1) =
                    IF web[parser.url].entries[n + 1].kind = kind /\ Active(web[parser.url].entries[n + 1], Offer)
                    THEN Append(Collected(web[parser.url], Offer, kind, n), web[parser.url].entries[n + 1].spec)
                    ELSE Collected(web[parser.url], Offer, kind, n)
      BY <2>1, CollectedStep
    <2>3. QED
      BY <1>4, <2>1, <2>2 DEF n
  <1>10. ParserExact'
    <2>1. parser'.depends = Collected(web[parser.url], Offer, "depends", parser'.entry - 1)
          /\ parser'.conflicts = Collected(web[parser.url], Offer, "conflicts", parser'.entry - 1)
      BY <1>1, <1>2, <1>3, <1>7, <1>9 DEF ParserExact
    <2>2. urls'[next'] = urls[next]
      BY <1>1, <1>6, ParsingFacts
    <2>3. EligibleUnder(drivers, web[parser.url], Offer, parser.query)
      BY <1>1, <1>2 DEF ParserExact
    <2>4. parser'.entry - 1 <= Len(web[parser.url].entries)
      BY <1>3, <1>7
    <2>5. QED
      BY <1>1, <1>2, <1>7, <1>8, <2>1, <2>2, <2>3, <2>4 DEF ParserExact
  <1>11. YieldsOf(web, drivers, urls', next - 1) = YieldsOf(web, drivers, urls, next - 1)
    <2>1. next - 1 \in Nat /\ \A p \in 1 .. next - 1 : p \in 1 .. next
      BY <1>1, ParsingFacts
    <2>2. QED
      BY <1>6, <2>1, YieldsSame
  <1>12. urls'[next] = urls[next] /\ runs # 0
    BY <1>1, <1>6, ParsingFacts DEF FirstRun
  <1>13. QED
    BY <1>1, <1>2, <1>7, <1>10, <1>11, <1>12 DEF ExactSoFar

\* What the parser appends is what the offer yields.
LEMMA ExactAddImplementation ==
    ASSUME TypeOK, ExactSoFar, AddImplementation, FirstRun
    PROVE  ExactSoFar'
  <1>1. /\ web' = web /\ drivers' = drivers /\ urls' = urls /\ runs' = runs /\ faults' = faults
        /\ next' = next /\ phase' = "parse" /\ phase = "parse" /\ parser.entry > 0 /\ ~MoreEntries
        /\ db' = Append(db, Implementation(parser.id, Offer, parser.depends, parser.conflicts))
        /\ parser' = [parser EXCEPT !.offer = @ + 1, !.entry = 0]
    BY DEF AddImplementation
  <1>2. ParserExact /\ db = YieldsOf(web, drivers, urls, next - 1)
                              \o YieldOf(web, drivers, urls[next], parser.offer - 1)
    BY <1>1 DEF ExactSoFar
  <1>3. /\ parser'.offer = parser.offer + 1 /\ parser'.entry = 0 /\ parser'.url = parser.url
        /\ parser'.id = parser.id /\ parser'.query = parser.query
    BY <1>1 DEF TypeOK, Parsers
  <1>4. parser.offer \in DOMAIN web[parser.url].offers /\ parser.offer - 1 \in Nat
        /\ (parser.offer - 1) + 1 = parser.offer /\ (parser.offer + 1) - 1 = parser.offer
        /\ parser.offer <= Len(web[parser.url].offers)
    <2>1. MoreOffers
      BY <1>1 DEF TypeOK
    <2>2. QED
      BY <1>1, <2>1, ParsingFacts DEF MoreOffers
  <1>5. parser.entry - 1 = Len(web[parser.url].entries)
    <2>1. parser.entry - 1 <= Len(web[parser.url].entries)
      BY <1>2 DEF ParserExact
    <2>2. ~(parser.entry <= Len(web[parser.url].entries))
      BY <1>1 DEF MoreEntries
    <2>3. parser.entry \in Nat /\ Len(web[parser.url].entries) \in Nat
      BY <1>1, ParsingFacts
    <2>4. QED
      BY <2>1, <2>2, <2>3
  <1>6. Implementation(parser.id, Offer, parser.depends, parser.conflicts)
          = Implemented(urls[next].id, web[urls[next].id], Offer)
    BY <1>1, <1>2, <1>5 DEF ParserExact, Implemented
  <1>7. YieldOf(web, drivers, urls[next], parser.offer)
          = Append(YieldOf(web, drivers, urls[next], parser.offer - 1),
                   Implemented(urls[next].id, web[urls[next].id], Offer))
    <2>1. /\ urls[next].id = parser.url /\ urls[next].query = parser.query
          /\ EligibleUnder(drivers, web[parser.url], Offer, parser.query)
      BY <1>1, <1>2 DEF ParserExact
    <2> DEFINE n == parser.offer - 1
    <2>2. n \in Nat /\ n + 1 = parser.offer
      BY <1>4
    <2> HIDE DEF n
    <2>3. n + 1 \in DOMAIN web[urls[next].id].offers /\ Offer = web[urls[next].id].offers[n + 1]
      BY <1>4, <2>1, <2>2 DEF Offer
    <2>4. YieldOf(web, drivers, urls[next], n + 1)
            = Append(YieldOf(web, drivers, urls[next], n),
                     Implemented(urls[next].id, web[urls[next].id], web[urls[next].id].offers[n + 1]))
      BY <2>1, <2>2, <2>3, YieldStep
    <2>5. QED
      BY <2>2, <2>3, <2>4 DEF n
  <1>8. db' = YieldsOf(web, drivers, urls, next - 1) \o YieldOf(web, drivers, urls[next], parser.offer)
    <2> DEFINE before == YieldsOf(web, drivers, urls, next - 1)
               y == YieldOf(web, drivers, urls[next], parser.offer - 1)
               e == Implemented(urls[next].id, web[urls[next].id], Offer)
    <2>1. db' = Append(before \o y, e) /\ YieldOf(web, drivers, urls[next], parser.offer) = Append(y, e)
      BY <1>1, <1>2, <1>6, <1>7
    <2>2. \E T : before \in Seq(T)
      <3>1. next - 1 \in Nat /\ \A p \in 1 .. next - 1 : p \in DOMAIN urls
        BY <1>1, ParsingFacts
      <3>2. \A p \in DOMAIN urls : Len(web[urls[p].id].offers) \in Nat
        BY OffersCounted
      <3>3. QED
        BY <3>1, <3>2, YieldsType
    <2>3. \E T : y \in Seq(T)
      BY <1>4, YieldStep
    <2> HIDE DEF before, y, e
    <2>4. Append(before \o y, e) = before \o Append(y, e)
      BY <2>2, <2>3, ConcatAppend
    <2>5. QED
      BY <2>1, <2>4 DEF before
  <1>9. ParserExact'
    <2>1. parser'.entry - 1 <= Len(web[parser.url].entries)
      BY <1>1, <1>3, ParsingFacts
    <2>2. QED
      BY <1>1, <1>2, <1>3, <1>4, <2>1 DEF ParserExact
  <1>10. runs # 0 /\ parser'.offer - 1 = parser.offer
    BY <1>3, <1>4 DEF FirstRun
  <1>11. QED
    BY <1>1, <1>8, <1>9, <1>10 DEF ExactSoFar

\* At the end of a feed every offer has been dealt with.
LEMMA ExactFinishFeed ==
    ASSUME TypeOK, ExactSoFar, FinishFeed, FirstRun
    PROVE  ExactSoFar'
  <1>1. /\ web' = web /\ drivers' = drivers /\ urls' = urls /\ runs' = runs /\ faults' = faults
        /\ next' = next /\ phase' = "fetch" /\ phase = "parse" /\ ~MoreOffers /\ db' = db
    BY DEF FinishFeed
  <1>2. ParserExact /\ db = YieldsOf(web, drivers, urls, next - 1)
                              \o YieldOf(web, drivers, urls[next], parser.offer - 1)
    BY <1>1 DEF ExactSoFar
  <1>3. parser.url = urls[next].id /\ parser.offer - 1 = Len(web[urls[next].id].offers)
    <2>1. parser.url = urls[next].id /\ parser.offer - 1 <= Len(web[parser.url].offers)
      BY <1>2 DEF ParserExact
    <2>2. ~(parser.offer <= Len(web[parser.url].offers))
      BY <1>1 DEF MoreOffers
    <2>3. parser.offer \in Nat /\ Len(web[parser.url].offers) \in Nat
      BY <1>1, ParsingFacts
    <2>4. QED
      BY <2>1, <2>2, <2>3
  <1>4. db = YieldsOf(web, drivers, urls, next)
    <2> DEFINE n == next - 1
    <2>1. n \in Nat /\ n + 1 = next /\ Len(web[urls[n + 1].id].offers) \in Nat
      BY <1>1, <1>3, ParsingFacts
    <2> HIDE DEF n
    <2>2. YieldsOf(web, drivers, urls, n + 1)
            = YieldsOf(web, drivers, urls, n)
                \o YieldOf(web, drivers, urls[n + 1], Len(web[urls[n + 1].id].offers))
      BY <2>1, YieldsStep
    <2>3. QED
      BY <1>2, <1>3, <2>1, <2>2 DEF n
  <1>5. runs # 0
    BY DEF FirstRun
  <1>6. QED
    BY <1>1, <1>4, <1>5 DEF ExactSoFar

\* The other steps: they leave the first run, or change nothing it depends on.
LEMMA ExactNext == TypeOK /\ ExactSoFar /\ [Next]_crawlVars => ExactSoFar'
  <1> SUFFICES ASSUME TypeOK, ExactSoFar, [Next]_crawlVars PROVE ExactSoFar'
    OBVIOUS
  <1>1. runs \in Nat /\ faults \in Nat /\ next \in Nat
    BY CrawlAssumption DEF TypeOK
  <1>2. ASSUME NEW name \in DriverNames, AddDriver(name) PROVE ExactSoFar'
    BY <1>2 DEF AddDriver, ExactSoFar
  <1>3. ASSUME NEW spec \in Requestable, NEW source \in BOOLEAN, AddRequest(spec, source)
        PROVE  ExactSoFar'
    BY <1>3 DEF AddRequest, ExactSoFar
  <1>4. CASE Run
    <2>1. web' = web /\ drivers' = drivers /\ urls' = urls /\ next' = next /\ db' = db /\ faults' = faults
          /\ runs' = runs + 1 /\ phase' = "fetch"
      BY <1>4 DEF Run
    <2>2. runs' # 0 /\ (runs' = 1 => runs = 0)
      BY <1>1, <2>1
    <2>3. CASE runs = 0
      <3>1. YieldsOf(web, drivers, urls, 0) = << >>
        BY YieldsOfNone
      <3>2. db' = YieldsOf(web, drivers, urls, next)
        BY <2>1, <2>3, <3>1 DEF ExactSoFar
      <3>3. QED
        BY <2>1, <2>2, <3>2 DEF ExactSoFar
    <2>4. CASE runs # 0
      BY <2>1, <2>2, <2>4 DEF ExactSoFar, FirstRun
    <2>5. QED
      BY <2>3, <2>4
  <1>5. ASSUME phase # "idle", runs' = runs, web' = web, ~FirstRun, faults' >= faults, faults' \in Nat
        PROVE  ExactSoFar'
    <2>1. runs # 0
      BY <1>5 DEF ExactSoFar
    <2>2. ~FirstRun'
      BY <1>1, <1>5 DEF FirstRun, Canonical
    <2>3. QED
      BY <1>5, <2>1, <2>2 DEF ExactSoFar
  <1>6. ASSUME phase # "idle", phase' = "idle", runs' = runs
        PROVE  ExactSoFar'
    BY <1>6 DEF ExactSoFar
  <1>7. CASE ReadFails \/ ParseFails \/ Conclude
    BY <1>6, <1>7 DEF ReadFails, ParseFails, Conclude
  <1>8. CASE ReadFeed
    BY <1>1, <1>5, <1>8, ExactReadFeed DEF ReadFeed
  <1>9. CASE SkipOffer
    BY <1>1, <1>5, <1>9, ExactSkipOffer DEF SkipOffer
  <1>10. CASE TakeOffer
    BY <1>1, <1>5, <1>10, ExactTakeOffer DEF TakeOffer
  <1>11. CASE Replay
    BY <1>1, <1>5, <1>11, ExactReplay DEF Replay
  <1>12. CASE AddImplementation
    BY <1>1, <1>5, <1>12, ExactAddImplementation DEF AddImplementation
  <1>13. CASE FinishFeed
    BY <1>1, <1>5, <1>13, ExactFinishFeed DEF FinishFeed
  <1>14. CASE ReadAll
    <2>1. web' = web /\ drivers' = drivers /\ urls' = urls /\ next' = next /\ db' = db /\ faults' = faults
          /\ runs' = runs /\ phase' = "solve" /\ phase = "fetch"
      BY <1>14 DEF ReadAll
    <2>2. QED
      BY <2>1 DEF ExactSoFar, FirstRun, Canonical
  <1>15. CASE UNCHANGED crawlVars
    BY <1>15 DEF crawlVars, ExactSoFar, FirstRun, Canonical, ParserExact, Offer
  <1>16. QED
    BY <1>2, <1>3, <1>4, <1>7, <1>8, <1>9, <1>10, <1>11, <1>12, <1>13, <1>14, <1>15
       DEF Next, Client, Crawling

\* The database of the first run is what its documents offer and record, feed by feed in
\* the order of the queue, whatever the documents, the drivers and the number of feeds
\* (feed_parser.cpp:131-160 and 291-350, dependencies.cpp:16-80).
THEOREM DatabaseAsOffered == Spec => []DatabaseExact
  <1>1. Init => ExactSoFar
    BY DEF Init, ExactSoFar, FirstRun
  <1>2. ExactSoFar => DatabaseExact
    BY YieldsAsStated DEF ExactSoFar, FirstRun, DatabaseExact
  <1>3. QED
    BY <1>1, <1>2, TypeCorrect, ExactNext, PTL DEF Spec

(***************************************************************************)
(* The queue as a worklist.                                                *)
(***************************************************************************)
\* A push makes an id wait that no entry had, or changes nothing.
LEMMA PushDiscovers ==
    ASSUME TypeOK, NEW spec \in Specs, urls' = Push(urls, spec), next' = next, web' = web
    PROVE  (\E id \in Ids : WL!Discover(id)) \/ UNCHANGED <<WaitingIds, TakenIds, next>>
  <1>1. urls \in Seq(Specs) /\ Len(urls) \in Nat /\ next \in Nat /\ next <= Len(urls) /\ spec.id \in Ids
    BY DEF TypeOK, Specs
  <1>2. CASE \E p \in DOMAIN urls : urls[p].id = spec.id
    BY <1>2 DEF Push, WaitingIds, TakenIds
  <1>3. CASE ~\E p \in DOMAIN urls : urls[p].id = spec.id
    <2>1. urls' = Append(urls, spec)
      BY <1>3 DEF Push
    <2>2. Len(urls') = Len(urls) + 1 /\ urls'[Len(urls) + 1] = spec
      BY <1>1, <2>1
    <2>3. \A p \in 1 .. Len(urls) : urls'[p] = urls[p]
      BY <1>1, <2>1
    <2>4. TakenIds' = TakenIds
      <3>1. \A p \in 1 .. next : urls'[p] = urls[p]
        BY <1>1, <2>3
      <3>2. QED
        BY <3>1 DEF TakenIds
    <2>5. WaitingIds' = WaitingIds \cup {spec.id}
      <3>1. next + 1 .. Len(urls') = (next + 1 .. Len(urls)) \cup {Len(urls) + 1}
        BY <1>1, <2>2
      <3>2. \A p \in next + 1 .. Len(urls) : urls'[p] = urls[p]
        BY <1>1, <2>3
      <3>3. QED
        BY <2>2, <3>1, <3>2 DEF WaitingIds
    <2>6. spec.id \notin WaitingIds \cup TakenIds
      <3>1. \A p \in 1 .. Len(urls) : urls[p].id # spec.id
        BY <1>1, <1>3
      <3>2. \A p \in 1 .. next : p \in 1 .. Len(urls)
        BY <1>1
      <3>3. \A p \in next + 1 .. Len(urls) : p \in 1 .. Len(urls)
        BY <1>1
      <3>4. QED
        BY <3>1, <3>2, <3>3 DEF WaitingIds, TakenIds
    <2>7. WL!Discover(spec.id)
      BY <2>4, <2>5, <2>6 DEF WL!Discover
    <2>8. QED
      BY <1>1, <2>7
  <1>4. QED
    BY <1>2, <1>3

\* Taking the next entry takes an id that waited, and no other entry waits under it.  The
\* entry keeps its id or is given that of the feed.
LEMMA TakingTakes ==
    ASSUME TypeOK, QueueDistinct, next < Len(urls), next' = next + 1, web' = web,
           NEW name \in {urls[next + 1].id, web[urls[next + 1].id].href},
           urls' = Rename(urls, next + 1, name)
    PROVE  \E id \in Ids : WL!Take(id)
  <1> DEFINE k == next + 1
             id == urls[k].id
  <1>1. urls \in Seq(Specs) /\ Len(urls) \in Nat /\ next \in Nat /\ k \in 1 .. Len(urls)
    BY DEF TypeOK
  <1>2. id \in Ids
    <2>1. urls[k] \in Specs
      BY <1>1
    <2>2. QED
      BY <2>1 DEF Specs
  <1>3. /\ DOMAIN urls' = DOMAIN urls /\ Len(urls') = Len(urls)
        /\ urls'[k].id = name
        /\ \A p \in 1 .. Len(urls) : p # k => urls'[p] = urls[p]
    <2>1. urls[k] \in Specs
      BY <1>1
    <2>2. [urls[k] EXCEPT !.id = name].id = name
      BY <2>1 DEF Specs
    <2>3. QED
      BY <1>1, <2>2 DEF Rename
  <1> HIDE DEF k
  <1>4. k = next + 1
    BY DEF k
  <1>5. TakenIds' = TakenIds \cup {name}
    <2>1. 1 .. next' = (1 .. next) \cup {k}
      BY <1>1, <1>4
    <2>2. \A p \in 1 .. next : urls'[p] = urls[p]
      BY <1>1, <1>3, <1>4
    <2>3. QED
      BY <1>3, <2>1, <2>2 DEF TakenIds
  <1>6. WaitingIds' = {urls[p].id : p \in k + 1 .. Len(urls)}
    <2>1. next' + 1 = k + 1
      BY <1>4
    <2>2. \A p \in k + 1 .. Len(urls) : urls'[p] = urls[p]
      BY <1>1, <1>3, <1>4
    <2>3. QED
      BY <1>3, <2>1, <2>2 DEF WaitingIds
  <1>7. WaitingIds = {id} \cup {urls[p].id : p \in k + 1 .. Len(urls)}
    <2>1. next + 1 .. Len(urls) = {k} \cup (k + 1 .. Len(urls))
      BY <1>1, <1>4
    <2>2. QED
      BY <2>1 DEF WaitingIds
  <1>8. \A p \in k + 1 .. Len(urls) : urls[p].id # id
    <2>1. \A p \in k + 1 .. Len(urls) : p \in DOMAIN urls /\ p > next /\ p # k
      BY <1>1, <1>4
    <2>2. k \in DOMAIN urls /\ k > next
      BY <1>1, <1>4
    <2>3. QED
      BY <2>1, <2>2 DEF QueueDistinct
  <1>9. id \in WaitingIds /\ WaitingIds' = WaitingIds \ {id}
    BY <1>6, <1>7, <1>8
  <1>10. name \in {id, [u \in Ids |-> web[u].href][id]}
    BY <1>2, <1>4 DEF k
  <1> HIDE DEF id
  <1>11. PICK e \in Ids : e = id
    BY <1>2
  <1>12. WL!Take(e)
    BY <1>5, <1>9, <1>10, <1>11 DEF WL!Take
  <1>13. QED
    BY <1>12

LEMMA QueueSimulates ==
    ASSUME TypeOK, QueueDistinct, [Next]_crawlVars
    PROVE  WL!Next \/ UNCHANGED <<[u \in Ids |-> web[u].href], WaitingIds, TakenIds, next>>
  <1>1. web' = web
    BY QueueSteps
  <1>2. CASE urls' = urls /\ next' = next
    BY <1>1, <1>2 DEF WaitingIds, TakenIds
  <1>3. CASE urls' = urls /\ next' = next + 1 /\ next < Len(urls)
    <2>1. next + 1 \in DOMAIN urls /\ urls \in Seq(Specs)
      BY <1>3 DEF TypeOK
    <2>2. urls[next + 1] \in Specs
      BY <2>1
    <2>3. urls[next + 1].id \in Ids
      BY <2>2 DEF Specs
    <2>4. urls' = Rename(urls, next + 1, urls[next + 1].id)
      BY <1>3, <2>1, <2>3, RenameType
    <2>5. QED
      BY <1>1, <1>3, <2>4, TakingTakes DEF WL!Next
  <1>4. CASE \E spec \in Specs : urls' = Push(urls, spec) /\ next' = next
    BY <1>1, <1>4, PushDiscovers DEF WL!Next
  <1>5. CASE /\ next < Len(urls) /\ next' = next + 1
             /\ urls[next + 1].id \in Ids
             /\ urls' = Rename(urls, next + 1, web[urls[next + 1].id].href)
    BY <1>1, <1>5, TakingTakes DEF WL!Next
  <1>6. QED
    BY <1>2, <1>3, <1>4, <1>5, QueueSteps

\* A queue of any length, with its order and its cursor, is a worklist: whatever is pushed,
\* fails, is run again or renames its entry, what waits was not read, unless a feed that
\* was read has claimed its id since (feed_queue.hpp:26-48).
THEOREM QueueImplementsWorklist == Spec => QueueIsWorklist
  <1>1. Init => WL!Init
    <2> SUFFICES ASSUME Init PROVE WL!Init
      OBVIOUS
    <2>1. Len(urls) = 0 /\ next = 0
      BY DEF Init
    <2>2. WaitingIds = {} /\ TakenIds = {}
      BY <2>1 DEF WaitingIds, TakenIds
    <2>3. \A u \in Ids : web[u].href \in Ids
      BY CrawlAssumption DEF Init, Documents
    <2>4. QED
      BY <2>1, <2>2, <2>3 DEF WL!Init
  <1>2. TypeOK /\ QueueDistinct /\ [Next]_crawlVars =>
          [WL!Next]_<<[u \in Ids |-> web[u].href], WaitingIds, TakenIds, next>>
    BY QueueSimulates
  <1>3. QED
    BY <1>1, <1>2, TypeCorrect, QueueStaysDistinct, PTL
       DEF Spec, QueueIsWorklist, WL!Spec, WL!worklistVars
=============================================================================
