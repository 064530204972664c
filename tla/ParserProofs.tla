---------------------------- MODULE ParserProofs ---------------------------
(***************************************************************************)
(* Proofs about modules XmlReader and FeedParser, for files of any length  *)
(* and with anything in them: reading ends, and the parser does not lose   *)
(* its place.                                                              *)
(***************************************************************************)
EXTENDS FeedParser, Recursion, SequenceTheorems

(***************************************************************************)
(* Files and readers.                                                      *)
(***************************************************************************)
IsSequence(s) == Len(s) \in Nat /\ DOMAIN s = 1 .. Len(s)

IsFile(ts) == IsSequence(ts) /\ \A i \in DOMAIN ts : ts[i].kind \in TokenKinds

IsStack(s) == \E S : s \in Seq(S)

IsReader(ts, r) ==
    /\ DOMAIN r = {"pos", "token", "name", "attributes", "mappings", "open", "empty", "more", "error"}
    /\ r.pos \in 0 .. Len(ts)
    /\ r.empty \in BOOLEAN /\ r.more \in BOOLEAN /\ r.error \in BOOLEAN
    /\ IsStack(r.open)

\* The elements the reader is in: those with open tags, and one that is empty.
Depth(r) == Len(r.open) + (IF r.empty THEN 1 ELSE 0)

LEMMA OpenFacts ==
    ASSUME NEW s, IsStack(s), NEW x
    PROVE  /\ Len(s) \in Nat
           /\ IsStack(Append(s, x))
           /\ Len(Append(s, x)) = Len(s) + 1
           /\ s # << >> => /\ IsStack(Front(s))
                           /\ Len(Front(s)) = Len(s) - 1 /\ Len(s) > 0
  <1>1. PICK S : s \in Seq(S)
    BY DEF IsStack
  <1>2. Append(s, x) \in Seq(S \cup {x}) /\ Len(Append(s, x)) = Len(s) + 1
    BY <1>1
  <1>3. ASSUME s # << >>
        PROVE  Front(s) \in Seq(S) /\ Len(Front(s)) = Len(s) - 1 /\ Len(s) > 0
    <2>1. Len(s) \in Nat /\ Len(s) > 0 /\ \A i \in 1 .. Len(s) - 1 : s[i] \in S
      BY <1>1, <1>3
    <2>2. /\ SubSeq(s, 1, Len(s) - 1) \in Seq(S)
          /\ Len(SubSeq(s, 1, Len(s) - 1)) = IF 1 <= Len(s) - 1 THEN (Len(s) - 1) - 1 + 1 ELSE 0
      BY <2>1, SubSeqProperties
    <2>3. \A n \in Nat : n > 0 => (IF 1 <= n - 1 THEN (n - 1) - 1 + 1 ELSE 0) = n - 1
      OBVIOUS
    <2>4. QED
      BY <2>1, <2>2, <2>3 DEF Front
  <1>4. QED
    BY <1>1, <1>2, <1>3 DEF IsStack

LEMMA DepthFacts ==
    ASSUME NEW ts, NEW r, IsReader(ts, r)
    PROVE  /\ Len(r.open) \in Nat /\ Depth(r) \in Nat
           /\ r.empty => Depth(r) = Len(r.open) + 1
           /\ ~r.empty => Depth(r) = Len(r.open)
  <1>1. Len(r.open) \in Nat
    BY OpenFacts DEF IsReader
  <1>2. CASE r.empty
    BY <1>1, <1>2 DEF Depth
  <1>3. CASE ~r.empty
    BY <1>1, <1>3 DEF Depth
  <1>4. QED
    BY <1>1, <1>2, <1>3

(***************************************************************************)
(* One reading.                                                            *)
(***************************************************************************)
\* What is left as it was when there is nothing to read.
LEMMA ReadNothing ==
    ASSUME NEW ts, IsFile(ts), NEW r, IsReader(ts, r), r.pos = Len(ts)
    PROVE  LET q == Read(ts, r)
           IN /\ IsReader(ts, q) /\ ~q.more
              /\ q.pos = r.pos /\ q.token = r.token /\ q.open = r.open
              /\ q.empty = r.empty /\ q.error = r.error
  BY DEF Read, IsReader

\* What a token does to the reader, if it is one.
ReadOne(ts, r, q) ==
    LET kind == ts[q.pos].kind
    IN /\ q.pos = r.pos + 1 /\ q.more
       /\ ~q.error =>
            /\ kind = "start" => /\ q.token = "element" /\ q.empty = FALSE
                                 /\ Len(q.open) = Len(r.open) + 1
            /\ kind = "empty" => q.token = "element" /\ q.empty /\ q.open = r.open
            /\ kind = "end" => /\ q.token = "end_element" /\ q.empty = FALSE
                               /\ Len(q.open) = Len(r.open) - 1
            /\ kind \notin {"start", "empty", "end"} =>
                  /\ q.token \in {"text", "comment", "pi"}
                  /\ q.open = r.open /\ q.empty = r.empty

LEMMA ReadToken ==
    ASSUME NEW ts, IsFile(ts), NEW r, IsReader(ts, r), r.pos < Len(ts)
    PROVE  LET q == Read(ts, r)
           IN IsReader(ts, q) /\ ReadOne(ts, r, q)
  <1> DEFINE p == [r EXCEPT !.pos = @ + 1, !.more = TRUE]
             t == ts[r.pos + 1]
             q == Read(ts, r)
  <1>1. r.pos \in Nat /\ r.pos + 1 \in 0 .. Len(ts) /\ r.pos # Len(ts) /\ t.kind \in TokenKinds
    BY DEF IsReader, IsFile, IsSequence
  <1>2. q = Parse(p, t)
    BY <1>1 DEF Read
  <1>3. /\ IsReader(ts, p) /\ p.pos = r.pos + 1 /\ p.more /\ p.open = r.open
        /\ p.empty = r.empty /\ p.error = r.error
    BY <1>1 DEF IsReader
  <1> HIDE DEF p, t, q
  <1>4. ts[r.pos + 1] = t
    BY DEF t
  <1>5. CASE t.kind = "start"
    <2>1. q = ParseElement(p, t)
      BY <1>2, <1>5 DEF Parse
    <2> DEFINE scope == p.mappings \o Declared(t.attrs)
               name == Resolved(scope, t)
               attributes == ResolvedAttributes(scope, t.attrs)
               tag == [name |-> name, previous |-> Len(p.mappings)]
               e == [p EXCEPT !.token = "element", !.name = name, !.empty = FALSE,
                              !.attributes = attributes]
    <2> HIDE DEF scope, name, attributes, tag
    <2>2. q = [e EXCEPT !.mappings = scope, !.open = Append(@, tag)]
      BY <1>5, <2>1 DEF ParseElement, scope, name, attributes, tag
    <2>3. IsStack(Append(p.open, tag))
      BY <1>3, OpenFacts DEF IsReader
    <2>4. Len(Append(p.open, tag)) = Len(r.open) + 1
      BY <1>3, OpenFacts DEF IsReader
    <2>5. /\ DOMAIN q = DOMAIN p /\ q.pos = p.pos /\ q.token = "element" /\ q.empty = FALSE
          /\ q.open = Append(p.open, tag) /\ q.more = p.more /\ q.error = p.error
      BY <1>3, <2>2 DEF IsReader
    <2> HIDE DEF e
    <2>6. IsReader(ts, q)
      <3>1. IsStack(q.open)
        BY ONLY <2>3, <2>5
      <3>2. QED
        BY <1>3, <2>5, <3>1 DEF IsReader
    <2>7. ReadOne(ts, r, q)
      BY <1>1, <1>3, <1>4, <1>5, <2>4, <2>5 DEF ReadOne
    <2>8. QED
      BY <2>6, <2>7 DEF q
  <1>6. CASE t.kind = "empty"
    <2>1. q = ParseElement(p, t)
      BY <1>2, <1>6 DEF Parse
    <2>2. PICK name, attributes :
             q = [p EXCEPT !.token = "element", !.name = name, !.empty = TRUE, !.attributes = attributes]
      BY <1>6, <2>1 DEF ParseElement
    <2>3. /\ DOMAIN q = DOMAIN p /\ q.pos = p.pos /\ q.token = "element" /\ q.empty
          /\ q.open = p.open /\ q.more = p.more /\ q.error = p.error
      BY <1>3, <2>2 DEF IsReader
    <2>4. QED
      BY <1>1, <1>3, <1>4, <1>6, <2>3 DEF IsReader, ReadOne, q
  <1>7. CASE t.kind = "end"
    <2>1. q = ParseEndElement(p, t)
      BY <1>2, <1>7 DEF Parse
    <2>2. CASE q = [p EXCEPT !.error = TRUE]
      BY <1>1, <1>3, <1>4, <2>2 DEF IsReader, ReadOne, q
    <2>3. CASE q # [p EXCEPT !.error = TRUE]
      <3>1. PICK name, scope :
               /\ q = [p EXCEPT !.token = "end_element", !.empty = FALSE, !.name = name,
                                !.mappings = scope, !.open = Front(@)]
               /\ p.open # << >>
        BY <2>1, <2>3 DEF ParseEndElement
      <3>2. /\ IsStack(Front(p.open))
            /\ Len(Front(p.open)) = Len(r.open) - 1
        BY <1>3, <3>1, OpenFacts DEF IsReader
      <3>3. /\ DOMAIN q = DOMAIN p /\ q.pos = p.pos /\ q.token = "end_element" /\ q.empty = FALSE
            /\ q.open = Front(p.open) /\ q.more = p.more /\ q.error = p.error
        BY <1>3, <3>1 DEF IsReader
      <3>4. IsReader(ts, q)
        <4>1. IsStack(q.open)
          BY ONLY <3>2, <3>3
        <4>2. QED
          BY <1>3, <3>3, <4>1 DEF IsReader
      <3>5. ReadOne(ts, r, q)
        BY <1>1, <1>3, <1>4, <1>7, <3>2, <3>3 DEF ReadOne
      <3>6. QED
        BY <3>4, <3>5 DEF q
    <2>4. QED
      BY <2>2, <2>3
  <1>8. CASE t.kind \in {"bad", "unended"}
    <2>1. q = [p EXCEPT !.error = TRUE]
      BY <1>2, <1>8 DEF Parse
    <2>2. QED
      BY <1>1, <1>3, <1>4, <1>8, <2>1 DEF IsReader, ReadOne, q
  <1>9. CASE t.kind \in {"text", "comment", "pi"}
    <2>1. q = [p EXCEPT !.token = t.kind]
      BY <1>2, <1>9 DEF Parse
    <2>2. QED
      BY <1>1, <1>3, <1>4, <1>9, <2>1 DEF IsReader, ReadOne, q
  <1>10. QED
    BY <1>1, <1>5, <1>6, <1>7, <1>8, <1>9 DEF TokenKinds

(***************************************************************************)
(* start_element.                                                          *)
(***************************************************************************)
\* After n tokens that are no tags.
Passing(ts, r, q, n) ==
    /\ IsReader(ts, q) /\ ~q.error
    /\ q.pos = r.pos + n /\ q.open = r.open /\ q.empty = FALSE

AtStart(r, q) == q.more /\ q.pos > r.pos /\ q.token = "element" /\ Depth(q) = Depth(r) + 1
Closed(ts, q) == q.token = "end_element" /\ q.pos > 0 /\ ts[q.pos].kind = "end" /\ q.empty = FALSE

\* Where the loop ends.
TagFound(ts, r, q) ==
    /\ AtTag(q) /\ IsReader(ts, q) /\ q.pos >= r.pos
    /\ ~q.error => \/ ~q.more /\ q.pos = Len(ts)
                   \/ AtStart(r, q)
                   \/ Closed(ts, q) /\ Depth(q) = Depth(r) - 1

LEMMA TagStep ==
    ASSUME NEW ts, IsFile(ts), NEW r, IsReader(ts, r), ~r.empty, NEW q, NEW n \in Nat,
           Passing(ts, r, q, n)
    PROVE  LET p == Read(ts, q)
           IN TagFound(ts, r, p) \/ (~AtTag(p) /\ Passing(ts, r, p, n + 1))
  <1> DEFINE p == Read(ts, q)
  <1> HIDE DEF p
  <1>1. /\ r.pos \in Nat /\ q.pos \in 0 .. Len(ts) /\ Len(ts) \in Nat /\ q.pos >= r.pos
        /\ IsReader(ts, q) /\ Len(r.open) \in Nat /\ q.open = r.open /\ q.empty = FALSE
    BY OpenFacts DEF Passing, IsReader, IsFile, IsSequence
  <1>2. CASE q.pos = Len(ts)
    <2>1. IsReader(ts, p) /\ ~p.more /\ p.pos = q.pos
      BY <1>1, <1>2, ReadNothing DEF p
    <2>2. QED
      BY <1>1, <1>2, <2>1 DEF TagFound, AtTag, p
  <1>3. CASE q.pos # Len(ts)
    <2>1. IsReader(ts, p) /\ ReadOne(ts, q, p)
      BY <1>1, <1>3, ReadToken DEF p
    <2>2. p.pos = q.pos + 1 /\ p.more /\ p.pos > r.pos /\ p.pos > 0 /\ p.pos \in DOMAIN ts
      BY <1>1, <1>3, <2>1 DEF ReadOne, IsFile, IsSequence
    <2>3. CASE p.error
      BY <1>1, <2>1, <2>2, <2>3 DEF TagFound, AtTag, p
    <2>4. CASE ~p.error /\ ts[p.pos].kind \in {"start", "empty"}
      <3>1. p.token = "element" /\ Depth(p) = Depth(r) + 1
        BY <1>1, <2>1, <2>4, DepthFacts DEF ReadOne
      <3>2. AtStart(r, p) /\ AtTag(p)
        BY <2>2, <3>1 DEF AtStart, AtTag
      <3>3. QED
        BY <1>1, <2>1, <2>2, <3>2 DEF TagFound, p
    <2>5. CASE ~p.error /\ ts[p.pos].kind = "end"
      <3>1. p.token = "end_element" /\ Depth(p) = Depth(r) - 1 /\ p.empty = FALSE
        BY <1>1, <2>1, <2>5, DepthFacts DEF ReadOne
      <3>2. Closed(ts, p) /\ AtTag(p)
        BY <2>2, <2>5, <3>1 DEF Closed, AtTag
      <3>3. QED
        BY <1>1, <2>1, <2>2, <3>1, <3>2 DEF TagFound, p
    <2>6. CASE ~p.error /\ ts[p.pos].kind \notin {"start", "empty", "end"}
      <3>1. p.token \in {"text", "comment", "pi"} /\ p.open = r.open /\ p.empty = FALSE
        BY <1>1, <2>1, <2>6 DEF ReadOne
      <3>2. ~AtTag(p)
        BY <2>2, <2>6, <3>1 DEF AtTag
      <3>3. p.pos = r.pos + (n + 1)
        BY <1>1, <2>2 DEF Passing
      <3>4. QED
        BY <2>1, <2>6, <3>1, <3>2, <3>3 DEF Passing, p
    <2>7. QED
      BY <2>3, <2>4, <2>5, <2>6
  <1>4. QED
    BY <1>2, <1>3

\* The turns of the loop, of which there are n.
TagTurns(ts, r, n, f) ==
    f = [i \in 1 .. n |-> IF i = 1 THEN Read(ts, r) ELSE TagTurn(ts, f[i - 1])]

LEMMA TagTurnsExist ==
    ASSUME NEW ts, NEW r, NEW n \in Nat
    PROVE  \E f : TagTurns(ts, r, n, f)
  <1> DEFINE P == {k \in Nat : \E f : TagTurns(ts, r, k, f)}
  <1>1. 0 \in P
    <2> DEFINE f == [i \in 1 .. 0 |-> r]
    <2>1. TagTurns(ts, r, 0, f)
      BY DEF TagTurns
    <2>2. QED
      BY <2>1
  <1>2. ASSUME NEW k \in P PROVE k + 1 \in P
    <2>1. k \in Nat
      OBVIOUS
    <2>2. PICK f : TagTurns(ts, r, k, f)
      OBVIOUS
    <2>3. \A i \in 1 .. k : f[i] = IF i = 1 THEN Read(ts, r) ELSE TagTurn(ts, f[i - 1])
      BY <2>2 DEF TagTurns
    <2> DEFINE last == IF k = 0 THEN Read(ts, r) ELSE TagTurn(ts, f[k])
               h == [i \in 1 .. k + 1 |-> IF i = k + 1 THEN last ELSE f[i]]
    <2>4. ASSUME NEW i \in 1 .. k + 1
          PROVE  h[i] = IF i = 1 THEN Read(ts, r) ELSE TagTurn(ts, h[i - 1])
      <3> HIDE DEF last
      <3>1. CASE i = k + 1
        <4>1. h[i] = last /\ (i # 1 => k # 0 /\ h[i - 1] = f[k]) /\ (i = 1 => k = 0)
          BY <2>1, <3>1
        <4> HIDE DEF h
        <4>2. QED
          BY <4>1 DEF last
      <3>2. CASE i # k + 1
        <4>1. i \in 1 .. k /\ h[i] = f[i]
          BY <2>1, <3>2
        <4>2. i # 1 => h[i - 1] = f[i - 1]
          BY <2>1, <3>2
        <4> HIDE DEF h
        <4>3. QED
          BY <2>3, <4>1, <4>2
      <3>3. QED
        BY <3>1, <3>2
    <2>5. h = [i \in 1 .. k + 1 |-> h[i]]
      OBVIOUS
    <2> HIDE DEF last, h
    <2>6. h = [i \in 1 .. k + 1 |-> IF i = 1 THEN Read(ts, r) ELSE TagTurn(ts, h[i - 1])]
      BY <2>4, <2>5
    <2>7. TagTurns(ts, r, k + 1, h)
      BY <2>6 DEF TagTurns
    <2>8. QED
      BY <2>1, <2>7
  <1>3. P \in SUBSET Nat
    OBVIOUS
  <1> HIDE DEF P
  <1>4. P = Nat
    BY <1>1, <1>2, <1>3, InductionOverNat
  <1>5. QED
    BY <1>4 DEF P

\* As long as no tag is found another token is taken.
LEMMA TagTurnsRight ==
    ASSUME NEW ts, IsFile(ts), NEW r, IsReader(ts, r), ~r.empty, ~r.error,
           NEW n \in Nat, NEW f, TagTurns(ts, r, n, f)
    PROVE  \A i \in 1 .. n : TagFound(ts, r, f[i]) \/ (~AtTag(f[i]) /\ Passing(ts, r, f[i], i))
  <1> DEFINE Right(i) == TagFound(ts, r, f[i]) \/ (~AtTag(f[i]) /\ Passing(ts, r, f[i], i))
             P == {k \in Nat : k \in 1 .. n => Right(k)}
  <1> HIDE DEF Right
  <1>1. \A i \in 1 .. n : f[i] = IF i = 1 THEN Read(ts, r)
                                 ELSE IF AtTag(f[i - 1]) THEN f[i - 1] ELSE Read(ts, f[i - 1])
    BY DEF TagTurns, TagTurn
  <1>2. 0 \in P
    OBVIOUS
  <1>3. ASSUME NEW k \in P PROVE k + 1 \in P
    <2> SUFFICES ASSUME k + 1 \in 1 .. n PROVE Right(k + 1)
      OBVIOUS
    <2>1. k \in Nat /\ (k + 1) - 1 = k
      OBVIOUS
    <2>2. CASE k = 0
      <3>1. f[k + 1] = Read(ts, r)
        BY <1>1, <2>2
      <3>2. Passing(ts, r, r, 0)
        BY DEF Passing, IsReader
      <3>3. QED
        BY <2>2, <3>1, <3>2, TagStep DEF Right
    <2>3. CASE k # 0
      <3>1. k \in 1 .. n /\ Right(k)
        BY <2>1, <2>3
      <3>2. f[k + 1] = IF AtTag(f[k]) THEN f[k] ELSE Read(ts, f[k])
        BY <1>1, <2>1, <2>3
      <3>3. CASE AtTag(f[k])
        BY <3>1, <3>2, <3>3 DEF Right
      <3>4. CASE ~AtTag(f[k])
        <4>1. Passing(ts, r, f[k], k) /\ f[k + 1] = Read(ts, f[k])
          BY <3>1, <3>2, <3>4 DEF Right, TagFound
        <4>2. QED
          BY <2>1, <4>1, TagStep DEF Right
      <3>5. QED
        BY <3>3, <3>4
    <2>4. QED
      BY <2>2, <2>3
  <1>4. P \in SUBSET Nat
    OBVIOUS
  <1> HIDE DEF P
  <1>5. P = Nat
    BY <1>2, <1>3, <1>4, InductionOverNat
  <1>6. QED
    BY <1>5 DEF P, Right

LEMMA TurnsFacts ==
    ASSUME NEW ts, IsFile(ts), NEW r, IsReader(ts, r)
    PROVE  Turns(ts, r) \in Nat /\ Turns(ts, r) > 0 /\ r.pos + Turns(ts, r) = Len(ts) + 1
  BY DEF Turns, IsFile, IsSequence, IsReader

LEMMA NextTagFinds ==
    ASSUME NEW ts, IsFile(ts), NEW r, IsReader(ts, r), ~r.empty, ~r.error
    PROVE  \E q : TagFound(ts, r, q) /\ NextTag(ts, r) = [q EXCEPT !.more = @ /\ q.token = "element"]
  <1> DEFINE N == Turns(ts, r)
  <1>1. N \in Nat /\ N \in 1 .. N /\ r.pos + N = Len(ts) + 1 /\ Len(ts) \in Nat
    BY TurnsFacts DEF IsFile, IsSequence
  <1> DEFINE f == CHOOSE f : TagTurns(ts, r, N, f)
  <1>2. TagTurns(ts, r, N, f)
    BY <1>1, TagTurnsExist
  <1>3. NextTag(ts, r) = TellStart(f[CHOOSE n \in 1 .. N : AtTag(f[n])])
    BY DEF NextTag, TagTurns
  <1> HIDE DEF f
  <1>4. \A i \in 1 .. N : TagFound(ts, r, f[i]) \/ (~AtTag(f[i]) /\ Passing(ts, r, f[i], i))
    <2> HIDE DEF N
    <2>1. QED
      BY <1>1, <1>2, TagTurnsRight
  <1>5. AtTag(f[N])
    <2>1. ASSUME Passing(ts, r, f[N], N) PROVE FALSE
      BY <1>1, <2>1 DEF Passing, IsReader
    <2>2. QED
      BY <1>1, <1>4, <2>1 DEF TagFound
  <1> DEFINE n == CHOOSE n \in 1 .. N : AtTag(f[n])
  <1>6. n \in 1 .. N /\ AtTag(f[n])
    BY <1>1, <1>5
  <1> HIDE DEF N, n
  <1>7. TagFound(ts, r, f[n])
    BY <1>4, <1>6
  <1>8. NextTag(ts, r) = [f[n] EXCEPT !.more = @ /\ f[n].token = "element"]
    BY <1>3 DEF n, TellStart
  <1>9. QED
    BY <1>7, <1>8

\* What start_element returns, and where it leaves the reader.
Started(ts, r, q) ==
    /\ IsReader(ts, q) /\ q.pos >= r.pos
    /\ (~q.error /\ q.more) => AtStart(r, q)
    /\ (~q.error /\ ~q.more) => \/ q.pos = Len(ts)
                                \/ r.empty /\ q.empty /\ Depth(q) = Depth(r)
                                \/ Closed(ts, q) /\ Depth(q) = Depth(r) - 1

LEMMA StartElementDoes ==
    ASSUME NEW ts, IsFile(ts), NEW r, IsReader(ts, r), ~r.error
    PROVE  Started(ts, r, StartElement(ts, r))
  <1> DEFINE s == StartElement(ts, r)
  <1>1. CASE r.empty
    <2>1. s = [r EXCEPT !.more = FALSE]
      BY <1>1 DEF StartElement
    <2> HIDE DEF s
    <2>2. IsReader(ts, s) /\ s.pos = r.pos /\ s.more = FALSE /\ s.open = r.open /\ s.empty = r.empty
      BY <2>1 DEF IsReader
    <2>3. Depth(s) = Depth(r) /\ s.pos >= r.pos
      BY <1>1, <2>2 DEF Depth, IsReader
    <2>4. QED
      BY <1>1, <2>2, <2>3 DEF Started, s
  <1>2. CASE ~r.empty
    <2>1. s = NextTag(ts, r)
      BY <1>2 DEF StartElement
    <2>2. PICK q : TagFound(ts, r, q) /\ s = [q EXCEPT !.more = @ /\ q.token = "element"]
      BY <1>2, <2>1, NextTagFinds
    <2> HIDE DEF s
    <2>3. /\ IsReader(ts, s) /\ s.pos = q.pos /\ s.token = q.token /\ s.open = q.open
          /\ s.empty = q.empty /\ s.error = q.error
          /\ s.more = (q.more /\ q.token = "element")
      BY <2>2 DEF TagFound, IsReader
    <2>4. Depth(s) = Depth(q) /\ s.pos >= r.pos
      BY <2>2, <2>3 DEF Depth, TagFound
    <2>5. ASSUME ~q.error, ~q.more /\ q.pos = Len(ts) PROVE Started(ts, r, s)
      BY <2>3, <2>4, <2>5 DEF Started
    <2>6. ASSUME ~q.error, AtStart(r, q) PROVE Started(ts, r, s)
      <3>1. AtStart(r, s)
        BY <2>3, <2>4, <2>6 DEF AtStart
      <3>2. QED
        BY <2>3, <2>4, <3>1 DEF Started, AtStart
    <2>7. ASSUME ~q.error, Closed(ts, q) /\ Depth(q) = Depth(r) - 1 PROVE Started(ts, r, s)
      <3>1. Closed(ts, s) /\ ~s.more
        BY <2>3, <2>7 DEF Closed
      <3>2. QED
        BY <2>3, <2>4, <2>7, <3>1 DEF Started
    <2>8. ASSUME q.error PROVE Started(ts, r, s)
      BY <2>3, <2>4, <2>8 DEF Started
    <2>9. QED
      BY <2>2, <2>5, <2>6, <2>7, <2>8 DEF TagFound, s
  <1>3. QED
    BY <1>1, <1>2

(***************************************************************************)
(* skip.                                                                   *)
(***************************************************************************)
LEMMA NestingFacts ==
    ASSUME NEW ts, IsFile(ts), NEW r, IsReader(ts, r)
    PROVE  /\ Nesting(r) \in Int /\ Nesting(r) \in {-1, 0, 1}
           /\ Nesting(r) = 1 <=> r.token = "element" /\ ~r.empty
           /\ Nesting(r) = -1 <=> r.token = "end_element"
  <1>1. CASE r.token = "element" /\ ~r.empty
    BY <1>1 DEF Nesting
  <1>2. CASE r.token = "element" /\ r.empty
    BY <1>2 DEF Nesting
  <1>3. CASE r.token = "end_element"
    BY <1>3 DEF Nesting
  <1>4. CASE r.token \notin {"element", "end_element"}
    BY <1>4 DEF Nesting
  <1>5. QED
    BY <1>1, <1>2, <1>3, <1>4

\* What a token adds to the open tags is what it adds to the depth.
LEMMA NestingRead ==
    ASSUME NEW ts, IsFile(ts), NEW r, IsReader(ts, r), NEW q, IsReader(ts, q),
           ReadOne(ts, r, q), ~q.error
    PROVE  /\ Len(q.open) = Len(r.open) + Nesting(q)
           /\ Nesting(q) = -1 => Closed(ts, q)
  <1>1. Len(r.open) \in Nat /\ Len(q.open) \in Nat /\ q.pos = r.pos + 1 /\ q.pos > 0
    BY DepthFacts DEF ReadOne, IsReader
  <1>2. CASE ts[q.pos].kind = "start"
    <2>1. Nesting(q) = 1 /\ Len(q.open) = Len(r.open) + 1
      BY <1>2, NestingFacts DEF ReadOne
    <2>2. QED
      BY <2>1
  <1>3. CASE ts[q.pos].kind = "empty"
    <2>1. Nesting(q) = 0 /\ q.open = r.open
      BY <1>3, NestingFacts DEF ReadOne
    <2>2. QED
      BY <1>1, <2>1
  <1>4. CASE ts[q.pos].kind = "end"
    <2>1. q.token = "end_element" /\ Len(q.open) = Len(r.open) - 1 /\ q.empty = FALSE
      BY <1>4 DEF ReadOne
    <2>2. Nesting(q) = -1
      BY <2>1, NestingFacts
    <2>3. QED
      BY <1>1, <1>4, <2>1, <2>2 DEF Closed
  <1>5. CASE ts[q.pos].kind \notin {"start", "empty", "end"}
    <2>1. Nesting(q) = 0 /\ q.open = r.open
      BY <1>5, NestingFacts DEF ReadOne
    <2>2. QED
      BY <1>1, <2>1
  <1>6. QED
    BY <1>2, <1>3, <1>4, <1>5

\* The token behind an end tag is no tag.
LEMMA AfterEnd ==
    ASSUME NEW ts, IsFile(ts), Separated(ts), NEW r, IsReader(ts, r), Closed(ts, r),
           NEW q, q = Read(ts, r), ~q.error, q.pos < Len(ts)
    PROVE  Depth(q) = Depth(r)
  <1>1. r.pos # Len(ts) /\ r.pos \in Nat /\ Len(ts) \in Nat /\ r.pos <= Len(ts) /\ r.pos > 0
    BY ReadNothing DEF IsFile, IsSequence, IsReader, Closed
  <1>2. IsReader(ts, q) /\ ReadOne(ts, r, q)
    BY <1>1, ReadToken
  <1>3. r.pos \in 1 .. Len(ts) - 1 /\ ts[r.pos].kind = "end" /\ q.pos = r.pos + 1
    BY <1>1, <1>2 DEF Closed, ReadOne
  <1>4. ts[q.pos].kind \notin {"start", "empty", "end"}
    BY <1>3 DEF Separated
  <1>5. q.open = r.open /\ q.empty = r.empty
    BY <1>2, <1>4 DEF ReadOne
  <1>6. QED
    BY <1>5 DEF Depth

\* The loop goes on after n tokens.
Going(ts, r, w, n) ==
    /\ w.on = TRUE /\ IsReader(ts, w.at) /\ ~w.at.error /\ w.at.pos = r.pos + n
    /\ w.depth \in Int
    /\ w.depth + Nesting(w.at) = Len(w.at.open) - Len(r.open) + Nesting(r)
    /\ n = 0 => w.at = r /\ w.depth = 0
    /\ n > 0 => /\ w.depth > 0 /\ Nesting(r) = 1
                /\ Nesting(w.at) = -1 => Closed(ts, w.at)

\* Behind an element there is one less to be closed, behind an end tag as many as before.
Skipped(ts, r, q) ==
    /\ IsReader(ts, q) /\ q.pos >= r.pos
    /\ (Separated(ts) /\ ~q.error /\ q.pos < Len(ts)) =>
          /\ r.token = "element" \/ r.empty => Depth(q) = Depth(r) - 1
          /\ Closed(ts, r) => Depth(q) = Depth(r)

LEMMA SkipStep ==
    ASSUME NEW ts, IsFile(ts), NEW r, IsReader(ts, r), ~r.empty, NEW w, NEW n \in Nat,
           Going(ts, r, w, n)
    PROVE  LET v == SkipTurn(ts, w)
           IN (v.on = FALSE /\ Skipped(ts, r, v.at)) \/ Going(ts, r, v, n + 1)
  <1> DEFINE p == w.at
             q == Read(ts, p)
             d == w.depth + Nesting(p)
             v == SkipTurn(ts, w)
  <1>1. v = [at |-> q, depth |-> d, on |-> q.more /\ ~q.error /\ d > 0]
    BY DEF SkipTurn, Skipping, Going
  <1> HIDE DEF v
  <1>2. v.at = q /\ v.depth = d /\ v.on = (q.more /\ ~q.error /\ d > 0)
    BY <1>1
  <1>3. /\ IsReader(ts, p) /\ p.error = FALSE /\ Nesting(p) \in {-1, 0, 1} /\ Nesting(r) \in {-1, 0, 1}
        /\ Len(p.open) \in Nat /\ Len(r.open) \in Nat /\ Depth(r) = Len(r.open)
        /\ Nesting(p) \in Int /\ Nesting(r) \in Int
        /\ r.pos \in Nat /\ p.pos = r.pos + n /\ w.depth \in Int /\ d \in Int
        /\ d = Len(p.open) - Len(r.open) + Nesting(r)
        /\ Len(ts) \in Nat /\ (p.pos # Len(ts) => p.pos < Len(ts))
    <2>1. IsReader(ts, p) /\ p.error = FALSE /\ p.pos = r.pos + n /\ w.depth \in Int
      BY DEF Going, IsReader
    <2>2. /\ Nesting(p) \in {-1, 0, 1} /\ Nesting(r) \in {-1, 0, 1}
          /\ Nesting(p) \in Int /\ Nesting(r) \in Int
      BY <2>1, NestingFacts
    <2>3. Len(p.open) \in Nat /\ Len(r.open) \in Nat /\ Depth(r) = Len(r.open)
      BY <2>1, DepthFacts
    <2>4. d = Len(p.open) - Len(r.open) + Nesting(r)
      BY DEF Going
    <2>5. r.pos \in Nat /\ Len(ts) \in Nat /\ (p.pos # Len(ts) => p.pos < Len(ts))
      BY <2>1 DEF IsReader, IsFile, IsSequence
    <2>6. d \in Int
      BY <2>1, <2>2
    <2> HIDE DEF p, d
    <2>7. QED
      BY <2>1, <2>2, <2>3, <2>4, <2>5, <2>6
  <1>4. IsReader(ts, q) /\ q.pos >= r.pos /\ (p.pos = Len(ts) => ~q.more /\ q.pos = Len(ts))
    <2>1. CASE p.pos = Len(ts)
      BY <1>3, <2>1, ReadNothing
    <2>2. CASE p.pos # Len(ts)
      <3>1. IsReader(ts, q) /\ ReadOne(ts, p, q)
        BY <1>3, <2>2, ReadToken
      <3> HIDE DEF p, q, d
      <3>2. q.pos = p.pos + 1
        BY <3>1 DEF ReadOne
      <3>3. QED
        BY <1>3, <2>2, <3>1, <3>2
    <2>3. QED
      BY <2>1, <2>2
  <1> HIDE DEF p, q, d
  <1>5. q = Read(ts, p) /\ w.at = p /\ d = w.depth + Nesting(p)
    BY DEF p, q, d
  <1>6. CASE q.error
    BY <1>2, <1>4, <1>6 DEF Skipped, v
  <1>7. CASE p.pos = Len(ts)
    <2>1. v.on = FALSE
      BY <1>2, <1>4, <1>7
    <2>2. Skipped(ts, r, q)
      BY <1>3, <1>4, <1>7 DEF Skipped
    <2>3. QED
      BY <1>2, <2>1, <2>2 DEF v
  <1>8. CASE ~q.error /\ p.pos # Len(ts)
    <2>1. ReadOne(ts, p, q) /\ q.pos = r.pos + (n + 1) /\ q.more
      <3>1. ReadOne(ts, p, q)
        BY <1>3, <1>5, <1>8, ReadToken
      <3>2. q.pos = p.pos + 1 /\ q.more
        BY <3>1 DEF ReadOne
      <3>3. QED
        BY <1>3, <3>1, <3>2
    <2>2. Len(q.open) = Len(p.open) + Nesting(q) /\ (Nesting(q) = -1 => Closed(ts, q))
      BY <1>3, <1>4, <1>8, <2>1, NestingRead
    <2>3. CASE d > 0
      <3>1. v.on = TRUE
        BY <1>2, <1>8, <2>1, <2>3
      <3>2. Nesting(r) = 1
        <4>1. n = 0 => p = r /\ w.depth = 0
          BY <1>5 DEF Going
        <4>2. n > 0 => Nesting(r) = 1
          BY DEF Going
        <4>3. n = 0 => d = Nesting(r)
          BY <1>3, <1>5, <4>1
        <4>4. \A x \in Int : x \in {-1, 0, 1} /\ x > 0 => x = 1
          OBVIOUS
        <4>5. CASE n = 0
          BY <1>3, <2>3, <4>3, <4>4, <4>5
        <4>6. CASE n # 0
          BY <4>2, <4>6
        <4>7. QED
          BY <4>5, <4>6
      <3>3. Len(q.open) \in Nat /\ Nesting(q) \in Int
        BY <1>4, NestingFacts, DepthFacts
      <3>4. d + Nesting(q) = Len(q.open) - Len(r.open) + Nesting(r)
        <4> DEFINE a == Len(p.open)
                   b == Len(r.open)
                   c == Nesting(r)
                   y == Len(q.open)
                   z == Nesting(q)
        <4>1. a \in Nat /\ b \in Nat /\ c \in Int /\ d \in Int
          BY <1>3
        <4>2. y \in Nat /\ z \in Int
          BY <3>3
        <4>3. d = a - b + c /\ y = a + z
          BY <1>3, <2>2
        <4> HIDE DEF a, b, c, y, z
        <4>4. d + z = y - b + c
          BY <4>1, <4>2, <4>3
        <4>5. QED
          BY <4>4 DEF b, c, y, z
      <3>5. n + 1 # 0 /\ n + 1 > 0
        OBVIOUS
      <3>6. Going(ts, r, v, n + 1)
        BY <1>2, <1>3, <1>4, <1>8, <2>1, <2>2, <2>3, <3>1, <3>2, <3>4, <3>5 DEF Going
      <3>7. QED
        BY <3>6 DEF v
    <2>4. CASE ~(d > 0)
      <3>1. v.on = FALSE
        BY <1>2, <2>4
      <3>2. ASSUME Separated(ts), q.pos < Len(ts)
            PROVE  /\ r.token = "element" => Depth(q) = Depth(r) - 1
                   /\ Closed(ts, r) => Depth(q) = Depth(r)
        <4>1. CASE n = 0
          <5>1. p = r /\ d = Nesting(r)
            BY <1>3, <1>5, <4>1 DEF Going
          <5>2. r.token # "element"
            BY <2>4, <5>1, NestingFacts
          <5>3. Closed(ts, r) => Depth(q) = Depth(r)
            BY <1>5, <1>8, <3>2, <5>1, AfterEnd
          <5>4. QED
            BY <5>2, <5>3
        <4>2. CASE n # 0
          <5>1. w.depth > 0 /\ Nesting(r) = 1 /\ (Nesting(p) = -1 => Closed(ts, p))
            BY <1>5, <4>2 DEF Going
          <5>2. Nesting(p) = -1 /\ d = 0
            <6>1. \A x, y \in Int : y \in {-1, 0, 1} /\ x > 0 /\ ~(x + y > 0) => y = -1 /\ x + y = 0
              OBVIOUS
            <6>2. QED
              BY <1>3, <1>5, <2>4, <5>1, <6>1
          <5>3. Depth(q) = Depth(p)
            BY <1>3, <1>5, <1>8, <3>2, <5>1, <5>2, AfterEnd
          <5>4. Depth(p) = Len(p.open)
            BY <1>3, <5>1, <5>2, DepthFacts DEF Closed
          <5>5. Len(p.open) = Len(r.open) - 1
            BY <1>3, <5>1, <5>2
          <5>6. ~Closed(ts, r)
            BY <5>1, NestingFacts DEF Closed
          <5>7. QED
            BY <1>3, <5>3, <5>4, <5>5, <5>6
        <4>3. QED
          BY <4>1, <4>2
      <3>3. Skipped(ts, r, q)
        BY <1>4, <3>2 DEF Skipped
      <3>4. QED
        BY <1>2, <3>1, <3>3 DEF v
    <2>5. QED
      BY <2>3, <2>4
  <1>9. QED
    BY <1>6, <1>7, <1>8

SkipTurns(ts, r, n, f) ==
    f = [i \in 0 .. n |-> IF i = 0 THEN [at |-> r, depth |-> 0, on |-> TRUE]
                          ELSE SkipTurn(ts, f[i - 1])]

LEMMA SkipTurnsExist ==
    ASSUME NEW ts, NEW r, NEW n \in Nat
    PROVE  \E f : SkipTurns(ts, r, n, f)
  <1> DEFINE first == [at |-> r, depth |-> 0, on |-> TRUE]
             P == {k \in Nat : \E f : SkipTurns(ts, r, k, f)}
  <1> HIDE DEF first
  <1>1. 0 \in P
    <2> DEFINE f == [i \in 0 .. 0 |-> first]
    <2>1. SkipTurns(ts, r, 0, f)
      BY DEF SkipTurns, first
    <2>2. QED
      BY <2>1
  <1>2. ASSUME NEW k \in P PROVE k + 1 \in P
    <2>1. k \in Nat
      OBVIOUS
    <2>2. PICK f : SkipTurns(ts, r, k, f)
      OBVIOUS
    <2>3. \A i \in 0 .. k : f[i] = IF i = 0 THEN first ELSE SkipTurn(ts, f[i - 1])
      BY <2>2 DEF SkipTurns, first
    <2> DEFINE last == SkipTurn(ts, f[k])
               h == [i \in 0 .. k + 1 |-> IF i = k + 1 THEN last ELSE f[i]]
    <2>4. ASSUME NEW i \in 0 .. k + 1
          PROVE  h[i] = IF i = 0 THEN first ELSE SkipTurn(ts, h[i - 1])
      <3> HIDE DEF last
      <3>1. CASE i = k + 1
        <4>1. h[i] = last /\ i # 0 /\ h[i - 1] = f[k]
          BY <2>1, <3>1
        <4> HIDE DEF h
        <4>2. QED
          BY <4>1 DEF last
      <3>2. CASE i # k + 1
        <4>1. i \in 0 .. k /\ h[i] = f[i]
          BY <2>1, <3>2
        <4>2. i # 0 => h[i - 1] = f[i - 1]
          BY <2>1, <3>2
        <4> HIDE DEF h
        <4>3. QED
          BY <2>3, <4>1, <4>2
      <3>3. QED
        BY <3>1, <3>2
    <2>5. h = [i \in 0 .. k + 1 |-> h[i]]
      OBVIOUS
    <2> HIDE DEF last, h
    <2>6. h = [i \in 0 .. k + 1 |-> IF i = 0 THEN first ELSE SkipTurn(ts, h[i - 1])]
      BY <2>4, <2>5
    <2>7. SkipTurns(ts, r, k + 1, h)
      BY <2>6 DEF SkipTurns, first
    <2>8. QED
      BY <2>1, <2>7
  <1>3. P \in SUBSET Nat
    OBVIOUS
  <1> HIDE DEF P
  <1>4. P = Nat
    BY <1>1, <1>2, <1>3, InductionOverNat
  <1>5. QED
    BY <1>4 DEF P

LEMMA SkipTurnsRight ==
    ASSUME NEW ts, IsFile(ts), NEW r, IsReader(ts, r), ~r.empty, ~r.error,
           NEW n \in Nat, NEW f, SkipTurns(ts, r, n, f)
    PROVE  \A i \in 0 .. n : (f[i].on = FALSE /\ Skipped(ts, r, f[i].at)) \/ Going(ts, r, f[i], i)
  <1> DEFINE Right(i) == (f[i].on = FALSE /\ Skipped(ts, r, f[i].at)) \/ Going(ts, r, f[i], i)
             P == {k \in Nat : k \in 0 .. n => Right(k)}
             first == [at |-> r, depth |-> 0, on |-> TRUE]
  <1> HIDE DEF Right, first
  <1>1. \A i \in 0 .. n : f[i] = IF i = 0 THEN first ELSE SkipTurn(ts, f[i - 1])
    BY DEF SkipTurns, first
  <1>2. 0 \in P
    <2>1. f[0] = first
      BY <1>1
    <2>2. Nesting(r) \in Int /\ Len(r.open) \in Nat /\ r.pos \in Nat
      BY NestingFacts, DepthFacts DEF IsReader
    <2>3. first.at = r /\ first.depth = 0 /\ first.on = TRUE
      BY DEF first
    <2>4. 0 + Nesting(r) = Len(r.open) - Len(r.open) + Nesting(r) /\ r.pos = r.pos + 0 /\ ~(0 > 0)
      BY <2>2
    <2>5. Going(ts, r, first, 0)
      BY <2>3, <2>4 DEF Going
    <2>6. QED
      BY <2>1, <2>5 DEF Right
  <1>3. ASSUME NEW k \in P PROVE k + 1 \in P
    <2> SUFFICES ASSUME k + 1 \in 0 .. n PROVE Right(k + 1)
      OBVIOUS
    <2>1. k \in Nat /\ (k + 1) - 1 = k /\ k \in 0 .. n /\ k + 1 # 0 /\ Right(k)
      OBVIOUS
    <2>2. f[k + 1] = SkipTurn(ts, f[k])
      BY <1>1, <2>1
    <2>3. CASE f[k].on = FALSE /\ Skipped(ts, r, f[k].at)
      BY <2>2, <2>3 DEF Right, SkipTurn
    <2>4. CASE Going(ts, r, f[k], k)
      BY <2>1, <2>2, <2>4, SkipStep DEF Right
    <2>5. QED
      BY <2>1, <2>3, <2>4 DEF Right
  <1>4. P \in SUBSET Nat
    OBVIOUS
  <1> HIDE DEF P
  <1>5. P = Nat
    BY <1>2, <1>3, <1>4, InductionOverNat
  <1>6. QED
    BY <1>5 DEF P, Right

LEMMA SkipDoes ==
    ASSUME NEW ts, IsFile(ts), NEW r, IsReader(ts, r), ~r.error
    PROVE  Skipped(ts, r, Skip(ts, r))
  <1> DEFINE s == Skip(ts, r)
  <1>1. CASE r.empty
    <2>1. s = [r EXCEPT !.empty = FALSE]
      BY <1>1 DEF Skip
    <2> HIDE DEF s
    <2>2. IsReader(ts, s) /\ s.pos = r.pos /\ s.open = r.open /\ s.empty = FALSE
      BY <2>1 DEF IsReader
    <2>3. Depth(r) = Len(r.open) + 1 /\ Len(r.open) \in Nat
      BY <1>1, DepthFacts
    <2>4. Depth(s) = Len(r.open)
      BY <2>2, DepthFacts
    <2>5. s.pos >= r.pos /\ ~Closed(ts, r)
      BY <1>1, <2>2 DEF IsReader, Closed
    <2>6. Depth(s) = Depth(r) - 1
      BY <2>3, <2>4
    <2>7. QED
      BY <2>2, <2>5, <2>6 DEF Skipped, s
  <1>2. CASE ~r.empty
    <2> DEFINE N == Turns(ts, r)
               f == CHOOSE f : SkipTurns(ts, r, N, f)
               n == CHOOSE n \in 0 .. N : ~f[n].on
    <2>1. N \in Nat /\ r.pos + N = Len(ts) + 1 /\ Len(ts) \in Nat
      BY TurnsFacts DEF IsFile, IsSequence
    <2>2. SkipTurns(ts, r, N, f)
      BY <2>1, SkipTurnsExist
    <2>3. s = f[n].at
      BY <1>2 DEF Skip, SkipFrom, SkipTurns
    <2> HIDE DEF f, s
    <2>4. \A i \in 0 .. N : (f[i].on = FALSE /\ Skipped(ts, r, f[i].at)) \/ Going(ts, r, f[i], i)
      <3> HIDE DEF N
      <3>1. QED
        BY <1>2, <2>1, <2>2, SkipTurnsRight
    <2> HIDE DEF N
    <2>5. ~f[N].on
      <3>1. ASSUME Going(ts, r, f[N], N) PROVE FALSE
        BY <2>1, <3>1 DEF Going, IsReader
      <3>2. N \in 0 .. N
        BY <2>1
      <3>3. QED
        BY <2>4, <3>1, <3>2
    <2>6. n \in 0 .. N /\ ~f[n].on
      BY <2>1, <2>5
    <2> HIDE DEF n
    <2>7. Skipped(ts, r, f[n].at)
      BY <2>4, <2>6 DEF Going
    <2>8. QED
      BY <2>3, <2>7 DEF s
  <1>3. QED
    BY <1>1, <1>2

(***************************************************************************)
(* next_element.                                                           *)
(***************************************************************************)
\* What next_element returns: an element further on, as deep as start_element finds it.
FoundElement(r, q) ==
    /\ IsReader(Tokens, q) /\ q.pos >= r.pos
    /\ (~q.error /\ q.more) =>
          /\ q.pos > r.pos /\ q.token = "element"
          /\ Separated(Tokens) => Depth(q) = Depth(r) + 1

LEMMA ElementStarted ==
    ASSUME NEW r, NEW q, Started(Tokens, r, q)
    PROVE  FoundElement(r, q)
  BY DEF Started, FoundElement, AtStart

LEMMA ElementStep ==
    ASSUME IsFile(Tokens), NEW r, IsReader(Tokens, r), NEW q, FoundElement(r, q), ~Met(q)
    PROVE  /\ FoundElement(r, NextTurn(q))
           /\ ~Met(NextTurn(q)) => NextTurn(q).pos > q.pos
  <1> DEFINE s == Skip(Tokens, q)
             p == StartElement(Tokens, s)
             t == NextTurn(q)
  <1>1. t = IF s.error THEN s ELSE p
    BY DEF NextTurn, Beyond
  <1>2. /\ ~q.error /\ q.more /\ IsReader(Tokens, q) /\ q.pos > r.pos /\ q.token = "element"
        /\ Separated(Tokens) => Depth(q) = Depth(r) + 1
    BY DEF Met, FoundElement
  <1>3. Skipped(Tokens, q, s)
    BY <1>2, SkipDoes
  <1>4. ~s.error => Started(Tokens, s, p)
    BY <1>3, StartElementDoes DEF Skipped
  <1> HIDE DEF s, p, t
  <1>5. /\ IsReader(Tokens, s) /\ s.pos >= q.pos /\ r.pos \in Nat /\ q.pos \in Nat /\ s.pos \in Nat
        /\ Len(Tokens) \in Nat
    BY <1>2, <1>3 DEF Skipped, IsReader, IsFile, IsSequence
  <1>6. CASE s.error
    <2>1. t = s /\ Met(t) /\ s.pos >= r.pos
      BY <1>1, <1>2, <1>5, <1>6 DEF Met
    <2>2. QED
      BY <1>5, <1>6, <2>1 DEF FoundElement, t
  <1>7. CASE ~s.error
    <2>1. t = p /\ Started(Tokens, s, p) /\ IsReader(Tokens, p) /\ p.pos >= s.pos /\ p.pos \in Nat
          /\ p.pos <= Len(Tokens) /\ p.pos >= r.pos
      <3>1. t = p /\ Started(Tokens, s, p)
        BY <1>1, <1>4, <1>7
      <3>2. IsReader(Tokens, p) /\ p.pos >= s.pos
        BY <3>1 DEF Started
      <3>3. QED
        BY <1>2, <1>5, <3>1, <3>2 DEF IsReader
    <2>2. ASSUME ~p.error, p.more
          PROVE  /\ p.pos > q.pos /\ p.pos > r.pos /\ p.token = "element"
                 /\ Separated(Tokens) => Depth(p) = Depth(r) + 1
      <3>1. p.pos > s.pos /\ p.token = "element" /\ Depth(p) = Depth(s) + 1
        BY <2>1, <2>2 DEF Started, AtStart
      <3>2. s.pos < Len(Tokens) /\ p.pos > q.pos /\ p.pos > r.pos
        BY <1>2, <1>5, <2>1, <3>1
      <3>3. Separated(Tokens) => Depth(s) = Depth(q) - 1
        BY <1>2, <1>3, <1>7, <3>2 DEF Skipped
      <3>4. Depth(r) \in Nat /\ Depth(s) \in Nat
        BY <1>5, DepthFacts
      <3>5. ASSUME Separated(Tokens) PROVE Depth(p) = Depth(r) + 1
        <4>1. Depth(s) = (Depth(r) + 1) - 1 /\ Depth(p) = Depth(s) + 1
          BY <1>2, <3>1, <3>3, <3>5
        <4>2. QED
          BY <3>4, <4>1
      <3>6. QED
        BY <3>1, <3>2, <3>5
    <2>3. ~Met(p) => ~p.error /\ p.more
      BY DEF Met
    <2>4. QED
      BY <2>1, <2>2, <2>3 DEF FoundElement, t
  <1>8. QED
    BY <1>6, <1>7

ElementTurns(r, n, f) ==
    f = [i \in 0 .. n |-> IF i = 0 THEN StartElement(Tokens, r) ELSE NextTurn(f[i - 1])]

LEMMA ElementTurnsExist ==
    ASSUME NEW r, NEW n \in Nat
    PROVE  \E f : ElementTurns(r, n, f)
  <1> DEFINE P == {k \in Nat : \E f : ElementTurns(r, k, f)}
  <1>1. 0 \in P
    <2> DEFINE f == [i \in 0 .. 0 |-> StartElement(Tokens, r)]
    <2>1. ElementTurns(r, 0, f)
      BY DEF ElementTurns
    <2>2. QED
      BY <2>1
  <1>2. ASSUME NEW k \in P PROVE k + 1 \in P
    <2>1. k \in Nat
      OBVIOUS
    <2>2. PICK f : ElementTurns(r, k, f)
      OBVIOUS
    <2>3. \A i \in 0 .. k : f[i] = IF i = 0 THEN StartElement(Tokens, r) ELSE NextTurn(f[i - 1])
      BY <2>2 DEF ElementTurns
    <2> DEFINE last == NextTurn(f[k])
               h == [i \in 0 .. k + 1 |-> IF i = k + 1 THEN last ELSE f[i]]
    <2>4. ASSUME NEW i \in 0 .. k + 1
          PROVE  h[i] = IF i = 0 THEN StartElement(Tokens, r) ELSE NextTurn(h[i - 1])
      <3> HIDE DEF last
      <3>1. CASE i = k + 1
        <4>1. h[i] = last /\ i # 0 /\ h[i - 1] = f[k]
          BY <2>1, <3>1
        <4> HIDE DEF h
        <4>2. QED
          BY <4>1 DEF last
      <3>2. CASE i # k + 1
        <4>1. i \in 0 .. k /\ h[i] = f[i]
          BY <2>1, <3>2
        <4>2. i # 0 => h[i - 1] = f[i - 1]
          BY <2>1, <3>2
        <4> HIDE DEF h
        <4>3. QED
          BY <2>3, <4>1, <4>2
      <3>3. QED
        BY <3>1, <3>2
    <2>5. h = [i \in 0 .. k + 1 |-> h[i]]
      OBVIOUS
    <2> HIDE DEF last, h
    <2>6. ElementTurns(r, k + 1, h)
      BY <2>4, <2>5 DEF ElementTurns
    <2>7. QED
      BY <2>1, <2>6
  <1>3. P \in SUBSET Nat
    OBVIOUS
  <1> HIDE DEF P
  <1>4. P = Nat
    BY <1>1, <1>2, <1>3, InductionOverNat
  <1>5. QED
    BY <1>4 DEF P

\* Every turn passes at least the tag of the element it skips.
LEMMA ElementTurnsRight ==
    ASSUME IsFile(Tokens), NEW r, IsReader(Tokens, r), ~r.error,
           NEW n \in Nat, NEW f, ElementTurns(r, n, f)
    PROVE  \A i \in 0 .. n : FoundElement(r, f[i]) /\ (~Met(f[i]) => f[i].pos > r.pos + i)
  <1> DEFINE Right(i) == FoundElement(r, f[i]) /\ (~Met(f[i]) => f[i].pos > r.pos + i)
             P == {k \in Nat : k \in 0 .. n => Right(k)}
  <1> HIDE DEF Right
  <1>1. \A i \in 0 .. n : f[i] = IF i = 0 THEN StartElement(Tokens, r) ELSE NextTurn(f[i - 1])
    BY DEF ElementTurns
  <1>2. r.pos \in Nat
    BY DEF IsReader
  <1>3. 0 \in P
    <2>1. f[0] = StartElement(Tokens, r)
      BY <1>1
    <2>2. FoundElement(r, f[0])
      BY <2>1, StartElementDoes, ElementStarted
    <2>3. ~Met(f[0]) => f[0].pos > r.pos + 0
      BY <1>2, <2>2 DEF FoundElement, Met
    <2>4. QED
      BY <2>2, <2>3 DEF Right
  <1>4. ASSUME NEW k \in P PROVE k + 1 \in P
    <2> SUFFICES ASSUME k + 1 \in 0 .. n PROVE Right(k + 1)
      OBVIOUS
    <2>1. k \in Nat /\ (k + 1) - 1 = k /\ k \in 0 .. n /\ k + 1 # 0 /\ Right(k)
      OBVIOUS
    <2>2. f[k + 1] = NextTurn(f[k])
      BY <1>1, <2>1
    <2>3. FoundElement(r, f[k]) /\ (~Met(f[k]) => f[k].pos > r.pos + k)
      BY <2>1 DEF Right
    <2>4. CASE Met(f[k])
      <3>1. f[k + 1] = f[k]
        BY <2>2, <2>4 DEF NextTurn
      <3>2. QED
        BY <2>3, <2>4, <3>1 DEF Right
    <2>5. CASE ~Met(f[k])
      <3>1. FoundElement(r, f[k + 1]) /\ (~Met(f[k + 1]) => f[k + 1].pos > f[k].pos)
        BY <2>2, <2>3, <2>5, ElementStep
      <3>2. f[k].pos \in Nat /\ f[k + 1].pos \in Nat
        BY <2>3, <3>1 DEF FoundElement, IsReader
      <3>3. f[k].pos > r.pos + k
        BY <2>3, <2>5
      <3>4. ~Met(f[k + 1]) => f[k + 1].pos > r.pos + (k + 1)
        BY <1>2, <2>1, <3>1, <3>2, <3>3
      <3>5. QED
        BY <3>1, <3>4 DEF Right
    <2>6. QED
      BY <2>4, <2>5
  <1>5. P \in SUBSET Nat
    OBVIOUS
  <1> HIDE DEF P
  <1>6. P = Nat
    BY <1>3, <1>4, <1>5, InductionOverNat
  <1>7. QED
    BY <1>6 DEF P, Right

LEMMA NextElementDoes ==
    ASSUME IsFile(Tokens), NEW r, IsReader(Tokens, r), ~r.error
    PROVE  FoundElement(r, NextElement(r))
  <1> DEFINE N == Turns(Tokens, r)
             f == CHOOSE f : ElementTurns(r, N, f)
             n == CHOOSE n \in 0 .. N : Met(f[n])
  <1>1. N \in Nat /\ r.pos + N = Len(Tokens) + 1 /\ Len(Tokens) \in Nat /\ r.pos \in Nat
    <2>1. N \in Nat /\ r.pos + N = Len(Tokens) + 1
      BY TurnsFacts
    <2>2. Len(Tokens) \in Nat /\ r.pos \in Nat
      BY DEF IsFile, IsSequence, IsReader
    <2>3. QED
      BY <2>1, <2>2
  <1>2. ElementTurns(r, N, f)
    BY <1>1, ElementTurnsExist
  <1>3. NextElement(r) = f[n]
    BY DEF NextElement, ElementTurns
  <1> HIDE DEF f, N
  <1>4. \A i \in 0 .. N : FoundElement(r, f[i]) /\ (~Met(f[i]) => f[i].pos > r.pos + i)
    BY <1>1, <1>2, ElementTurnsRight
  <1>5. Met(f[N])
    <2>1. N \in 0 .. N
      BY <1>1
    <2>2. f[N].pos \in Nat /\ f[N].pos <= Len(Tokens)
      BY <1>1, <1>4, <2>1 DEF FoundElement, IsReader
    <2>3. ~Met(f[N]) => f[N].pos > r.pos + N
      BY <1>4, <2>1
    <2>4. QED
      BY <1>1, <2>2, <2>3
  <1>6. n \in 0 .. N
    BY <1>1, <1>5
  <1> HIDE DEF n
  <1>7. QED
    BY <1>3, <1>4, <1>6

(***************************************************************************)
(* The loops of the parser.                                                *)
(***************************************************************************)
IsFrame(f) == DOMAIN f = {"kind", "stage", "group"}

\* The loops are nested in the one over the sections of the project.
InLoops(fs) ==
    /\ IsStack(fs) /\ Len(fs) > 0
    /\ \A i \in 1 .. Len(fs) : IsFrame(fs[i])
    /\ fs[1].kind = "project"

LEMMA StackFacts ==
    ASSUME NEW fs, IsStack(fs)
    PROVE  /\ Len(fs) \in Nat
           /\ \A x : /\ Len(Append(fs, x)) = Len(fs) + 1
                     /\ Append(fs, x)[Len(fs) + 1] = x
                     /\ \A i \in 1 .. Len(fs) : Append(fs, x)[i] = fs[i]
           /\ Len(fs) > 0 => /\ Len(Front(fs)) = Len(fs) - 1
                             /\ \A i \in 1 .. Len(fs) - 1 : Front(fs)[i] = fs[i]
  <1>1. PICK S : fs \in Seq(S)
    BY DEF IsStack
  <1>2. ASSUME NEW x
        PROVE  /\ Len(Append(fs, x)) = Len(fs) + 1
               /\ Append(fs, x)[Len(fs) + 1] = x
               /\ \A i \in 1 .. Len(fs) : Append(fs, x)[i] = fs[i]
    BY <1>1
  <1>3. ASSUME Len(fs) > 0
        PROVE  /\ Len(Front(fs)) = Len(fs) - 1
               /\ \A i \in 1 .. Len(fs) - 1 : Front(fs)[i] = fs[i]
    <2>1. Len(fs) \in Nat /\ fs # << >> /\ \A i \in 1 .. Len(fs) - 1 : fs[i] \in S
      BY <1>1, <1>3
    <2>2. Len(Front(fs)) = Len(fs) - 1
      BY <2>1, OpenFacts
    <2>3. \A i \in 1 .. (Len(fs) - 1) - 1 + 1 : SubSeq(fs, 1, Len(fs) - 1)[i] = fs[1 + i - 1]
      BY <2>1, SubSeqProperties
    <2>4. \A n \in Nat : (n - 1) - 1 + 1 = n - 1 /\ 1 + n - 1 = n
      OBVIOUS
    <2>5. QED
      BY <2>1, <2>2, <2>3, <2>4 DEF Front
  <1>4. QED
    BY <1>1, <1>2, <1>3

LEMMA LoopEntered ==
    ASSUME NEW fs, InLoops(fs), NEW f, IsFrame(f)
    PROVE  InLoops(Append(fs, f)) /\ Len(Append(fs, f)) = Len(fs) + 1
  <1>1. IsStack(Append(fs, f)) /\ Len(Append(fs, f)) = Len(fs) + 1 /\ Len(fs) \in Nat /\ Len(fs) > 0
    BY OpenFacts DEF InLoops
  <1>2. /\ Append(fs, f)[Len(fs) + 1] = f
        /\ \A i \in 1 .. Len(fs) : Append(fs, f)[i] = fs[i]
    BY StackFacts DEF InLoops
  <1>3. \A i \in 1 .. Len(fs) + 1 : i \in 1 .. Len(fs) \/ i = Len(fs) + 1
    BY <1>1
  <1>4. \A i \in 1 .. Len(fs) + 1 : IsFrame(Append(fs, f)[i])
    BY <1>2, <1>3 DEF InLoops
  <1>5. Append(fs, f)[1].kind = "project"
    <2>1. 1 \in 1 .. Len(fs)
      BY <1>1
    <2>2. QED
      BY <1>2, <2>1 DEF InLoops
  <1>6. Len(fs) + 1 > 0
    BY <1>1
  <1>7. QED
    BY <1>1, <1>4, <1>5, <1>6 DEF InLoops

LEMMA LoopLeft ==
    ASSUME NEW fs, InLoops(fs), Last(fs).kind # "project"
    PROVE  InLoops(Front(fs)) /\ Len(Front(fs)) = Len(fs) - 1 /\ Len(Front(fs)) < Len(fs)
  <1>1. Len(fs) \in Nat /\ Len(fs) > 0 /\ fs # << >>
    <2>1. Len(fs) \in Nat /\ Len(fs) > 0
      BY StackFacts DEF InLoops
    <2>2. QED
      BY <2>1
  <1>2. Len(fs) # 1
    BY DEF Last, InLoops
  <1>3. IsStack(Front(fs)) /\ Len(Front(fs)) = Len(fs) - 1
    BY <1>1, OpenFacts DEF InLoops
  <1>4. \A i \in 1 .. Len(fs) - 1 : Front(fs)[i] = fs[i] /\ i \in 1 .. Len(fs)
    BY <1>1, StackFacts DEF InLoops
  <1>5. 1 \in 1 .. Len(fs) - 1 /\ Len(fs) - 1 > 0 /\ Len(fs) - 1 < Len(fs)
    <2>1. \A n \in Nat : n > 0 /\ n # 1 => 1 \in 1 .. n - 1 /\ n - 1 > 0 /\ n - 1 < n
      OBVIOUS
    <2>2. QED
      BY <1>1, <1>2, <2>1
  <1>6. QED
    BY <1>3, <1>4, <1>5 DEF InLoops

\* The loop on top records something.
LEMMA LoopChanged ==
    ASSUME NEW fs, InLoops(fs), NEW f, IsFrame(f), f.kind = Last(fs).kind
    PROVE  InLoops(Append(Front(fs), f)) /\ Len(Append(Front(fs), f)) = Len(fs)
  <1> DEFINE g == Front(fs)
             h == Append(g, f)
  <1>1. Len(fs) \in Nat /\ Len(fs) > 0 /\ fs # << >>
    <2>1. Len(fs) \in Nat /\ Len(fs) > 0
      BY StackFacts DEF InLoops
    <2>2. QED
      BY <2>1
  <1>2. IsStack(g) /\ Len(g) = Len(fs) - 1
    BY <1>1, OpenFacts DEF InLoops
  <1>3. \A i \in 1 .. Len(fs) - 1 : g[i] = fs[i] /\ i \in 1 .. Len(fs)
    BY <1>1, StackFacts DEF InLoops
  <1> HIDE DEF g
  <1>4. IsStack(h) /\ Len(h) = Len(g) + 1
    BY <1>2, OpenFacts
  <1>5. h[Len(g) + 1] = f /\ \A i \in 1 .. Len(g) : h[i] = g[i]
    BY <1>2, StackFacts
  <1> HIDE DEF h
  <1>6. Len(h) = Len(fs) /\ h[Len(fs)] = f /\ \A i \in 1 .. Len(fs) - 1 : h[i] = fs[i]
    BY <1>1, <1>2, <1>3, <1>4, <1>5
  <1>7. \A i \in 1 .. Len(fs) : i \in 1 .. Len(fs) - 1 \/ i = Len(fs)
    BY <1>1
  <1>8. \A i \in 1 .. Len(fs) : IsFrame(h[i])
    BY <1>3, <1>6, <1>7 DEF InLoops
  <1>9. h[1].kind = "project"
    <2>1. CASE Len(fs) = 1
      BY <1>6, <2>1 DEF Last, InLoops
    <2>2. CASE Len(fs) # 1
      <3>1. 1 \in 1 .. Len(fs) - 1
        <4>1. \A n \in Nat : n > 0 /\ n # 1 => 1 \in 1 .. n - 1 /\ n - 1 > 0 /\ n - 1 < n
          OBVIOUS
        <4>2. QED
          BY <1>1, <2>2, <4>1
      <3>2. QED
        BY <1>6, <3>1 DEF InLoops
    <2>3. QED
      BY <2>1, <2>2
  <1>10. QED
    BY <1>1, <1>4, <1>6, <1>8, <1>9 DEF InLoops, g, h

LEMMA TopFacts ==
    ASSUME InLoops(frames)
    PROVE  /\ IsFrame(Top)
           /\ \A x : IsFrame([Top EXCEPT !.stage = x]) /\ [Top EXCEPT !.stage = x].kind = Top.kind
           /\ \A x : IsFrame([Top EXCEPT !.group = x]) /\ [Top EXCEPT !.group = x].kind = Top.kind
           /\ \A kind : /\ IsFrame(Frame(kind)) /\ Frame(kind).kind = kind
                        /\ \A x : IsFrame([Frame(kind) EXCEPT !.group = x])
  <1>1. IsFrame(Top)
    <2>1. Len(frames) \in Nat /\ Len(frames) > 0
      BY StackFacts DEF InLoops
    <2>2. Len(frames) \in 1 .. Len(frames)
      BY <2>1
    <2>3. QED
      BY <2>2 DEF InLoops, Top, Last
  <1>2. QED
    BY <1>1 DEF IsFrame, Frame

(***************************************************************************)
(* The parser.                                                             *)
(***************************************************************************)
ParserInv ==
    /\ feed \in Feeds
    /\ status = "opened" => reader.pos = 0 /\ frames = << >>
    /\ status = "parsing" => IsReader(Tokens, reader) /\ ~reader.error /\ InLoops(frames)
    /\ PositionKept

\* What a step keeps, and how far it gets.
ReadsOn == status' = "parsing" => Unread' < Unread
Turned == ParserInv' /\ ReadsOn

LEMMA FeedsAreFiles == ASSUME feed \in Feeds PROVE IsFile(Tokens)
  <1>1. /\ feed.tokens \in Seq(ToSet(feed.tokens))
        /\ \A i \in DOMAIN feed.tokens : TokenShape(feed.tokens[i])
    BY FeedAssumption
  <1>2. QED
    BY <1>1 DEF IsFile, IsSequence, TokenShape, Tokens

\* Less is left behind a token that begins a loop, and at the end of a loop.
LEMMA LessUnread ==
    ASSUME feed' = feed, IsFile(Tokens), reader.pos \in Nat, reader'.pos \in Nat,
           Len(frames) \in Nat, Len(frames') \in Nat,
           \/ reader'.pos > reader.pos /\ Len(frames') <= Len(frames) + 1
           \/ reader'.pos >= reader.pos /\ Len(frames') < Len(frames)
    PROVE  Unread' < Unread
  <1>1. Len(Tokens) \in Nat /\ Tokens' = Tokens
    BY DEF IsFile, IsSequence, Tokens
  <1>2. \A t, p, q, m, n \in Nat :
           (q > p /\ n <= m + 1) \/ (q >= p /\ n < m) => 2 * (t - q) + n < 2 * (t - p) + m
    OBVIOUS
  <1>3. 2 * (Len(Tokens) - reader'.pos) + Len(frames') < 2 * (Len(Tokens) - reader.pos) + Len(frames)
    BY <1>1, <1>2
  <1>4. QED
    BY <1>1, <1>3 DEF Unread

LEMMA PositionIsDepth ==
    PositionKept <=> ((status = "parsing" /\ Separated(Tokens) /\ reader.pos < Len(Tokens))
                         => Len(frames) = Depth(reader))
  BY DEF PositionKept, Depth

\* A loop that goes through an element has read it.
ElementRead(r) ==
    /\ status = "parsing" /\ IsReader(Tokens, r) /\ ~r.error
    /\ r.pos > reader.pos /\ r.token = "element"
    /\ Separated(Tokens) => Depth(r) = Len(frames) + 1

LEMMA MeetsElement ==
    ASSUME ParserInv, NEW kinds, NEW r \in Meets(kinds)
    PROVE  ElementRead(r) /\ Top.kind \in kinds
  <1>1. /\ status = "parsing" /\ Top.kind \in kinds /\ r = Upcoming
        /\ ~r.error /\ r.more
    BY DEF Meets, Looking
  <1>2. IsFile(Tokens) /\ IsReader(Tokens, reader) /\ ~reader.error
    BY <1>1, FeedsAreFiles DEF ParserInv
  <1>3. FoundElement(reader, r)
    <2>1. CASE Top.kind = "project"
      BY <1>1, <1>2, <2>1, NextElementDoes DEF Upcoming
    <2>2. CASE Top.kind # "project"
      BY <1>1, <1>2, <2>2, StartElementDoes, ElementStarted DEF Upcoming
    <2>3. QED
      BY <2>1, <2>2
  <1>4. /\ IsReader(Tokens, r) /\ r.pos > reader.pos /\ r.token = "element"
        /\ Separated(Tokens) => Depth(r) = Depth(reader) + 1
    BY <1>1, <1>3 DEF FoundElement
  <1>5. reader.pos < Len(Tokens)
    BY <1>2, <1>4 DEF IsReader, IsFile, IsSequence
  <1>6. Separated(Tokens) => Len(frames) = Depth(reader)
    BY <1>1, <1>5, PositionIsDepth DEF ParserInv
  <1>7. QED
    BY <1>1, <1>4, <1>6 DEF ElementRead

\* What is refused is read no further.
LEMMA Refused == ASSUME NEW r PROVE Refusal(r) \notin {"opened", "parsing"}
  BY DEF Refusal

LEMMA Ending ==
    ASSUME ParserInv, feed' = feed, status' \notin {"opened", "parsing"}
    PROVE  Turned
  BY DEF Turned, ReadsOn, ParserInv, PositionKept

\* A loop over the element is begun.
LEMMA GoesIn ==
    ASSUME ParserInv, feed' = feed, NEW r, ElementRead(r), Proceed(r),
           InLoops(frames'), Len(frames') = Len(frames) + 1
    PROVE  Turned
  <1>1. reader' = r /\ status' = "parsing" /\ Tokens' = Tokens
    BY DEF Proceed, ElementRead, Tokens
  <1>2. Separated(Tokens) => Len(frames') = Depth(reader')
    BY <1>1 DEF ElementRead
  <1>3. PositionKept'
    BY <1>1, <1>2 DEF PositionKept, Depth
  <1>4. ReadsOn
    <2>1. IsFile(Tokens) /\ reader.pos \in Nat /\ reader'.pos \in Nat /\ reader'.pos > reader.pos
      BY <1>1, FeedsAreFiles DEF ParserInv, ElementRead, IsReader
    <2>2. Len(frames) \in Nat
      BY StackFacts DEF ParserInv, ElementRead, InLoops
    <2>3. Len(frames') \in Nat /\ Len(frames') <= Len(frames) + 1
      BY <2>2
    <2>4. QED
      BY <2>1, <2>2, <2>3, LessUnread DEF ReadsOn
  <1>5. QED
    BY <1>1, <1>3, <1>4 DEF Turned, ParserInv, ElementRead

\* The element is skipped.
LEMMA SkipsElement ==
    ASSUME ParserInv, feed' = feed, NEW r, ElementRead(r), SkipOn(r),
           InLoops(frames'), Len(frames') = Len(frames)
    PROVE  Turned
  <1> DEFINE s == Skip(Tokens, r)
  <1>1. reader' = s /\ status' = (IF s.error THEN Refusal(s) ELSE "parsing") /\ Tokens' = Tokens
    BY DEF SkipOn, Proceed, Tokens
  <1>2. Skipped(Tokens, r, s)
    BY FeedsAreFiles, SkipDoes DEF ElementRead, ParserInv
  <1> HIDE DEF s
  <1>3. CASE s.error
    BY <1>1, <1>3, Refused, Ending
  <1>4. CASE ~s.error
    <2>1. status' = "parsing" /\ reader' = s
      BY <1>1, <1>4
    <2>2. IsReader(Tokens, s) /\ s.pos >= r.pos
      BY <1>2 DEF Skipped
    <2>3. reader.pos \in Nat /\ r.pos \in Nat /\ s.pos \in Nat /\ r.pos > reader.pos
      BY <2>2 DEF ParserInv, ElementRead, IsReader
    <2>4. s.pos > reader.pos
      BY <2>2, <2>3
    <2>5. ASSUME Separated(Tokens), s.pos < Len(Tokens) PROVE Len(frames') = Depth(s)
      <3>1. Depth(s) = Depth(r) - 1 /\ Depth(r) = Len(frames) + 1
        BY <1>2, <1>4, <2>5 DEF Skipped, ElementRead
      <3>2. Len(frames) \in Nat
        BY StackFacts DEF ParserInv, ElementRead, InLoops
      <3>3. QED
        BY <3>1, <3>2
    <2>6. PositionKept'
      BY <1>1, <2>1, <2>5 DEF PositionKept, Depth
    <2>7. ReadsOn
      <3>1. Len(frames) \in Nat
        BY StackFacts DEF ParserInv, ElementRead, InLoops
      <3>2. Len(frames') \in Nat /\ Len(frames') <= Len(frames) + 1
        BY <3>1
      <3>3. IsFile(Tokens) /\ reader'.pos \in Nat /\ reader'.pos > reader.pos
        BY <2>1, <2>3, <2>4, FeedsAreFiles DEF ParserInv
      <3>4. QED
        BY <2>3, <3>1, <3>2, <3>3, LessUnread DEF ReadsOn
    <2>8. QED
      BY <1>1, <1>4, <2>1, <2>2, <2>6, <2>7 DEF Turned, ParserInv
  <1>5. QED
    BY <1>3, <1>4

\* The loop ends, with its element or with the file.
LEMMA GoesOut ==
    ASSUME ParserInv, feed' = feed, NEW r \in Looking(Frames \ {"project"}), ~r.error, ~r.more,
           SkipOn(r), frames' = Front(frames)
    PROVE  Turned
  <1> DEFINE s == Skip(Tokens, r)
  <1>1. reader' = s /\ status' = (IF s.error THEN Refusal(s) ELSE "parsing") /\ Tokens' = Tokens
    BY DEF SkipOn, Proceed, Tokens
  <1>2. status = "parsing" /\ Top.kind # "project" /\ r = StartElement(Tokens, reader)
    BY DEF Looking, Upcoming, Frames
  <1>3. IsFile(Tokens) /\ IsReader(Tokens, reader) /\ ~reader.error /\ InLoops(frames)
    BY <1>2, FeedsAreFiles DEF ParserInv
  <1>4. Started(Tokens, reader, r)
    BY <1>2, <1>3, StartElementDoes
  <1>5. Skipped(Tokens, r, s)
    BY <1>3, <1>4, SkipDoes DEF Started
  <1> HIDE DEF s
  <1>6. InLoops(frames') /\ Len(frames') = Len(frames) - 1 /\ Len(frames') < Len(frames)
    BY <1>2, <1>3, LoopLeft DEF Top
  <1>7. CASE s.error
    BY <1>1, <1>7, Refused, Ending
  <1>8. CASE ~s.error
    <2>1. status' = "parsing" /\ reader' = s
      BY <1>1, <1>8
    <2>2. /\ IsReader(Tokens, s) /\ s.pos >= r.pos /\ r.pos >= reader.pos
          /\ reader.pos \in Nat /\ r.pos \in Nat /\ s.pos \in Nat /\ Len(Tokens) \in Nat
      BY <1>3, <1>4, <1>5 DEF Skipped, Started, IsReader, IsFile, IsSequence
    <2>3. ASSUME Separated(Tokens), s.pos < Len(Tokens) PROVE Len(frames') = Depth(s)
      <3>1. reader.pos < Len(Tokens) /\ r.pos # Len(Tokens)
        BY <2>2, <2>3
      <3>2. Len(frames) = Depth(reader)
        BY <1>2, <2>3, <3>1, PositionIsDepth DEF ParserInv
      <3>3. CASE r.empty /\ Depth(r) = Depth(reader)
        <4>1. Depth(s) = Depth(r) - 1
          BY <1>5, <1>8, <2>3, <3>3 DEF Skipped
        <4>2. QED
          BY <1>6, <3>2, <3>3, <4>1
      <3>4. CASE Closed(Tokens, r) /\ Depth(r) = Depth(reader) - 1
        <4>1. Depth(s) = Depth(r)
          BY <1>5, <1>8, <2>3, <3>4 DEF Skipped
        <4>2. QED
          BY <1>6, <3>2, <3>4, <4>1
      <3>5. QED
        BY <1>4, <3>1, <3>3, <3>4 DEF Started
    <2>4. PositionKept'
      BY <1>1, <2>1, <2>3 DEF PositionKept, Depth
    <2>5. ReadsOn
      <3>1. Len(frames) \in Nat /\ Len(frames') \in Nat
        BY <1>3, <1>6, StackFacts DEF InLoops
      <3>2. reader'.pos \in Nat /\ reader'.pos >= reader.pos
        BY <2>1, <2>2
      <3>3. QED
        BY <1>3, <1>6, <2>2, <3>1, <3>2, LessUnread DEF ReadsOn
    <2>6. QED
      BY <1>1, <1>6, <1>8, <2>1, <2>2, <2>4, <2>5 DEF Turned, ParserInv
  <1>9. QED
    BY <1>7, <1>8

\* After the attempt to add something the element is skipped, or parsing has ended.
LEMMA AddedAndSkipped ==
    ASSUME NEW added, NEW r, Afterwards(added, r)
    PROVE  SkipOn(r) \/ status' \notin {"opened", "parsing"}
  BY DEF Afterwards

(***************************************************************************)
(* The actions.                                                            *)
(***************************************************************************)
LEMMA TurnedOpen ==
    ASSUME ParserInv, Open
    PROVE  Turned
  <1> DEFINE r == StartElement(Tokens, NewReader)
  <1>1. status = "opened" /\ feed' = feed /\ reader.pos = 0 /\ frames = << >> /\ IsFile(Tokens)
    BY FeedsAreFiles DEF Open, ParserInv
  <1>2. CASE r.error \/ ~r.more \/ ~Named(r, "project") \/ ~Has(r, {"href", "name"})
    BY <1>1, <1>2, Refused, Ending DEF Open, Fail
  <1>3. CASE ~(r.error \/ ~r.more \/ ~Named(r, "project") \/ ~Has(r, {"href", "name"}))
    <2>1. Proceed(r) /\ frames' = << Frame("project") >> /\ ~r.error /\ r.more
      BY <1>3 DEF Open
    <2>2. IsReader(Tokens, NewReader) /\ ~NewReader.error /\ NewReader.pos = 0
          /\ NewReader.empty = FALSE /\ NewReader.open = << >>
      <3>1. IsStack(<< >>)
        BY DEF IsStack
      <3>2. QED
        BY <1>1, <3>1 DEF NewReader, IsReader, IsFile, IsSequence
    <2>3. Started(Tokens, NewReader, r)
      BY <1>1, <2>2, StartElementDoes
    <2> HIDE DEF r
    <2>4. reader' = r /\ status' = "parsing" /\ Tokens' = Tokens
      BY <1>1, <2>1 DEF Proceed, Tokens
    <2>5. IsReader(Tokens, r) /\ r.pos > 0 /\ Depth(r) = 1
      <3>1. Depth(NewReader) = 0
        BY <2>2, DepthFacts
      <3>2. QED
        BY <2>1, <2>2, <2>3, <3>1 DEF Started, AtStart
    <2>6. InLoops(frames') /\ Len(frames') = 1
      <3>1. IsStack(<< Frame("project") >>) /\ IsFrame(Frame("project")) /\ Frame("project").kind = "project"
        <4>1. << Frame("project") >> \in Seq({Frame("project")})
          OBVIOUS
        <4>2. QED
          BY <4>1 DEF IsStack, IsFrame, Frame
      <3> DEFINE first == Frame("project")
      <3> HIDE DEF first
      <3>2. Len(<< first >>) = 1 /\ << first >>[1] = first /\ \A i \in 1 .. 1 : i = 1
        OBVIOUS
      <3>3. InLoops(<< first >>)
        BY <3>1, <3>2 DEF InLoops, first
      <3>4. QED
        BY <2>1, <3>2, <3>3 DEF first
    <2>7. PositionKept'
      BY <2>4, <2>5, <2>6 DEF PositionKept, Depth
    <2>8. ReadsOn
      <3>1. Len(frames) = 0 /\ Len(frames') \in Nat /\ reader.pos \in Nat
        BY <1>1, <2>6
      <3>2. reader'.pos \in Nat /\ reader'.pos > reader.pos
        BY <1>1, <2>4, <2>5 DEF IsReader
      <3>3. QED
        BY <1>1, <2>6, <3>1, <3>2, LessUnread DEF ReadsOn
    <2>9. QED
      BY <1>1, <2>1, <2>4, <2>5, <2>6, <2>7, <2>8 DEF Turned, ParserInv
  <1>4. QED
    BY <1>2, <1>3

LEMMA TurnedSection ==
    ASSUME ParserInv, Section
    PROVE  Turned
  <1> DEFINE Here(r) == Append(Front(frames), [Top EXCEPT !.stage = Stage(r.name.local)])
  <1>1. PICK r \in Meets({"project"}) :
           /\ IF r.name.local = "meta" THEN SkipOn(r) /\ frames' = Here(r)
              ELSE /\ Proceed(r)
                   /\ frames' = Append(Here(r),
                        IF r.name.local = "build"
                        THEN [Frame("build") EXCEPT !.group = WithDriver(@, Value(r, "vcs"))]
                        ELSE Frame(r.name.local))
           /\ feed' = feed
    BY DEF Section
  <1>2. ElementRead(r) /\ InLoops(frames)
    BY MeetsElement DEF ElementRead, ParserInv
  <1>3. InLoops(Here(r)) /\ Len(Here(r)) = Len(frames)
    BY <1>2, TopFacts, LoopChanged DEF Top
  <1> HIDE DEF Here
  <1>4. CASE r.name.local = "meta"
    BY <1>1, <1>2, <1>3, <1>4, SkipsElement
  <1>5. CASE r.name.local # "meta"
    <2>1. PICK f : IsFrame(f) /\ frames' = Append(Here(r), f) /\ Proceed(r)
      <3>1. CASE r.name.local = "build"
        <4>1. frames' = Append(Here(r), [Frame("build") EXCEPT !.group = WithDriver(@, Value(r, "vcs"))])
          BY <1>1, <1>5, <3>1
        <4>2. QED
          BY <1>1, <1>2, <1>5, <4>1, TopFacts
      <3>2. CASE r.name.local # "build"
        BY <1>1, <1>2, <1>5, <3>2, TopFacts
      <3>3. QED
        BY <3>1, <3>2
    <2>2. InLoops(frames') /\ Len(frames') = Len(frames) + 1
      BY <1>3, <2>1, LoopEntered
    <2>3. QED
      BY <1>1, <1>2, <2>1, <2>2, GoesIn
  <1>6. QED
    BY <1>4, <1>5

LEMMA TurnedVariant ==
    ASSUME ParserInv, Variant
    PROVE  Turned
  <1>1. PICK r \in Meets({"variants"}) : SkipOn(r) /\ feed' = feed /\ frames' = frames
    BY DEF Variant
  <1>2. QED
    BY <1>1, MeetsElement, SkipsElement DEF ElementRead, ParserInv

LEMMA TurnedRelease ==
    ASSUME ParserInv, Release
    PROVE  Turned
  <1>1. PICK r \in Meets({"releases"}) : SkipOn(r) /\ feed' = feed /\ frames' = frames
    BY DEF Release
  <1>2. QED
    BY <1>1, MeetsElement, SkipsElement DEF ElementRead, ParserInv

LEMMA TurnedComponent ==
    ASSUME ParserInv, Component
    PROVE  Turned
  <1>1. PICK r \in Meets({"components"}) :
           /\ feed' = feed
           /\ \/ Proceed(r) /\ frames' = Append(frames, Frame("component"))
              \/ SkipOn(r) /\ frames' = frames
    BY DEF Component
  <1>2. ElementRead(r) /\ InLoops(frames)
    BY MeetsElement DEF ElementRead, ParserInv
  <1>3. CASE Proceed(r) /\ frames' = Append(frames, Frame("component"))
    BY <1>1, <1>2, <1>3, TopFacts, LoopEntered, GoesIn
  <1>4. CASE SkipOn(r) /\ frames' = frames
    BY <1>1, <1>2, <1>4, SkipsElement
  <1>5. QED
    BY <1>1, <1>3, <1>4

LEMMA TurnedBranch ==
    ASSUME ParserInv, Branch
    PROVE  Turned
  <1>1. PICK r \in Meets(DependsFrames) :
           /\ feed' = feed
           /\ \/ status' = "undefined"
              \/ Proceed(r) /\ frames' = Append(frames, Frame("branch"))
    BY DEF Branch, Fail
  <1>2. ElementRead(r) /\ InLoops(frames)
    BY MeetsElement DEF ElementRead, ParserInv
  <1>3. CASE status' = "undefined"
    BY <1>1, <1>3, Ending
  <1>4. CASE Proceed(r) /\ frames' = Append(frames, Frame("branch"))
    BY <1>1, <1>2, <1>4, TopFacts, LoopEntered, GoesIn
  <1>5. QED
    BY <1>1, <1>3, <1>4

LEMMA TurnedDependency ==
    ASSUME ParserInv, Dependency
    PROVE  Turned
  <1>1. PICK r \in Meets(DependsFrames) : SkipOn(r) /\ feed' = feed /\ frames' = frames
    BY DEF Dependency
  <1>2. QED
    BY <1>1, MeetsElement, SkipsElement DEF ElementRead, ParserInv

LEMMA TurnedPackage ==
    ASSUME ParserInv, Package
    PROVE  Turned
  <1> DEFINE Group(r) == PackageFields(Top.group, r)
             Here(r) == Append(Front(frames), [Top EXCEPT !.group = Group(r)])
  <1>1. PICK r \in Meets({"packages"}) :
           /\ feed' = feed
           /\ \/ /\ frames' = Append(Here(r), [Frame("packages") EXCEPT !.group = Group(r)])
                 /\ Proceed(r)
              \/ frames' = Here(r) /\ Afterwards(AddPackage(Group(r)), r)
              \/ SkipOn(r) /\ frames' = frames
    BY DEF Package
  <1>2. ElementRead(r) /\ InLoops(frames)
    BY MeetsElement DEF ElementRead, ParserInv
  <1> HIDE DEF Group
  <1>3. InLoops(Here(r)) /\ Len(Here(r)) = Len(frames)
    BY <1>2, TopFacts, LoopChanged DEF Top
  <1>4. IsFrame([Frame("packages") EXCEPT !.group = Group(r)])
    BY <1>2, TopFacts
  <1> HIDE DEF Here
  <1>5. CASE /\ frames' = Append(Here(r), [Frame("packages") EXCEPT !.group = Group(r)])
             /\ Proceed(r)
    <2>1. InLoops(frames') /\ Len(frames') = Len(frames) + 1
      BY <1>3, <1>4, <1>5, LoopEntered
    <2>2. QED
      BY <1>1, <1>2, <1>5, <2>1, GoesIn
  <1>6. CASE frames' = Here(r) /\ Afterwards(AddPackage(Group(r)), r)
    <2>1. CASE SkipOn(r)
      BY <1>1, <1>2, <1>3, <1>6, <2>1, SkipsElement
    <2>2. CASE status' \notin {"opened", "parsing"}
      BY <1>1, <2>2, Ending
    <2>3. QED
      BY <1>6, <2>1, <2>2, AddedAndSkipped
  <1>7. CASE SkipOn(r) /\ frames' = frames
    BY <1>1, <1>2, <1>7, SkipsElement
  <1>8. QED
    BY <1>1, <1>5, <1>6, <1>7

LEMMA TurnedLeave ==
    ASSUME ParserInv, Leave
    PROVE  Turned
  <1>1. PICK r \in Looking(Frames \ {"project"}) :
           /\ ~r.error /\ ~r.more /\ feed' = feed /\ frames' = Front(frames)
           /\ Afterwards(AddSources, r) \/ SkipOn(r)
    BY DEF Leave
  <1>2. CASE SkipOn(r)
    BY <1>1, <1>2, GoesOut
  <1>3. CASE status' \notin {"opened", "parsing"}
    BY <1>1, <1>3, Ending
  <1>4. QED
    BY <1>1, <1>2, <1>3, AddedAndSkipped

LEMMA ParserNext ==
    ASSUME ParserInv, [Next]_parserVars
    PROVE  ParserInv' /\ (UNCHANGED parserVars \/ ReadsOn)
  <1>1. CASE Open
    BY <1>1, TurnedOpen DEF Turned
  <1>2. CASE Throw
    BY <1>2, Refused, Ending DEF Throw, Fail, Turned
  <1>3. CASE Section
    BY <1>3, TurnedSection DEF Turned
  <1>4. CASE Finish
    BY <1>4, Ending DEF Finish, Turned
  <1>5. CASE Variant
    BY <1>5, TurnedVariant DEF Turned
  <1>6. CASE Release
    BY <1>6, TurnedRelease DEF Turned
  <1>7. CASE Component
    BY <1>7, TurnedComponent DEF Turned
  <1>8. CASE Branch
    BY <1>8, TurnedBranch DEF Turned
  <1>9. CASE Dependency
    BY <1>9, TurnedDependency DEF Turned
  <1>10. CASE Package
    BY <1>10, TurnedPackage DEF Turned
  <1>11. CASE Leave
    BY <1>11, TurnedLeave DEF Turned
  <1>12. CASE UNCHANGED parserVars
    BY <1>12 DEF parserVars, ParserInv, PositionKept, Tokens
  <1>13. QED
    BY <1>1, <1>2, <1>3, <1>4, <1>5, <1>6, <1>7, <1>8, <1>9, <1>10, <1>11, <1>12 DEF Next

LEMMA ParserInit == ASSUME Init PROVE ParserInv
  BY DEF Init, ParserInv, PositionKept, NewReader

(***************************************************************************)
(* Theorems.                                                               *)
(***************************************************************************)
\* If no tag follows an end tag at once, the parser, while it reads, is in as many loops as
\* there are elements it has entered: what is read next belongs to the loop that reads it
\* (xml_reader.cpp:178-215, feed_parser.cpp:23-350).
THEOREM PlaceKept == Spec => []PositionKept
  <1>1. Init => ParserInv
    BY ParserInit
  <1>2. ParserInv /\ [Next]_parserVars => ParserInv'
    BY ParserNext
  <1>3. ParserInv => PositionKept
    BY DEF ParserInv
  <1>4. QED
    BY <1>1, <1>2, <1>3, PTL DEF Spec

\* Every turn of a loop takes a token and begins at most one loop, or ends a loop: what is
\* left becomes less with every turn, of a file with mistakes too (feed_parser.cpp:29-38,
\* 107-115, 119-128, 170-178, 183-215, 220-235).  The premise is that of FeedAssumption: a
\* comment that does not end, or a quoted value, is the last of the file.  At it the scanner
\* leaves its buffer (xml_re2c.in.hpp:82, 119-132); the parser is then "undefined", which is
\* no turn, and of what it does from there nothing is said.
THEOREM ReadingEnds == Spec => EveryTurnReadsOn
  <1>1. Init => ParserInv
    BY ParserInit
  <1>2. ParserInv /\ [Next]_parserVars => ParserInv'
    BY ParserNext
  <1>3. ParserInv /\ [Next]_parserVars =>
           [status' = "parsing" => Unread' < Unread]_parserVars
    BY ParserNext DEF ReadsOn
  <1>4. QED
    BY <1>1, <1>2, <1>3, PTL DEF Spec, EveryTurnReadsOn
=============================================================================
