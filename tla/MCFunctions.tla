---------------------------- MODULE MCFunctions ----------------------------
(***************************************************************************)
(* The pure algorithms on all small inputs: the sort of a selection, the   *)
(* query language, the comparison of versions, addresses.                  *)
(* What each of them ought to return is defined a second time, without     *)
(* stacks or cursors.  Beside them, the hash tables of MCLookup at work.   *)
(***************************************************************************)
EXTENDS TopoSort, Query, VerCmp, Url, MCLookup

CONSTANTS
    Size,      \* bound: the number of vertices of a graph
    Length     \* bound: the number of tokens of a test, and of characters of a version

VARIABLES
    subject,   \* the input, with its kind
    outcome    \* what came of it: nothing yet, or one result

Subject(kind, of) == [kind |-> kind, of |-> of]
Pending == outcome = << >>
Done(kind) == subject.kind = kind /\ ~Pending
Result == outcome[1]

MCDigits == << "0", "1" >>
MCLetters == << "a", "b", "l", "o", "v" >>

(***************************************************************************)
(* Graphs.                                                                 *)
(***************************************************************************)
Vertices == 1 .. Size
GraphOf(succ) ==
    [v \in Vertices |-> SelectSeq([w \in Vertices |-> w], LAMBDA w : w \in succ[v])]

Sort ==
    /\ subject.kind = "graph" /\ Pending
    /\ outcome' = << DepthFirst(subject.of) >>
    /\ UNCHANGED subject

\* A search that meets no cycle finishes every vertex once, and after the list is
\* turned round every provider precedes the entries that depend on it (graph.cpp:44-48).
EdgesRespected ==
    (Done("graph") /\ ~Result.cyclic) =>
        LET order == Reverse(Result.finished)
            Before(v, w) == \E i, j \in DOMAIN order : i < j /\ order[i] = v /\ order[j] = w
        IN /\ Len(order) = Size /\ ToSet(order) = Vertices
           /\ \A v \in Vertices : \A w \in ToSet(subject.of[v]) : Before(v, w)

\* The search reports a cycle exactly when some set of vertices never leaves itself:
\* not_a_dag is neither missed nor thrown for a mere diamond.
CyclesReported ==
    Done("graph") =>
        (Result.cyclic <=>
            \E C \in SUBSET Vertices : C # {} /\ \A v \in C : ToSet(subject.of[v]) \cap C # {})

(***************************************************************************)
(* Tests, as trees and as tokens.  Both compare the version "1" and a      *)
(* variant of one variable.                                                *)
(***************************************************************************)
MCVersion == "1"
MCVariant == [os |-> "linux"]
Spelling == [version |-> << "v" >>, os |-> << "o" >>, linux |-> << "l" >>]
            @@ ("" :> << >>) @@ ("*" :> << "*" >>) @@ ("1" :> << "1" >>) @@ ("10" :> << "1", "0" >>)
MCCompare(a, b) == VerCmp(Spelling[a], Spelling[b])

Word(w) == [op |-> "word", word |-> w]
Test(op, a, b) == [op |-> op, left |-> a, right |-> b]
Tests(ops, lefts, rights) == {Test(op, a, b) : op \in ops, a \in lefts, b \in rights}

\* One operator of every level.
Levels == {"<", "==", "&&", "||"}
Words == {Word(w) : w \in {"version", "os", "linux", "10", "*"}}
Flat == Words \cup Tests(Levels, Words, Words)
FewWords == {Word("os"), Word("linux")}
FewFlat == FewWords \cup Tests(Levels, FewWords, FewWords)
FewDeep == Tests(Levels, FewFlat, FewFlat)
\* The levels of the grammar: relations bind closest.
Binding(op) ==
    CASE op \in {"<", "<=", ">", ">="} -> 3
      [] op \in {"==", "!="} -> 2
      [] op = "&&" -> 1
      [] op = "||" -> 0
      [] OTHER -> 4

\* With parentheses only where they are needed, operators of a level going to the left.
RECURSIVE Written(_)
Written(t) ==
    LET within(s, needed) == IF needed THEN << "(" >> \o Written(s) \o << ")" >> ELSE Written(s)
    IN IF t.op = "word" THEN << t.word >>
       ELSE within(t.left, Binding(t.left.op) < Binding(t.op)) \o << t.op >>
            \o within(t.right, Binding(t.right.op) <= Binding(t.op))

RECURSIVE Meaning(_)
Meaning(t) ==
    IF t.op = "word" THEN t.word
    ELSE LET a == Meaning(t.left)
             b == Meaning(t.right)
             left == LeftOperand(a, MCVersion, MCVariant)
         IN IF "throws" \in {a, b} \/ left = "unknown" THEN "throws" ELSE Truth(Apply(t.op, left, b))

Translated(tokens) ==
    LET s == Translate(tokens) IN [of |-> s, value |-> Evaluation(s.out, MCVersion, MCVariant),
                                   answer |-> Evaluate(s.out, MCVersion, MCVariant)]

Ask ==
    /\ subject.kind \in {"test", "tokens"} /\ Pending
    /\ outcome' = << Translated(IF subject.kind = "test" THEN Written(subject.of) ELSE subject.of) >>
    /\ UNCHANGED subject

\* A test means what its tree means: relations before equations before && before ||,
\* to the left on a level, parentheses first; it throws if any part of it does, also
\* one that cannot matter any more (query.cpp:99-272).
QueryMeaning ==
    Done("test") =>
        LET meaning == Meaning(subject.of) IN
        /\ ~Result.of.error
        /\ Result.answer = CASE meaning = "throws" -> "throws"
                              [] meaning = False -> "false"
                              [] OTHER -> "true"

TokensOf(n) == UNION {[1 .. k -> Levels \cup Parentheses \cup {"os"}] : k \in 0 .. n}
Opened(tokens, n) ==
    Cardinality({i \in 1 .. n : tokens[i] = "("}) - Cardinality({i \in 1 .. n : tokens[i] = ")"})
Balanced(tokens) ==
    /\ \A n \in 0 .. Len(tokens) : Opened(tokens, n) >= 0
    /\ Opened(tokens, Len(tokens)) = 0
Nesting(tokens) == Max({Opened(tokens, n) : n \in 0 .. Len(tokens)})

\* Whatever stands in a test, the operator stack holds at most four operators for every
\* level of parentheses, so that the 32 entries of query.cpp:109 are enough for five
\* levels; in a test that is one, the value stack holds at most one value more than
\* the operator stack held (query.cpp:205); and parentheses are refused exactly if they
\* do not match.
StacksBounded ==
    /\ Done("tokens") =>
         /\ Result.of.error <=> ~Balanced(subject.of)
         /\ Result.of.deepest <= 4 + 5 * Nesting(subject.of)
    /\ Done("test") => Result.value.highest <= Result.of.deepest + 1

(***************************************************************************)
(* Versions.                                                               *)
(***************************************************************************)
Strings(characters, n) == UNION {[1 .. k -> characters] : k \in 0 .. n}
Versions == Strings({"0", "1", "a", "."}, Length - 2) \cup Strings({"1", "a", "b"}, Length - 2)
            \cup Strings({"0", "1", "."}, Length - 1)

CompareAll ==
    /\ subject.kind = "version" /\ Pending
    /\ outcome' = << [w \in Versions |-> VerCmp(subject.of, w)] >>
    /\ UNCHANGED subject

\* A version as a number.  Its parts are the runs of digits and of letters; the end of a
\* version comes before any word, a word before any number; what is left behind the last
\* part counts if all parts are equal.
SameKind(c, d) == \A kind \in {Digit, Alpha} : (c \in kind) = (d \in kind)
Parts(v) ==
    LET starts == {i \in DOMAIN v : v[i] \in Alnum /\ (i > 1 => ~SameKind(v[i - 1], v[i]))}
        ends(i) == Max({j \in i .. Len(v) : \A k \in i .. j : SameKind(v[i], v[k])})
    IN [n \in 1 .. Cardinality(starts) |->
          LET i == CHOOSE j \in starts : Cardinality({k \in starts : k <= j}) = n
          IN SubSeq(v, i, ends(i))]
Padded(part) == [i \in 1 .. 4 |-> IF i <= Len(part) THEN Rank(part[i]) - 2 ELSE 0]
PartKey(part) ==
    IF part[1] \in Digit THEN 82 + FoldLeft(LAMBDA n, c : 2 * n + (IF c = "1" THEN 1 ELSE 0), 0, part)
    ELSE FoldLeft(LAMBDA n, r : 3 * n + r, 0, Padded(part))
Key(v) ==
    LET parts == Parts(v)
        keys == [i \in 1 .. 4 |-> IF i <= Len(parts) THEN PartKey(parts[i]) ELSE 0]
        trailing == IF v # << >> /\ v[Len(v)] \notin Alnum THEN 1 ELSE 0
    IN 2 * FoldLeft(LAMBDA n, k : 100 * n + k, 0, keys) + trailing
Keys == [v \in Versions |-> Key(v)]

\* vercmp orders versions like their keys.  So it is a strict weak order, as std::sort
\* of solve.cpp:59-81 demands, numbers count as numbers however many zeros they begin
\* with, and words alphabetically (vercmp.cpp:16-93).
VersionsOrdered ==
    Done("version") => \A w \in Versions : Result[w] = Sign(Keys[subject.of] - Keys[w])

(***************************************************************************)
(* Addresses.  Both the base and the reference are given in parts.         *)
(***************************************************************************)
Joined(segments) == FoldLeft(LAMBDA s, segment : s \o << "/" >> \o segment, << >>, segments)
Segment == {<< >>, << "a" >>, << "b", "a" >>}
Bases == [scheme : {<< "s" >>}, host : {<< "h" >>, << "h", ":", "1" >>},
          path : UNION {[1 .. n -> Segment] : n \in 0 .. 3}]
Address(b) == b.scheme \o SchemeMark \o b.host \o Joined(b.path)

\* A path of a reference; one that is relative does not begin with a slash.
Paths == {<< << "b" >> >>, << << "b" >>, << "a" >> >>, << << "b" >>, << >> >>,
          << << ".", "." >>, << "b" >> >>}
References ==
    [kind : {"address", "host", "root", "folder", "same"}, path : Paths,
     query : {<< >>, << "o" >>, << "?", "/" >>, << ":", "/", "a" >>, << "s" >> \o SchemeMark},
     component : {<< >>, << "a" >>, << "/", "a", "?" >>, << "a", "#" >>}]

Target(b, r) ==
    CASE r.kind = "address" -> Address([scheme |-> << "t" >>, host |-> << "g" >>, path |-> r.path])
      [] r.kind = "host" -> Address([b EXCEPT !.host = << "g" >>, !.path = r.path])
      [] r.kind = "root" -> Address([b EXCEPT !.path = r.path])
      [] r.kind = "folder" -> Address([b EXCEPT !.path = Front(b.path) \o r.path])
      [] r.kind = "same" -> Address(b)

Hyperlink(r) ==
    LET marked(mark, text) == IF text = << >> THEN << >> ELSE << mark >> \o text
    IN (CASE r.kind = "address" -> << "t" >> \o SchemeMark \o << "g" >> \o Joined(r.path)
          [] r.kind = "host" -> << "/", "/", "g" >> \o Joined(r.path)
          [] r.kind = "root" -> Joined(r.path)
          [] r.kind = "folder" -> Tail(Joined(r.path))
          [] r.kind = "same" -> << >>)
       \o marked("?", r.query) \o marked("#", r.component)

FollowLink ==
    /\ subject.kind = "link" /\ Pending
    /\ outcome' = << SpecOf(ResolveUri(Address(subject.of.base), Hyperlink(subject.of.reference))) >>
    /\ UNCHANGED subject

\* url.cpp:46 takes every reference with a scheme mark for an address, also if the mark
\* belongs to its query or its component.
Unmistakable(r) == r.kind = "address" \/ Find(Hyperlink(r), SchemeMark, 1) = 0

\* A dependency names the feed, the query and the component that its reference means
\* (url.cpp:32-70, spec.hpp:32-51, feed_parser.cpp:204-213): whether it is an address, or
\* begins at the host, at the root, in the folder, or with a mark; with slashes, colons and
\* question marks in the query, and number signs in the component.  There are two premises:
\* a reference that is no address has no scheme mark anywhere, and one that begins in the
\* folder belongs to a feed whose address has a path.  Dot segments mean nothing: that ".."
\* stays in the address like any other segment is what the code does (the TODO at
\* url.cpp:66), not what a reader of the feed may expect.
LinksResolve ==
    Done("link") =>
        LET r == subject.of.reference
            base == subject.of.base
        IN Unmistakable(r) /\ (r.kind = "folder" => base.path # << >>) =>
               Result = [id |-> Target(base, r), query |-> r.query, component |-> r.component]

(***************************************************************************)
(* All of them.                                                            *)
(***************************************************************************)
Inputs ==
    \/ \E succ \in [Vertices -> SUBSET Vertices] : subject = Subject("graph", GraphOf(succ))
    \/ \E t \in Tests(Operators, Words, Words) : subject = Subject("test", t)
    \/ \E op \in Levels, a, b \in Flat : subject = Subject("test", Test(op, a, b))
    \/ \E op \in Levels, a \in FewDeep, b \in FewWords :
          subject \in {Subject("test", Test(op, a, b)), Subject("test", Test(op, b, a))}
    \/ \E ts \in TokensOf(Length) : subject = Subject("tokens", ts)
    \/ \E v \in Versions : subject = Subject("version", v)
    \/ \E b \in Bases, r \in References : subject = Subject("link", [base |-> b, reference |-> r])

\* Either a function is tried or the tables are at work.
MCInit ==
    /\ outcome = << >>
    /\ Init
    /\ \/ subject = Subject("names", << >>)
       \/ hash = (CHOOSE f \in HashFunctions : TRUE) /\ Inputs

Compute == Sort \/ Ask \/ CompareAll \/ FollowLink
MCNext ==
    \/ Compute /\ UNCHANGED lookupVars
    \/ subject.kind = "names" /\ (InternOne \/ IndexOne) /\ UNCHANGED <<subject, outcome>>
MCSpec == MCInit /\ [][MCNext]_<<subject, outcome, lookupVars>>
=============================================================================
