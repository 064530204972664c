----------------------------- MODULE XmlReader -----------------------------
(***************************************************************************)
(* The pull parser of xml_reader.cpp, with the token rules of              *)
(* xml_re2c.in.hpp.                                                        *)
(*                                                                         *)
(* A file is a sequence of tokens: start tags, empty elements, end tags,   *)
(* text, comments and processing instructions.  Characters that make no    *)
(* token are a token of kind "bad": reading it throws.  A comment without  *)
(* its end and a quoted value without its closing quote are "unended": the *)
(* scanner has no check for the end of the buffer there and reads what     *)
(* lies behind it in memory.  Text at the end of a file is no token; read  *)
(* runs into the end instead.                                              *)
(*                                                                         *)
(* The state of a reader is a record, and its operations are functions     *)
(* from one state to the next.  The field `more' holds what read,          *)
(* start_element and next_element return; `error' says that they threw,    *)
(* or left the buffer (Overrun).                                           *)
(***************************************************************************)
EXTENDS Integers, Sequences, FiniteSets, SequencesExt

TokenKinds == {"start", "empty", "end", "text", "comment", "pi", "bad", "unended"}
TokenShape(t) == t.kind \in TokenKinds /\ DOMAIN t = {"kind", "prefix", "local", "attrs"}

\* pos: tokens read.  token: the kind of the last one, as xml.token() calls it.
\* name and attributes: of the last element.  mappings: the namespaces in scope.
\* open: the tags to be closed.  empty: is_empty_element.
NewReader ==
    [pos |-> 0, token |-> "none", name |-> [prefix |-> "", local |-> "", uri |-> ""],
     attributes |-> << >>, mappings |-> << >>, open |-> << >>, empty |-> FALSE,
     more |-> FALSE, error |-> FALSE]

(***************************************************************************)
(* Namespaces: the last mapping of a prefix counts.                        *)
(***************************************************************************)

LookupNamespace(mappings, prefix) ==
    LET hits == {i \in DOMAIN mappings : mappings[i].prefix = prefix}
    IN IF hits = {} THEN "" ELSE mappings[Max(hits)].uri

\* The mappings an element declares, with xmlns="..." and xmlns:prefix="...".
Declared(attrs) ==
    LET decls == SelectSeq(attrs, LAMBDA a : \/ a.prefix = "" /\ a.local = "xmlns"
                                             \/ a.prefix = "xmlns")
    IN [i \in DOMAIN decls |->
          [prefix |-> IF decls[i].prefix = "" THEN "" ELSE decls[i].local,
           uri |-> decls[i].value]]

Resolved(mappings, n) ==
    [prefix |-> n.prefix, local |-> n.local, uri |-> LookupNamespace(mappings, n.prefix)]

ResolvedAttributes(mappings, attrs) ==
    [i \in DOMAIN attrs |-> [name |-> Resolved(mappings, attrs[i]), value |-> attrs[i].value]]

(***************************************************************************)
(* Tokens.                                                                 *)
(***************************************************************************)
\* A start tag stays open, with its namespaces; an empty element leaves no trace but
\* the flag, which no other token than an element or an end tag resets.
ParseElement(r, t) ==
    LET scope == r.mappings \o Declared(t.attrs)
        name == Resolved(scope, t)
        q == [r EXCEPT !.token = "element", !.name = name, !.empty = (t.kind = "empty"),
                       !.attributes = ResolvedAttributes(scope, t.attrs)]
    IN IF t.kind = "empty" THEN q
       ELSE [q EXCEPT !.mappings = scope,
                      !.open = Append(@, [name |-> name, previous |-> Len(r.mappings)])]

ParseEndElement(r, t) ==
    IF \/ r.open = << >>
       \/ Last(r.open).name.prefix # t.prefix
       \/ Last(r.open).name.local # t.local
    THEN [r EXCEPT !.error = TRUE]
    ELSE [r EXCEPT !.token = "end_element", !.empty = FALSE, !.name = Last(r.open).name,
                   !.mappings = SubSeq(@, 1, Last(r.open).previous), !.open = Front(@)]

\* Of a processing instruction nothing is looked at but that there is one.
Parse(r, t) ==
    CASE t.kind \in {"start", "empty"} -> ParseElement(r, t)
      [] t.kind = "end" -> ParseEndElement(r, t)
      [] t.kind \in {"bad", "unended"} -> [r EXCEPT !.error = TRUE]
      [] OTHER -> [r EXCEPT !.token = t.kind]

Read(ts, r) ==
    IF r.pos = Len(ts) THEN [r EXCEPT !.more = FALSE]
    ELSE Parse([r EXCEPT !.pos = @ + 1, !.more = TRUE], ts[r.pos + 1])

\* The reader is behind the end of its buffer; whatever happens then is undefined.
Overrun(ts, r) == r.error /\ r.pos > 0 /\ ts[r.pos].kind = "unended"

(***************************************************************************)
(* Elements.  A loop that reads is followed turn by turn, to one at which  *)
(* it has ended; there it stays.                                           *)
(***************************************************************************)
\* There are no more turns: each of them takes a token, or finds that there is none.
Turns(ts, r) == Len(ts) - r.pos + 1

\* start_element: go on to the next start or end tag, and say whether it is a start.
\* There is nothing to go on to in an empty element.
AtTag(r) == ~r.more \/ r.error \/ r.token \in {"element", "end_element"}

TagTurn(ts, q) == IF AtTag(q) THEN q ELSE Read(ts, q)
TellStart(q) == [q EXCEPT !.more = @ /\ q.token = "element"]

NextTag(ts, r) ==
    LET turn[n \in 1 .. Turns(ts, r)] == IF n = 1 THEN Read(ts, r) ELSE TagTurn(ts, turn[n - 1])
    IN TellStart(turn[CHOOSE n \in 1 .. Turns(ts, r) : AtTag(turn[n])])

StartElement(ts, r) == IF r.empty THEN [r EXCEPT !.more = FALSE] ELSE NextTag(ts, r)

\* skip: read on until the tag that is open is closed, and one token more.
Nesting(r) ==
    IF r.token = "element" /\ ~r.empty THEN 1 ELSE IF r.token = "end_element" THEN -1 ELSE 0

\* The reader after a turn, how deep it is, and whether the loop goes on.
Skipping(q, depth) == [at |-> q, depth |-> depth, on |-> q.more /\ ~q.error /\ depth > 0]
SkipTurn(ts, w) == IF w.on THEN Skipping(Read(ts, w.at), w.depth + Nesting(w.at)) ELSE w

SkipFrom(ts, r) ==
    LET turn[n \in 0 .. Turns(ts, r)] ==
            IF n = 0 THEN [at |-> r, depth |-> 0, on |-> TRUE] ELSE SkipTurn(ts, turn[n - 1])
    IN turn[CHOOSE n \in 0 .. Turns(ts, r) : ~turn[n].on].at

SkipButEmpty(ts, r) == IF r.empty THEN r ELSE SkipFrom(ts, r)   \* mutant of Skip
Skip(ts, r) == IF r.empty THEN [r EXCEPT !.empty = FALSE] ELSE SkipFrom(ts, r)

(***************************************************************************)
(* Attributes of the last element: the first of that name and namespace.   *)
(***************************************************************************)
Matching(r, local, uri) ==
    {i \in DOMAIN r.attributes :
        r.attributes[i].name.local = local /\ r.attributes[i].name.uri = uri}
HasAttribute(r, local, uri) == Matching(r, local, uri) # {}
Attribute(r, local, uri) == r.attributes[Min(Matching(r, local, uri))].value
=============================================================================
