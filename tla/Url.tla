-------------------------------- MODULE Url -------------------------------
(***************************************************************************)
(* The addresses of feeds: how the reference in a feed is resolved against *)
(* the address of the feed (url.cpp), and how an address is taken apart    *)
(* into a specification (spec.hpp).  An address is a sequence of           *)
(* characters.                                                             *)
(***************************************************************************)
EXTENDS Integers, Sequences, SequencesExt

SchemeMark == << ":", "/", "/" >>

\* Where a mark begins for the first time from some place on, 0 if it does not.
Find(s, mark, from) ==
    LET places == {i \in from .. Len(s) - Len(mark) + 1 : SubSeq(s, i, i + Len(mark) - 1) = mark}
    IN IF places = {} THEN 0 ELSE CHOOSE i \in places : \A j \in places : i <= j

\* What precedes a place; everything if there is no such place.
Preceding(s, place) == IF place = 0 THEN s ELSE SubSeq(s, 1, place - 1)

\* Not an address: the exception for a base without a scheme.
NotAbsolute == << >>

\* Up to the last slash, wherever that is.
WithoutPath(base) ==   \* mutant of WithoutFile: the first slash behind the scheme
    Preceding(base, Find(base, << "/" >>, Find(base, SchemeMark, 1) + 3))
WithoutFile(base) == Preceding(base, SelectLastInSeq(base, LAMBDA c : c = "/"))

ResolveUri(base, relative) ==
    LET scheme == Find(base, SchemeMark, 1)
        upTo(mark) == Preceding(base, Find(base, mark, scheme + 3))
        StartsWith(mark) == Find(relative, mark, 1) = 1
    IN IF scheme = 0 THEN NotAbsolute
       ELSE IF relative = << >> THEN base
       ELSE IF Find(relative, SchemeMark, 1) # 0 THEN relative
       ELSE CASE StartsWith(<< "#" >>) -> upTo(<< "#" >>) \o relative
              [] StartsWith(<< "?" >>) -> upTo(<< "?" >>) \o relative
              [] StartsWith(<< "/", "/" >>) -> Preceding(base, scheme) \o << ":" >> \o relative
              [] StartsWith(<< "/" >>) /\ ~StartsWith(<< "/", "/" >>) -> upTo(<< "/" >>) \o relative
              [] OTHER -> WithoutFile(base) \o << "/" >> \o relative

\* Spec of an address: id, ? query, # component.  A mark that comes later than it
\* should is a character like any other.
SpecOf(url) ==
    LET StartsWith(s, c) == s # << >> /\ s[1] = c
        Until(s, marks) == Preceding(s, SelectInSeq(s, LAMBDA c : c \in marks))
        Behind(s, n) == SubSeq(s, n + 1, Len(s))
        id == Until(url, {"?", "#"})
        tail == Behind(url, Len(id))
        query == IF StartsWith(tail, "?") THEN Until(Tail(tail), {"#"}) ELSE << >>
        end == IF StartsWith(tail, "?") THEN Behind(tail, 1 + Len(query)) ELSE tail
        component == IF StartsWith(end, "#") THEN Tail(end) ELSE << >>
    IN [id |-> id, query |-> query, component |-> component]
=============================================================================
