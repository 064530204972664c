----------------------------- MODULE FeedParser ----------------------------
(***************************************************************************)
(* How a feed is read: FeedParser (feed_parser.cpp) on top of XmlReader    *)
(* and Dependencies, from the opening of the file in engine_run to the     *)
(* implementations it adds to the database.  Module Crawl takes what a     *)
(* feed says as given; this module says how it comes about.                *)
(*                                                                         *)
(* The parser is a set of nested loops                                     *)
(*     while (xml.start_element()) { ...; xml.skip(); }                    *)
(* one for every element it descends into.  They are the frames of a       *)
(* stack: Leave is the end of the loop on top, every other action one turn *)
(* of it.                                                                  *)
(***************************************************************************)
EXTENDS XmlReader, Dependencies, Functions

CONSTANTS
    Feeds,        \* files, with the query and the drivers they are read with
    ProjectNs,    \* namespace_uri + "project"
    VariantKeys,  \* the names of variants in the order of std::map
    Filter(_)     \* Driver::filter: what a driver reports for a package

ASSUME FeedAssumption ==
    \A f \in Feeds :
        /\ f.tokens \in Seq(ToSet(f.tokens))
        /\ \A i \in DOMAIN f.tokens : TokenShape(f.tokens[i])
        \* a comment or a value that does not end takes the rest of the file
        /\ \A i \in DOMAIN f.tokens : f.tokens[i].kind = "unended" => i = Len(f.tokens)
        \* drivers: the registered drivers by name, each with its namespace and its
        \* fields by name with their default values ("" is a field that must be set)
        /\ \A d \in DOMAIN f.drivers : DOMAIN f.drivers[d] = {"ns", "fields"}

VARIABLES
    feed,        \* the file read; never changes
    reader,      \* the XmlReader
    frames,      \* the loops the parser is in, the innermost last
    status,      \* "opened", "parsing", "done", "failed" (an exception), "undefined"
    variants,    \* the variants of the project: the values of each, by name
    releases,    \* the versions released
    build,       \* what the build section records while it is parsed
    components,  \* what the components record, by name
    db           \* the implementations added

parserVars == <<feed, reader, frames, status, variants, releases, build, components, db>>
recorded == <<variants, releases, build, components>>

Tokens == feed.tokens
Top == Last(frames)

Init ==
    /\ feed \in Feeds
    /\ reader = NewReader
    /\ frames = << >>
    /\ status = "opened"
    /\ variants = << >>
    /\ releases = << >>
    /\ build = << >>
    /\ components = << >>
    /\ db = << >>

\* Does the element carry the attributes that attribute() insists on?
Has(r, attrs) == \A a \in attrs : HasAttribute(r, a, ProjectNs)
Value(r, attr) == Attribute(r, attr, ProjectNs)
Given(r, attr, default) == IF HasAttribute(r, attr, ProjectNs) THEN Value(r, attr) ELSE default
Named(r, local) == r.name.local = local /\ r.name.uri = ProjectNs

\* Where reading goes on; an exception of the reader ends it, or what the reader does
\* behind the end of its buffer.
Refusal(r) == IF Overrun(Tokens, r) THEN "undefined" ELSE "failed"
Proceed(r) ==
    /\ reader' = r
    /\ status' = IF r.error THEN Refusal(r) ELSE "parsing"
Fail(how) == status' = how /\ UNCHANGED <<reader, frames>>

(***************************************************************************)
(* The sections of a project, in the only order in which they are looked   *)
(* for.                                                                    *)
(***************************************************************************)
Stage(section) ==
    CASE section = "meta" -> 1
      [] section = "variants" -> 2
      [] section = "releases" -> 3
      [] section = "build" -> 4
      [] section \in {"runtime", "components"} -> 5
      [] section = "packages" -> 6
      [] OTHER -> 0

\* next_element: elements of other namespaces are skipped.
Met(r) == ~r.more \/ r.error \/ r.name.uri = ProjectNs

Beyond(s) == IF s.error THEN s ELSE StartElement(Tokens, s)
NextTurn(q) == IF Met(q) THEN q ELSE Beyond(Skip(Tokens, q))

NextElement(r) ==
    LET turn[n \in 0 .. Turns(Tokens, r)] ==
            IF n = 0 THEN StartElement(Tokens, r) ELSE NextTurn(turn[n - 1])
    IN turn[CHOOSE n \in 0 .. Turns(Tokens, r) : Met(turn[n])]

NoPackage == [component |-> "", version |-> "", variant |-> << >>, driver |-> "", fields |-> << >>]
\* A known driver brings its own fields.
WithDriver(group, name) ==
    IF name \in DOMAIN feed.drivers
    THEN [group EXCEPT !.driver = name, !.fields = feed.drivers[name].fields]
    ELSE [group EXCEPT !.driver = ""]

Frame(kind) == [kind |-> kind, stage |-> 0, group |-> NoPackage]

SkipOnCopy(r) == Proceed(reader)   \* mutant of SkipOn: the reader is passed by value

\* Skip the element just read, or the rest of it, and go on behind it.
SkipOn(r) == Proceed(Skip(Tokens, r))

\* What the innermost loop meets next.
Upcoming == IF Top.kind = "project" THEN NextElement(reader) ELSE StartElement(Tokens, reader)

Frames == {"project", "variants", "releases", "build", "runtime", "components",
           "component", "branch", "packages"}
DependsFrames == {"build", "runtime", "component", "branch"}
BranchCodes == [if |-> "IF", elseif |-> "ELSEIF", else |-> "ELSE"]
DependencyCodes == [depends |-> "DEPENDS", conflicts |-> "CONFLICTS"]

\* The attributes that the loop on top insists on.  Branches and dependencies are told
\* by their local names, in any namespace.
Required(r) ==
    LET local == r.name.local IN
    CASE Top.kind = "project" ->
            IF local = "build" /\ Stage(local) > Top.stage THEN {"vcs", "href"} ELSE {}
      [] Top.kind = "variants" -> {"name", "values"}
      [] Top.kind = "releases" -> IF Named(r, "release") THEN {"version"} ELSE {}
      [] Top.kind = "components" -> IF Named(r, "component") THEN {"name"} ELSE {}
      [] Top.kind \in DependsFrames ->
            CASE local \in {"if", "elseif"} -> {"test"}
              [] local \in DOMAIN DependencyCodes -> {"href"}
              [] OTHER -> {}
      [] OTHER -> {}

\* The attributes that are parsed as they are read: "bad" stands for a query or a
\* variant that is none.
ParsedAttributes(r) ==
    CASE Top.kind \in DependsFrames -> Required(r)
      [] Top.kind = "packages" /\ (Named(r, "group") \/ Named(r, "package")) -> {"variant"}
      [] OTHER -> {}

Acceptable(r) ==
    /\ Has(r, Required(r))
    /\ \A a \in ParsedAttributes(r) : HasAttribute(r, a, ProjectNs) => Value(r, a) # "bad"

\* Where the loop on top, if it is one of these kinds, stands after looking for its next
\* element.
Looking(kinds) == IF status = "parsing" /\ Top.kind \in kinds THEN {Upcoming} ELSE {}

\* The element it meets and goes through, if any.
Meets(kinds) ==
    {r \in Looking(kinds) : ~r.error /\ r.more /\ Acceptable(r)}

\* engine_run up to parse, and the head of parse.
Open ==
    /\ status = "opened"
    /\ LET r == StartElement(Tokens, NewReader)
       IN IF r.error \/ ~r.more \/ ~Named(r, "project") \/ ~Has(r, {"href", "name"})
          THEN Fail(Refusal(r))
          ELSE Proceed(r) /\ frames' = << Frame("project") >>
    /\ UNCHANGED <<feed, recorded, db>>

\* The reader throws or leaves its buffer between two elements, or an attribute is missing
\* or wrong.
Throw ==
    /\ \E r \in Looking(Frames) : (r.error \/ (r.more /\ ~Acceptable(r))) /\ Fail(Refusal(r))
    /\ UNCHANGED <<feed, recorded, db>>

\* A section is entered when it comes after those before it.  The build section
\* needs a driver for its version control system to add anything in the end.
Section ==
    /\ \E r \in Meets({"project"}) :
       LET section == r.name.local
           here == Append(Front(frames), [Top EXCEPT !.stage = Stage(section)])
       IN /\ Stage(section) > Top.stage
          /\ IF section = "meta" THEN SkipOn(r) /\ frames' = here
             ELSE /\ Proceed(r)
                  /\ frames' = Append(here,
                        IF section = "build"
                        THEN [Frame("build") EXCEPT !.group = WithDriver(@, Value(r, "vcs"))]
                        ELSE Frame(section))
          /\ components' = IF section = "runtime"
                           THEN Append(components, [name |-> "", deps |-> << >>])
                           ELSE components
    /\ UNCHANGED <<feed, variants, releases, build, db>>

\* parse ends when no section is left, or with a section it does not expect.
Finish ==
    /\ \E r \in Looking({"project"}) :
          /\ ~r.error
          /\ r.more => Stage(r.name.local) <= Top.stage
          /\ reader' = r
    /\ status' = "done"
    /\ frames' = << >>
    /\ UNCHANGED <<feed, recorded, db>>

(***************************************************************************)
(* Variants, releases, components.                                         *)
(***************************************************************************)
\* A variant that was declared before is not replaced.
Variant ==
    /\ \E r \in Meets({"variants"}) :
          /\ variants' = variants @@ (Value(r, "name") :> Value(r, "values"))
          /\ SkipOn(r)
    /\ UNCHANGED <<feed, frames, releases, build, components, db>>

Release ==
    /\ \E r \in Meets({"releases"}) :
          /\ releases' = IF Named(r, "release") THEN Append(releases, Value(r, "version")) ELSE releases
          /\ SkipOn(r)
    /\ UNCHANGED <<feed, frames, variants, build, components, db>>

Component ==
    /\ \E r \in Meets({"components"}) :
          IF Named(r, "component")
          THEN /\ components' = Append(components, [name |-> Value(r, "name"), deps |-> << >>])
               /\ Proceed(r)
               /\ frames' = Append(frames, Frame("component"))
          ELSE SkipOn(r) /\ UNCHANGED <<frames, components>>
    /\ UNCHANGED <<feed, variants, releases, build, db>>

(***************************************************************************)
(* parse_depends, for the build section or the last component.             *)
(***************************************************************************)
InBuild == \E i \in DOMAIN frames : frames[i].kind = "build"
Recorded == IF InBuild THEN build ELSE Last(components).deps

Record(deps) ==
    IF InBuild THEN build' = deps /\ UNCHANGED components
    ELSE /\ components' = Append(Front(components), [Last(components) EXCEPT !.deps = deps])
         /\ UNCHANGED build

Branch ==
    /\ \E r \in {q \in Meets(DependsFrames) : q.name.local \in DOMAIN BranchCodes} :
       LET code == BranchCodes[r.name.local]
           test == IF code = "ELSE" THEN "" ELSE Value(r, "test")
       IN IF NothingToReplace(Recorded, code)
          THEN Fail("undefined") /\ UNCHANGED <<build, components>>
          ELSE /\ Record(StartBranch(Recorded, code, test))
               /\ Proceed(r)
               /\ frames' = Append(frames, Frame("branch"))
    /\ UNCHANGED <<feed, variants, releases, db>>

Dependency ==
    /\ \E r \in {q \in Meets(DependsFrames) : q.name.local \notin DOMAIN BranchCodes} :
       LET local == r.name.local
       IN /\ IF local \in DOMAIN DependencyCodes
             THEN Record(Append(Recorded, Entry(DependencyCodes[local], Value(r, "href"))))
             ELSE UNCHANGED <<build, components>>
          /\ SkipOn(r)
    /\ UNCHANGED <<feed, frames, variants, releases, db>>

(***************************************************************************)
(* The implementations built from source: every release in every variant.  *)
(***************************************************************************)
\* foreach_variant: the first name varies slowest.
EachVariant(declared) ==
    LET extended(dicts, key) ==
            IF key \notin DOMAIN declared THEN dicts
            ELSE FlattenSeq([i \in DOMAIN dicts |->
                     [j \in DOMAIN declared[key] |-> dicts[i] @@ (key :> declared[key][j])]])
    IN FoldLeft(extended, << << >> >>, VariantKeys)

Implementation(component, version, variant, s) ==
    [component |-> component, version |-> version, variant |-> variant,
     depends |-> s.depends, conflicts |-> s.conflicts]

\* What adding implementations leads to: the database, and how it ended.
AddSource(acc, version, variant) ==
    LET b == <<version, variant>>
        wanted == Evaluate(feed.query, b)
        s == ReplayOnto(Replayed, build, b)
    IN CASE acc.outcome # "ok" \/ wanted = "false" -> acc
         [] acc.outcome = "ok" /\ wanted = "throws" -> [acc EXCEPT !.outcome = "throws"]
         [] OTHER -> IF s.outcome # "ok" THEN [acc EXCEPT !.outcome = s.outcome]
                     ELSE [acc EXCEPT !.db = Append(@, Implementation("SOURCE", version, variant, s))]

AddSources ==
    LET ofRelease(acc, version) ==
            FoldLeft(LAMBDA a, v : AddSource(a, version, v), acc, EachVariant(variants))
    IN FoldLeft(ofRelease, [db |-> db, outcome |-> "ok"], releases)

(***************************************************************************)
(* Packages.  The fields of an element are parsed into the group of the    *)
(* loop that meets it.                                                     *)
(***************************************************************************)
\* The fields are attributes in the namespace of the driver.
WithFields(group, r) ==
    IF group.driver = "" THEN group
    ELSE LET ns == feed.drivers[group.driver].ns
         IN [group EXCEPT !.fields =
                [f \in DOMAIN @ |-> IF HasAttribute(r, f, ns) THEN Attribute(r, f, ns) ELSE @[f]]]

PackageFieldsOfOld(group, r) ==   \* mutant of PackageFields: the fields of the driver before
    LET parsed == WithFields(group, r)
        typed == IF Has(r, {"type"}) THEN WithDriver(parsed, Value(r, "type")) ELSE parsed
    IN [typed EXCEPT !.component = Given(r, "component", @), !.version = Given(r, "version", @),
                     !.variant = Given(r, "variant", @)]

PackageFields(group, r) ==
    LET typed == IF Has(r, {"type"}) THEN WithDriver(group, Value(r, "type")) ELSE group
    IN WithFields([typed EXCEPT !.component = Given(r, "component", @),
                                !.version = Given(r, "version", @),
                                !.variant = Given(r, "variant", @)], r)

PackageIsValid(package) ==
    package.driver # "" /\ \A f \in DOMAIN package.fields : package.fields[f] # ""

\* What the driver reports must be of a release, unless the system provides it.
AddPackage(package) ==
    LET add(acc, impl) ==
            LET s == IF impl.system THEN Replayed
                     ELSE Replay(components, impl.component, <<impl.version, package.variant>>)
            IN CASE acc.outcome # "ok" -> acc
                 [] acc.outcome = "ok" /\ ~impl.system /\ impl.version \notin ToSet(releases) -> acc
                 [] OTHER -> IF s.outcome # "ok" THEN [acc EXCEPT !.outcome = s.outcome]
                             ELSE [acc EXCEPT !.db =
                                     Append(@, Implementation(impl.component, impl.version,
                                                              package.variant, s))]
    IN IF ~PackageIsValid(package) THEN [db |-> db, outcome |-> "ok"]
       ELSE FoldLeft(add, [db |-> db, outcome |-> "ok"], Filter(package))

\* After adding: an exception, undefined behaviour, or on to the next element.
Afterwards(added, r) ==
    /\ db' = added.db
    /\ CASE added.outcome = "ok" -> SkipOn(r)
         [] added.outcome = "throws" -> status' = "failed" /\ reader' = r
         [] OTHER -> status' = "undefined" /\ reader' = r

Package ==
    /\ \E r \in Meets({"packages"}) :
       LET group == PackageFields(Top.group, r)
           here == Append(Front(frames), [Top EXCEPT !.group = group])
       IN CASE Named(r, "group") ->
                 /\ frames' = Append(here, [Frame("packages") EXCEPT !.group = group])
                 /\ Proceed(r)
                 /\ UNCHANGED db
            [] Named(r, "package") -> frames' = here /\ Afterwards(AddPackage(group), r)
            [] OTHER -> SkipOn(r) /\ UNCHANGED <<frames, db>>
    /\ UNCHANGED <<feed, recorded>>

(***************************************************************************)
(* The end of a loop, and what its caller does before it skips.            *)
(***************************************************************************)
Leave ==
    /\ \E r \in Looking(Frames \ {"project"}) :
          /\ ~r.error /\ ~r.more
          /\ IF Top.kind = "build" /\ Top.group.driver # "" THEN Afterwards(AddSources, r)
             ELSE SkipOn(r) /\ UNCHANGED db
    /\ frames' = Front(frames)
    /\ IF Top.kind = "branch" THEN Record(EndBranch(Recorded)) ELSE UNCHANGED <<build, components>>
    /\ UNCHANGED <<feed, variants, releases>>

Next ==
    \/ Open \/ Throw \/ Section \/ Finish
    \/ Variant \/ Release \/ Component \/ Branch \/ Dependency \/ Package \/ Leave

Spec == Init /\ [][Next]_parserVars

(***************************************************************************)
(* Properties.                                                             *)
(***************************************************************************)
\* An end tag is followed by text, a comment or an instruction, or by nothing.
Separated(ts) ==
    \A i \in 1 .. Len(ts) - 1 :
        ts[i].kind = "end" => ts[i + 1].kind \notin {"start", "empty", "end"}

\* Between two turns of a loop the tags that are open are those of the loops the parser
\* is in, whatever was skipped and whether it was empty (xml_reader.cpp:178-215).
PositionKept ==
    (status = "parsing" /\ Separated(Tokens) /\ reader.pos < Len(Tokens)) =>
        Len(frames) = Len(reader.open) + (IF reader.empty THEN 1 ELSE 0)

\* What is left: every token may begin a loop that must be left again.
Unread == 2 * (Len(Tokens) - reader.pos) + Len(frames)

\* Every turn of a loop leaves less to be done than there was: it reads on, or ends the
\* loop and does not go back (feed_parser.cpp:29-38, 107-115, 119-128, 170-178, 183-215,
\* 220-235, which count on start_element and skip to get through empty elements and to the
\* end of the file).  So reading a file ends, broken off or garbled, provided that every
\* comment and every quoted value in it has an end: at one that has none the scanner leaves
\* the buffer (xml_re2c.in.hpp:82 and 119-132), the status is "undefined", and nothing is
\* said of what follows.
EveryTurnReadsOn == [][status' = "parsing" => Unread' < Unread]_parserVars
=============================================================================
