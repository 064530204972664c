------------------------------- MODULE MCFeed ------------------------------
(***************************************************************************)
(* Feeds for FeedParser.  A feed is written as a tree of elements, and put *)
(* into tokens in several ways: with text or comments between the tags,    *)
(* with nothing between them, cut off or garbled anywhere.  What the tree  *)
(* says is defined a second time, without tokens, frames or entries.       *)
(***************************************************************************)
EXTENDS FeedParser

MCProjectNs == "project"
Foreign == "other"
MCVariantKeys == << "os", "threads" >>

\* Two drivers for packages and one for a version control system.
MCDrivers == [ar |-> [ns |-> "ns:ar", fields |-> [href |-> "", sysname |-> "*"]],
              pk |-> [ns |-> "ns:pk", fields |-> [name |-> ""]],
              git |-> [ns |-> "ns:git", fields |-> << >>]]

\* A test holds for version 1, for version 2, or for a variant of the system; a test
\* that names a variable the variant does not have throws.
MCEvaluate(test, b) ==
    LET truth(holds) == IF holds THEN "true" ELSE "false" IN
    CASE test = "any" -> "true"
      [] test \in {"1", "2"} -> truth(b[1] = test)
      [] test = "unix" -> IF "os" \in DOMAIN b[2] THEN truth(b[2]["os"] = "unix") ELSE "throws"

\* Archives of other systems are dropped, native packages are reported as installed.
MCFilter(package) ==
    LET report(version, system) ==
            [component |-> package.component, version |-> version, system |-> system]
    IN CASE package.driver = "ar" /\ package.fields.sysname = "mars" -> << >>
         [] package.driver = "pk" -> << report("9", TRUE), report(package.version, FALSE) >>
         [] OTHER -> << report(package.version, FALSE) >>

(***************************************************************************)
(* Trees.  attrs: name and value of the attributes in the namespace of the *)
(* project; own: those of drivers, with their prefix.                      *)
(***************************************************************************)
Attr(prefix, local, value) == [prefix |-> prefix, local |-> local, value |-> value]
Node(local, attrs, children) ==
    [prefix |-> "", local |-> local, attrs |-> attrs, children |-> children]
Leaf(local, attrs) == Node(local, attrs, << >>)
Plain(local, value) == Attr("", local, value)

Dep(href) == Leaf("depends", << Plain("href", href) >>)
Conflict(href) == Leaf("conflicts", << Plain("href", href) >>)
If(test, children) == Node("if", << Plain("test", test) >>, children)
Elseif(test, children) == Node("elseif", << Plain("test", test) >>, children)
Else(children) == Node("else", << >>, children)

\* An element of another namespace, in which the default namespace is its own.
Note == [prefix |-> "", local |-> "note", attrs |-> << Plain("xmlns", Foreign) >>,
         children |-> << Leaf("releases", << >>) >>]

Meta == Node("meta", << >>, << Leaf("title", << >>), Node("summary", << >>, << Leaf("b", << >>) >>) >>)
OneVariant == Node("variants", << >>,
    << Leaf("variant", << Plain("name", "os"), Plain("values", << "unix", "win" >>) >>),
       Leaf("variant", << Plain("name", "os"), Plain("values", << "mars" >>) >>) >>)
TwoVariants == Node("variants", << >>,
    << Leaf("variant", << Plain("name", "threads"), Plain("values", << "on", "off" >>) >>),
       Leaf("variant", << Plain("name", "os"), Plain("values", << "unix", "win" >>) >>) >>)
ReleaseOf(version) == Leaf("release", << Plain("version", version) >>)
Releases == Node("releases", << >>,
    << ReleaseOf("1"), Note, Node("release", << Plain("version", "2") >>, << Leaf("patch", << >>) >>) >>)
BuildWith(vcs, deps) == Node("build", << Plain("vcs", vcs), Plain("href", "repo") >>, deps)
Runtime(deps) == Node("runtime", << >>, deps)
ComponentOf(name, deps) == Node("component", << Plain("name", name) >>, deps)
Components(a, b) == Node("components", << >>, << ComponentOf("", a), ComponentOf("dev", b) >>)

Typed(local, type, attrs, children) == Node(local, << Plain("type", type) >> \o attrs, children)
Version(v) == << Plain("version", v) >>
Href == << Attr("ar", "href", "file") >>
Sysname(s) == << Attr("ar", "sysname", s) >>

\* Dependencies without and with alternatives, nested in branches taken and not.
Flat == << Dep("A"), Conflict("B") >>
Alternative == << If("1", << Dep("A") >>), Elseif("2", << Dep("B") >>), Else(<< Dep("C") >>), Dep("D") >>
Nested == << If("1", << If("2", << Dep("A") >>), Else(<< If("any", << Dep("B") >>) >>) >>), Note,
             Else(<< Conflict("C"), If("1", << >>), Elseif("1", << Dep("D") >>), Else(<< Dep("E") >>) >>) >>
Shielded == << If("any", << Dep("A") >>), Elseif("unix", << Dep("B") >>), If("unix", << Dep("C") >>) >>
ElseFirst == << Else(<< Dep("A") >>) >>
ElseAfter == << Dep("A"), Else(<< Dep("B") >>) >>
ElseBetween == << Dep("A"), Else(<< Dep("B") >>), If("1", << Dep("C") >>) >>
NoTest == << Node("if", << >>, << Dep("A") >>) >>
DependencyLists == {<< >>, Flat, Alternative, Nested, Shielded, ElseFirst, ElseAfter, ElseBetween, NoTest}

\* Packages in groups, with attributes that reach beyond the element they are on.
Simple == Node("packages", << >>, << Typed("package", "ar", Version("1") \o Href, << >>) >>)
Grouped == Node("packages", << >>,
    << Typed("group", "ar", Version("1") \o Sysname("linux"),
             << Leaf("package", Href),
                Node("group", << Plain("component", "dev") >>, << Leaf("package", << >>), Note >>),
                Leaf("package", Sysname("mars")), Leaf("package", Version("2")) >>),
       Leaf("package", << >>), Leaf("package", Href),
       Typed("package", "pk", << Attr("pk", "name", "lib") >>, << >>) >>)
Mixed == Node("packages", << >>,
    << Leaf("package", Version("1")), Typed("package", "ar", << >>, << >>),
       Typed("group", "zip", Version("2") \o Href, << Leaf("package", << >>),
                 Typed("package", "ar", Href, << >>) >>),
       Typed("package", "ar", Href, << >>),
       Leaf("package", << Plain("variant", << >>), Plain("component", "*") >>) >>)
BadPackage == Node("packages", << >>,
    << Typed("package", "ar", Version("1") \o Href, << >>), Leaf("package", << Plain("variant", "bad") >>) >>)

Project(sections) ==
    Node("project",
         << Attr("", "xmlns", MCProjectNs), Attr("xmlns", "ar", "ns:ar"), Attr("xmlns", "pk", "ns:pk"),
            Plain("href", "P"), Plain("name", "p") >>, sections)

Everything == Project(<< Note, Meta, TwoVariants, Releases, BuildWith("git", Alternative),
                         Components(Nested, Flat), Grouped >>)
Trees ==
    {Everything,
     Project(<< Meta, OneVariant, Releases, BuildWith("svn", Flat), Runtime(Shielded), Mixed >>),
     Project(<< Meta, Runtime(Flat), Releases, Simple >>),      \* a section out of order
     Project(<< Meta, Releases, Node("build", << Plain("vcs", "git") >>, Flat) >>),
     Project(<< Releases, BadPackage >>), Project(<< >>), Node("project", << >>, << Meta >>)}
    \cup {Project(<< Releases, BuildWith("git", d), Simple >>) : d \in DependencyLists}
    \cup {Project(<< OneVariant, Releases, BuildWith("git", d) >>) : d \in {Shielded, Nested}}
    \cup {Project(<< Releases, Components(<< >>, d), p >>) : d \in DependencyLists, p \in {Grouped, Mixed}}

(***************************************************************************)
(* Tokens.  gap: what stands between two tags.                             *)
(***************************************************************************)
Tag(kind, n) == [kind |-> kind, prefix |-> n.prefix, local |-> n.local, attrs |-> n.attrs]
Mark(kind) == [kind |-> kind, prefix |-> "", local |-> "", attrs |-> << >>]
Text == << Mark("text") >>
Comment == << Mark("text"), Mark("comment"), Mark("text") >>
Prolog == << [Mark("pi") EXCEPT !.local = "xml"] >> \o Text

RECURSIVE Render(_, _, _)
Render(n, gap, short) ==
    IF n.children = << >> /\ short THEN << Tag("empty", n) >> \o gap
    ELSE << Tag("start", n) >> \o gap
         \o FlattenSeq([i \in DOMAIN n.children |-> Render(n.children[i], gap, short)])
         \o << [Tag("end", n) EXCEPT !.attrs = << >>] >> \o gap

\* Text after the last tag is no token.
RECURSIVE Trimmed(_)
Trimmed(ts) == IF ts # << >> /\ Last(ts).kind = "text" THEN Trimmed(Front(ts)) ELSE ts

MCQuery == "any"
Feed(form, tree, tokens, query) ==
    [form |-> form, tree |-> tree, tokens |-> tokens, query |-> query, drivers |-> MCDrivers]
Spaced(tree) == Prolog \o Trimmed(Render(tree, Text, TRUE))

Whole == UNION {{Feed("whole", t, Spaced(t), MCQuery),
                 Feed("whole", t, Trimmed(Render(t, Text, FALSE)), "2"),
                 Feed("whole", t, Trimmed(Render(t, Comment, TRUE)), MCQuery)} : t \in Trees}
Compact == {Feed("compact", t, Render(t, << >>, short), MCQuery) : t \in Trees, short \in BOOLEAN}

\* One feed, broken off between two tokens or in a comment or a quoted value, or with one
\* token garbled, at every place.
Long == Spaced(Everything)
Broken ==
    {Feed("broken", Everything, Trimmed(SubSeq(Long, 1, n)), MCQuery) : n \in 0 .. Len(Long) - 1}
    \cup {Feed("broken", Everything, SubSeq(Long, 1, n) \o << Mark("unended") >>, MCQuery) :
              n \in 0 .. Len(Long) - 1}
    \cup {Feed("broken", Everything, [Long EXCEPT ![n] = m], MCQuery) :
              n \in DOMAIN Long, m \in {Mark("bad"), [Mark("end") EXCEPT !.local = "x"]}}

AllFeeds == Whole \cup Compact \cup Broken

(***************************************************************************)
(* What a tree says.                                                       *)
(***************************************************************************)
IsForeign(n) == Plain("xmlns", Foreign) \in ToSet(n.attrs)
Sets(n, prefix, local) == \E a \in ToSet(n.attrs) : a.prefix = prefix /\ a.local = local
Gets(n, prefix, local) == (CHOOSE a \in ToSet(n.attrs) : a.prefix = prefix /\ a.local = local).value
Child(n, local) == SelectSeq(n.children, LAMBDA c : c.local = local /\ ~IsForeign(c))
Present(n, local) == Child(n, local) # << >>

\* Sections count as long as they come in order.
InOrder(tree) ==
    LET own == SelectSeq(tree.children, LAMBDA c : ~IsForeign(c))
        good == {k \in 0 .. Len(own) : \A i, j \in 1 .. k : i < j => Stage(own[i].local) < Stage(own[j].local)}
    IN [tree EXCEPT !.children = SubSeq(own, 1, Max(good))]

ReleasesOf(tree) ==
    LET own == FlattenSeq([i \in DOMAIN Child(tree, "releases") |-> Child(Child(tree, "releases")[i], "release")])
    IN [i \in DOMAIN own |-> Gets(own[i], "", "version")]

\* The combinations of variants; the first declaration of a variant counts.
Combinations(tree) ==
    IF ~Present(tree, "variants") THEN {<< >>}
    ELSE LET vs == Child(tree, "variants")[1].children
             keys == {Gets(vs[i], "", "name") : i \in DOMAIN vs}
             first(k) == vs[Min({i \in DOMAIN vs : Gets(vs[i], "", "name") = k})]
             values(k) == ToSet(Gets(first(k), "", "values"))
         IN {c \in [keys -> UNION {values(k) : k \in keys}] : \A k \in keys : c[k] \in values(k)}

(* Dependencies: of an if, the elseifs after it and the else, the first branch whose  *)
(* test holds counts; later tests are not looked at.                                  *)
Nothing == [depends |-> << >>, conflicts |-> << >>, throws |-> FALSE]
Then(a, b) ==
    IF a.throws THEN a
    ELSE [depends |-> a.depends \o b.depends, conflicts |-> a.conflicts \o b.conflicts, throws |-> b.throws]

RECURSIVE Says(_, _, _)
Says(nodes, open, b) ==   \* open: no branch of the alternative at hand was taken so far
    IF nodes = << >> THEN Nothing
    ELSE LET n == Head(nodes)
             tested == n.local \in {"if", "elseif"} /\ (n.local = "if" \/ open)
             truth == IF tested THEN MCEvaluate(Gets(n, "", "test"), b) ELSE "true"
             taken == (tested \/ (n.local = "else" /\ open)) /\ truth = "true"
         IN CASE n.local = "depends" ->
                    Then([Nothing EXCEPT !.depends = << Gets(n, "", "href") >>], Says(Tail(nodes), FALSE, b))
              [] n.local = "conflicts" ->
                    Then([Nothing EXCEPT !.conflicts = << Gets(n, "", "href") >>], Says(Tail(nodes), FALSE, b))
              [] n.local \in {"if", "elseif", "else"} ->
                    IF truth = "throws" THEN [Nothing EXCEPT !.throws = TRUE]
                    ELSE Then(IF taken THEN Says(n.children, FALSE, b) ELSE Nothing,
                              Says(Tail(nodes), IF n.local = "if" THEN ~taken ELSE open /\ ~taken, b))
              [] OTHER -> Says(Tail(nodes), open, b)

\* An else or elseif that follows no branch.
RECURSIVE Orphan(_, _)
Orphan(nodes, follows) ==
    nodes # << >> /\
        LET n == Head(nodes)
            branch == n.local \in DOMAIN BranchCodes
        IN \/ n.local \in {"else", "elseif"} /\ ~follows
           \/ branch /\ Orphan(n.children, FALSE)
           \/ Orphan(Tail(nodes), IF n.local \in DOMAIN DependencyCodes THEN FALSE ELSE branch \/ follows)

SectionsOf(tree) ==   \* name and nodes of what the packages of a tree depend on
    FlattenSeq([i \in DOMAIN tree.children |->
        LET c == tree.children[i] IN
        CASE c.local = "runtime" -> << [name |-> "", nodes |-> c.children] >>
          [] c.local = "components" ->
                [k \in DOMAIN c.children |->
                    [name |-> Gets(c.children[k], "", "name"), nodes |-> c.children[k].children]]
          [] OTHER -> << >>])

Incomplete(tree) ==   \* an attribute is missing or wrong
    \/ ~Sets(tree, "", "href")
    \/ \E c \in ToSet(tree.children) : c.local = "build" /\ ~Sets(c, "", "href")
    \/ \E c \in ToSet(tree.children) : c.local = "build" /\ c.children = NoTest
    \/ \E s \in ToSet(SectionsOf(tree)) : s.nodes = NoTest
    \/ \E c \in ToSet(tree.children) : c = BadPackage

Orphaned(tree) ==
    \/ \E c \in ToSet(tree.children) : c.local = "build" /\ Orphan(c.children, FALSE)
    \/ \E s \in ToSet(SectionsOf(tree)) : Orphan(s.nodes, FALSE)

(* Packages: the elements that count for a package, in the order in which they are    *)
(* read, are those on its own level up to itself, then on the level of its group ...  *)
RECURSIVE Chains(_, _)
Chains(nodes, outer) ==
    LET counts(n) == n.local \in {"group", "package"} /\ ~IsForeign(n)
        chain(i) == outer \o SelectSeq(SubSeq(nodes, 1, i), counts)
    IN FlattenSeq([i \in DOMAIN nodes |->
          CASE counts(nodes[i]) /\ nodes[i].local = "group" -> Chains(nodes[i].children, chain(i))
            [] counts(nodes[i]) /\ nodes[i].local = "package" -> << chain(i) >>
            [] OTHER -> << >>])

\* Every attribute is that of the last of these elements that has it; the fields of a
\* driver count from the element on that names it.
LastWith(chain, prefix, local) ==
    LET hits == {i \in DOMAIN chain : Sets(chain[i], prefix, local)} IN IF hits = {} THEN 0 ELSE Max(hits)
LastValue(chain, prefix, local, default) ==
    LET i == LastWith(chain, prefix, local) IN IF i = 0 THEN default ELSE Gets(chain[i], prefix, local)

PackageOf(chain) ==
    LET driver == LastValue(chain, "", "type", "")
        since == SubSeq(chain, LastWith(chain, "", "type"), Len(chain))
        known == driver \in DOMAIN MCDrivers
    IN [component |-> LastValue(chain, "", "component", ""), version |-> LastValue(chain, "", "version", ""),
        variant |-> LastValue(chain, "", "variant", << >>), driver |-> IF known THEN driver ELSE "",
        fields |-> IF known THEN [f \in DOMAIN MCDrivers[driver].fields |->
                                      LastValue(since, driver, f, MCDrivers[driver].fields[f])]
                   ELSE << >>]

\* What the tree puts into the database, and whether putting it there throws.
RECURSIVE SaysAll(_, _, _)
SaysAll(sections, component, b) ==
    IF sections = << >> THEN Nothing
    ELSE Then(IF component \in {Head(sections).name, AllComponents}
              THEN Says(Head(sections).nodes, FALSE, b) ELSE Nothing,
              SaysAll(Tail(sections), component, b))

SourceEntries(f) ==
    LET tree == InOrder(f.tree)
        s == Child(tree, "build")[1]
    IN IF ~Present(tree, "build") THEN {}
       ELSE IF Gets(s, "", "vcs") \notin DOMAIN MCDrivers THEN {}
       ELSE {[component |-> "SOURCE", version |-> v, variant |-> c, says |-> Says(s.children, FALSE, <<v, c>>)] :
                 v \in ToSet(ReleasesOf(tree)),
                 c \in Combinations(tree)}

WantedSources(f) == {e \in SourceEntries(f) : MCEvaluate(f.query, <<e.version, e.variant>>) = "true"}

PackageEntries(f) ==
    LET tree == InOrder(f.tree)
        chains == IF Present(tree, "packages") THEN Chains(Child(tree, "packages")[1].children, << >>) ELSE << >>
        of(p) ==
            LET reported == SelectSeq(IF PackageIsValid(p) THEN MCFilter(p) ELSE << >>,
                                      LAMBDA r : r.system \/ r.version \in ToSet(ReleasesOf(tree)))
            IN [i \in DOMAIN reported |->
                  LET r == reported[i] IN
                  [component |-> r.component, version |-> r.version, variant |-> p.variant,
                   says |-> IF r.system THEN Nothing
                            ELSE SaysAll(SectionsOf(tree), r.component, <<r.version, p.variant>>)]]
    IN FlattenSeq([i \in DOMAIN chains |-> of(PackageOf(chains[i]))])

Stored(e) ==
    [component |-> e.component, version |-> e.version, variant |-> e.variant,
     depends |-> e.says.depends, conflicts |-> e.says.conflicts]

Throwing(f) ==
    \/ \E e \in WantedSources(f) : e.says.throws
    \/ \E e \in ToSet(PackageEntries(f)) : e.says.throws

(***************************************************************************)
(* Properties.                                                             *)
(***************************************************************************)
IsWhole(f) == f.form \in {"whole", "compact"}
Ended == status \in {"done", "failed", "undefined"}
Sources == SelectSeq(db, LAMBDA e : e.component = "SOURCE")
Packages == SelectSeq(db, LAMBDA e : e.component # "SOURCE")

AsWritten ==
    LET expected == PackageEntries(feed) IN
    /\ status = "done"
    /\ releases = ReleasesOf(InOrder(feed.tree))
    /\ ToSet(Sources) = {Stored(e) : e \in WantedSources(feed)}
    /\ Len(Sources) = Cardinality(WantedSources(feed))
    /\ Packages = [i \in DOMAIN expected |-> Stored(expected[i])]

Sound(f) == ~Incomplete(f.tree) /\ ~Orphaned(f.tree) /\ ~Throwing(f)

\* What a feed says does not depend on how the parser gets there: every release in
\* every variant that is wanted, every package with what it inherits, each with the
\* dependencies of the branches that hold for it - if every end tag is followed by
\* something that is no tag, because skip reads one token too many
\* (xml_reader.cpp:178-197, feed_parser.cpp:42-350, dependencies.hpp:26-60).
ReadAsWritten ==
    (Ended /\ IsWhole(feed) /\ Separated(Tokens) /\ Sound(feed)) => AsWritten

\* A feed is refused for an attribute that is missing or wrong and for a test that
\* throws, and undefined behaviour needs an else or elseif that follows no branch
\* (dependencies.hpp:33 and 42; dependencies.cpp:71).
RefusedForCause ==
    (Ended /\ IsWhole(feed) /\ Separated(Tokens)) =>
        /\ status = "failed" => Incomplete(feed.tree) \/ Throwing(feed) \/ Orphaned(feed.tree)
        /\ Incomplete(feed.tree) /\ ~Orphaned(feed.tree) => status = "failed"
        /\ status = "undefined" => Orphaned(feed.tree)

\* A feed that breaks off, or is garbled further down, has added nothing but packages
\* it would have added as a whole, complete with their dependencies, unless it breaks off
\* in a comment or a quoted value and the reader leaves its buffer.  (Of source builds
\* this is not true: a build section that breaks off loses dependencies.)
BrokenFeedsAddPackages ==
    (status \in {"done", "failed"} /\ feed.form = "broken" /\ Separated(Tokens)) =>
        LET whole == PackageEntries(feed) IN
        \E n \in 0 .. Len(whole) : Packages = [i \in 1 .. n |-> Stored(whole[i])]
=============================================================================
