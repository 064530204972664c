------------------------------ MODULE MCEngine -----------------------------
(***************************************************************************)
(* Small networks for Engine.                                              *)
(***************************************************************************)
EXTENDS Engine, MCDocuments

Nothing(id) == Doc(id, {}, << >>, << >>)

\* Sources and packages of two versions, components that complement each other.
Mixed == [u \in MCIds |->
    CASE u = "A" -> Doc("A", {"1"}, << Offering("git", Source, B1), Offering("ar", "", B1) >>,
                        << Needs("build", All, Plain("B")), Needs("", All, Only("B", B1)) >>)
      [] u = "B" -> Doc("B", {"1", "2"},
                        << Offering("git", Source, B1), Offering("git", Source, B2),
                           Offering("ar", "", B1), Offering("ar", "dev", B1) >>, << >>)
      [] u = "C" -> Nothing("C")]

\* A project excludes a version of another; a package for all components.
Exclusive == [u \in MCIds |->
    CASE u = "A" -> Doc("A", {"1"}, << Offering("ar", "", B1) >>,
                        << Needs("", All, Plain("B")), Needs("", All, Plain("C")) >>)
      [] u = "B" -> Doc("B", {"1", "2"}, << Offering("ar", "", B1), Offering("ar", AnyComponent, B2) >>,
                        << Excludes("", {B1}, Only("C", B2)), Excludes("", {B2}, Only("C", B1)) >>)
      [] u = "C" -> Doc("C", {"1"}, << Offering("ar", "", B1), SystemOffer("", B2) >>, << >>)]

\* Projects that depend on each other cannot be ordered.
Circular == [u \in MCIds |->
    CASE u = "A" -> Doc("A", {"1"}, << Offering("ar", "", B1) >>, << Needs("", All, Plain("B")) >>)
      [] u = "B" -> Doc("B", {"1"}, << Offering("ar", "", B1), SystemOffer("", B2) >>,
                        << Needs("", All, Plain("A")) >>)
      [] u = "C" -> Nothing("C")]

\* A dependency whose query throws on one of the builds.
Throwing == [u \in MCIds |->
    CASE u = "A" -> Doc("A", {"1"}, << Offering("git", Source, B1), Offering("ar", "", B1) >>,
                        << Needs("", All, Bad("B")) >>)
      [] u = "B" -> Doc("B", {"1", "2"}, << Offering("ar", "", B1), SystemOffer("", B2) >>, << >>)
      [] u = "C" -> Nothing("C")]

MCEngineWebs == {Mixed, Exclusive, Circular, Throwing}
MCEngineRequestable == {Plain("A"), Only("B", B2), Bad("A")}

(***************************************************************************)
(* Networks on which the engine departs from what is said of it.           *)
(***************************************************************************)
\* C is another url of B, A needs two versions of B that exclude each other, and
\* the development component of A makes the engine read B under both urls.
Renamed == [u \in MCIds \cup {"D"} |->
    CASE u = "A" -> Doc("A", {"1"}, << Offering("ar", "dev", B1), Offering("ar", "", B1) >>,
                        << Needs("dev", All, Plain("C")), Needs("dev", All, Plain("D")),
                           Needs("", All, Only("B", B1)), Needs("", All, Only("B", B2)) >>)
      [] u \in {"B", "C"} -> Doc("B", {"1", "2"},
                                 << Offering("ar", "", B1), Offering("ar", "", B2) >>, << >>)
      [] u = "D" -> Leaf("D")]
RenamedWebs == {Renamed}
RenamedIds == MCIds \cup {"D"}

\* Each version of A needs the same version of B, which is only offered as source.
Filtered == [u \in MCIds |->
    CASE u = "A" -> Doc("A", {"1", "2"}, << Offering("ar", "", B1), Offering("ar", "", B2) >>,
                        << Needs("", {B1}, Only("B", B1)), Needs("", {B2}, Only("B", B2)) >>)
      [] u = "B" -> Doc("B", {"1", "2"},
                        << Offering("git", Source, B1), Offering("git", Source, B2) >>, << >>)
      [] u = "C" -> Nothing("C")]
FilteredWebs == {Filtered}
FilteredRequestable == {Only("A", B2)}

\* "The request is not satisfiable!" (example/karrot.cpp:158): no selection of what
\* the feeds offer serves it.
Offered == FlattenSeq([p \in 1 .. next |-> Yield(Plain(urls[p].id))])
NotSatisfiable ==
    [][(phase = "solve" /\ result' = "unsatisfiable") =>
          \A sel \in SUBSET DOMAIN Offered :
              ~Consistent(Offered, sel, requests, options.ignoreSource)]_vars

\* A is offered as a package for all components and as source.
Complete == [u \in MCIds |->
    IF u = "A" THEN Doc("A", {"1"}, << Offering("git", Source, B1),
                                       Offering("ar", AnyComponent, B1) >>, << >>)
    ELSE Nothing(u)]
CompleteWebs == {Complete}
PlainRequestable == {Plain("A")}

\* A request limited to source implementations (include/karrot.h:133) is served by
\* nothing else.
SourceRequestsGetSource ==
    (phase = "idle" /\ result = "ok" /\ Len(requests) = 1) =>
        \A h \in ToSet(handled) :
            (h.requested /\ requests[1].component = Source) => db[h.impl].component = Source

\* The feed of A offers nothing a registered driver supports.
Barren == [u \in MCIds |-> Nothing(u)]
BarrenWebs == {Barren}

\* If nothing satisfies a request the engine says so and returns (solve.cpp:218-226).
MissingIsReported == ~crashed
=============================================================================
