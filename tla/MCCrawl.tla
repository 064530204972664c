------------------------------ MODULE MCCrawl ------------------------------
(***************************************************************************)
(* Small networks for Crawl: three projects A, B, C with two versions.     *)
(***************************************************************************)
EXTENDS MCDocuments

\* Feeds that depend on each other in a cycle, from build and runtime sections.
Cycle == [u \in MCIds |->
    CASE u = "A" -> Sources("A", << Needs("build", All, Only("B", B1)), Needs("", All, Plain("C")) >>)
      [] u = "B" -> Sources("B", << Needs("build", {B2}, Plain("C")), Needs("", {B1}, Plain("A")),
                                    Excludes("", All, Only("C", B2)) >>)
      [] u = "C" -> Doc("C", {"1"}, << Offering("ar", "dev", B1), SystemOffer("", B2),
                                       Offering("ar", AnyComponent, B1), Offering("ar", "", B2) >>,
                        << Needs("dev", All, Plain("B")), Needs("", All, Bad("A")) >>)]

\* B is known under two urls; its document claims the id B.
Alias == [u \in MCIds |->
    CASE u = "A" -> Sources("A", << Needs("build", All, Plain("C")), Needs("", All, Plain("B")) >>)
      [] u = "B" -> Sources("B", << >>)
      [] u = "C" -> Sources("B", << >>)]

MCWebs == {Cycle, Alias}
MCRequestable == {Plain("A"), Only("B", B2), Bad("A")}
=============================================================================
