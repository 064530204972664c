----------------------------- MODULE MCDocuments ---------------------------
(***************************************************************************)
(* The ids, versions and components of the small networks on which Crawl   *)
(* and Engine are checked, and constructors for their documents.           *)
(***************************************************************************)
EXTENDS Crawl

MCIds == {"A", "B", "C"}
MCVersions == {"1", "2"}
MCVariants == {"x"}
MCComponents == {"", "dev", AnyComponent, Source}
MCDrivers == {"git", "ar"}

B1 == <<"1", "x">>
B2 == <<"2", "x">>
All == {B1, B2}
Plain(id) == [id |-> id, component |-> "", query |-> NoQuery]
Only(id, b) == [id |-> id, component |-> "", query |-> [accepts |-> {b}, throws |-> {}]]
Bad(id) == [id |-> id, component |-> "", query |-> [accepts |-> {B1}, throws |-> {B2}]]

Offering(type, component, b) ==
    [type |-> type, component |-> component, version |-> b[1], variant |-> b[2], system |-> FALSE]
SystemOffer(component, b) == [Offering("ar", component, b) EXCEPT !.system = TRUE]
Needs(section, when, spec) == [section |-> section, when |-> when, kind |-> "depends", spec |-> spec]
Excludes(section, when, spec) == [section |-> section, when |-> when, kind |-> "conflicts", spec |-> spec]
Doc(href, releases, offers, entries) ==
    [href |-> href, releases |-> releases, offers |-> offers, entries |-> entries]
Leaf(id) == Doc(id, {"1"}, << Offering("ar", "", B1) >>, << >>)
Sources(id, entries) ==
    Doc(id, {"1", "2"}, << Offering("git", Source, B1), Offering("git", Source, B2),
                           Offering("ar", "", B1) >>, entries)
=============================================================================
