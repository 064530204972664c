----------------------------- MODULE Worklist ------------------------------
(***************************************************************************)
(* What the feed queue promises, without queue or order: an id waits to be *)
(* read only if no feed has been read, or is going to be read, under it.   *)
(* So a feed is read at most once, ever - unless feeds that were read go   *)
(* by other ids than those that were asked for: an id that has waited is   *)
(* then free to wait once more, and one that waits may turn out to be done.*)
(***************************************************************************)
EXTENDS Naturals

CONSTANT Ids
VARIABLES
    called,   \* the id that the feed behind an id goes by; never changes
    waiting,  \* the ids to be read
    done,     \* the ids of the feeds that were read
    reads     \* how often a feed was read

worklistVars == <<called, waiting, done, reads>>

Init == called \in [Ids -> Ids] /\ waiting = {} /\ done = {} /\ reads = 0

Discover(id) ==
    /\ id \notin waiting \cup done
    /\ waiting' = waiting \cup {id}
    /\ UNCHANGED <<called, done, reads>>

\* A feed that cannot be read keeps the id it was asked for.
Take(id) ==
    /\ id \in waiting
    /\ waiting' = waiting \ {id}
    /\ \E name \in {id, called[id]} : done' = done \cup {name}
    /\ reads' = reads + 1
    /\ called' = called

Next == \E id \in Ids : Discover(id) \/ Take(id)

Spec == Init /\ [][Next]_worklistVars
=============================================================================
