------------------------------ MODULE Drivers ------------------------------
(***************************************************************************)
(* The registry of drivers: PackageHandler (package_handler.hpp), a vector *)
(* of Driver (driver.hpp).  A driver owns what the client gave it, its     *)
(* target, and has it destroyed once.  A vector that grows moves its       *)
(* elements to new memory: pointers into the old one dangle.               *)
(***************************************************************************)
EXTENDS Integers, Sequences, FiniteSets

CONSTANT DriverNames

VARIABLES
    drivers,     \* the vector: the name and the target of each; target 0 is nullptr
    memory,      \* which memory the vector is in
    capacity,    \* how many drivers fit into it
    destroyed    \* how often each target was destroyed, in the order of registration

driverVars == <<drivers, memory, capacity, destroyed>>

DriversInit ==
    /\ drivers = << >>
    /\ memory = 0
    /\ capacity = 0
    /\ destroyed = << >>

(***************************************************************************)
(* Driver: move construction and destruction.                              *)
(***************************************************************************)
MovedCopy(driver) == driver   \* mutant of MovedFrom: target is copied, not handed over
MovedFrom(driver) == [name |-> "", target |-> 0]

\* ~Driver of all of them.
AfterDestruction(ds) ==
    [t \in DOMAIN destroyed |-> destroyed[t] + Cardinality({i \in DOMAIN ds : ds[i].target = t})]

(***************************************************************************)
(* PackageHandler.                                                         *)
(***************************************************************************)
Add(name) ==
    LET new == [name |-> name, target |-> Len(destroyed) + 1]
        left == [i \in DOMAIN drivers |-> MovedFrom(drivers[i])]
    IN /\ drivers' = Append(drivers, new)
       /\ IF Len(drivers) < capacity
          THEN /\ destroyed' = Append(destroyed, 0)
               /\ UNCHANGED <<memory, capacity>>
          ELSE /\ destroyed' = Append(AfterDestruction(left), 0)
               /\ memory' = memory + 1
               /\ capacity' = IF capacity = 0 THEN 1 ELSE 2 * capacity

Clear ==
    /\ drivers' = << >>
    /\ destroyed' = AfterDestruction(drivers)
    /\ UNCHANGED <<memory, capacity>>

Called(name) == {i \in DOMAIN drivers : drivers[i].name = name}
FirstOf(is) == CHOOSE i \in is : \A k \in is : i <= k
LastOf(is) == CHOOSE i \in is : \A k \in is : i >= k

\* A pointer: where in which memory; NoDriver is nullptr.
NoDriver == [memory |-> 0, at |-> 0]
GetLast(name) ==   \* mutant of Get
    IF Called(name) = {} THEN NoDriver ELSE [memory |-> memory, at |-> LastOf(Called(name))]
Get(name) ==
    IF Called(name) = {} THEN NoDriver ELSE [memory |-> memory, at |-> FirstOf(Called(name))]

Live(pointer) == pointer.memory = memory /\ pointer.at \in DOMAIN drivers

(***************************************************************************)
(* Properties.                                                             *)
(***************************************************************************)
Owners(t) == {i \in DOMAIN drivers : drivers[i].target = t}

\* Every target has one driver that owns it, or was destroyed once: never both, never
\* twice, and none is lost, however often the vector has moved (driver.hpp:39-80,
\* package_handler.hpp:21-24).
TargetsOwnedOnce == \A t \in DOMAIN destroyed : Cardinality(Owners(t)) + destroyed[t] = 1
=============================================================================
