--------------------------- MODULE SessionProofs ---------------------------
(***************************************************************************)
(* Proofs about module Session, for any number of drivers, feeds, runs and *)
(* processes: who owns the targets of the drivers, which driver handles a  *)
(* package, and what the files of the cache hold.                          *)
(***************************************************************************)
EXTENDS Session, Recursion, FiniteSetTheorems

(***************************************************************************)
(* The operators of the registry.                                          *)
(***************************************************************************)
\* find_if finds the least place there is, if there is one (package_handler.hpp:28-32).
LEMMA FirstOfIsLeast ==
    ASSUME NEW S \in SUBSET Nat, S # {}
    PROVE  FirstOf(S) \in S /\ \A k \in S : FirstOf(S) <= k
  <1>1. PICK i \in S : \A k \in S : ~(k < i)
    BY LeastNumber
  <1>2. \A k \in S : i <= k
    BY <1>1
  <1>3. QED
    BY <1>2 DEF FirstOf

\* Whatever is added behind, the least place stays what it was.
LEMMA FirstOfStays ==
    ASSUME NEW S \in SUBSET Nat, S # {}, NEW T \in SUBSET Nat,
           \A k \in T : \A i \in S : i < k
    PROVE  FirstOf(S \cup T) = FirstOf(S)
  <1>1. FirstOf(S) \in S /\ \A k \in S : FirstOf(S) <= k
    BY FirstOfIsLeast
  <1>2. FirstOf(S \cup T) \in S \cup T /\ \A k \in S \cup T : FirstOf(S \cup T) <= k
    BY FirstOfIsLeast
  <1>3. FirstOf(S \cup T) <= FirstOf(S)
    BY <1>1, <1>2
  <1>4. FirstOf(S \cup T) \in S
    <2>1. SUFFICES ASSUME FirstOf(S \cup T) \in T PROVE FALSE
      BY <1>2
    <2>2. FirstOf(S) < FirstOf(S \cup T)
      BY <1>1, <2>1
    <2>3. FirstOf(S) \in Nat /\ FirstOf(S \cup T) \in Nat
      BY <1>1, <1>2
    <2>4. QED
      BY <1>3, <2>2, <2>3
  <1>5. FirstOf(S) <= FirstOf(S \cup T)
    BY <1>1, <1>4
  <1>6. FirstOf(S) \in Nat /\ FirstOf(S \cup T) \in Nat
    BY <1>1, <1>2
  <1>7. QED
    BY <1>3, <1>5, <1>6

(***************************************************************************)
(* Targets.                                                                *)
(***************************************************************************)
DriverEntries == [name : DriverNames, target : Nat]

\* TargetsOwnedOnce, strengthened by what the vector holds: targets that were registered.
DriversOwned ==
    /\ drivers \in Seq(DriverEntries)
    /\ destroyed \in Seq(Nat)
    /\ \A i \in DOMAIN drivers : drivers[i].target \in DOMAIN destroyed
    /\ TargetsOwnedOnce

\* The owners of a target are finitely many.
LEMMA OwnersFinite ==
    ASSUME drivers \in Seq(DriverEntries), NEW t
    PROVE  IsFiniteSet(Owners(t)) /\ Cardinality(Owners(t)) \in Nat
  <1>1. IsFiniteSet(1 .. Len(drivers))
    BY FS_Interval
  <1>2. Owners(t) \subseteq 1 .. Len(drivers)
    BY DEF Owners
  <1>3. IsFiniteSet(Owners(t))
    BY <1>1, <1>2, FS_Subset
  <1>4. QED
    BY <1>3, FS_CardinalityType

\* Adding a driver appends it, and destroys nothing: what was moved out of the old memory
\* has no target (driver.hpp:40-53).
LEMMA AddAppends ==
    ASSUME DriversOwned, NEW name \in DriverNames, Add(name)
    PROVE  /\ drivers' = Append(drivers, [name |-> name, target |-> Len(destroyed) + 1])
           /\ destroyed' = Append(destroyed, 0)
           /\ Len(drivers') = Len(drivers) + 1
  <1> DEFINE left == [i \in DOMAIN drivers |-> MovedFrom(drivers[i])]
  <1>1. \A t \in DOMAIN destroyed : {i \in DOMAIN left : left[i].target = t} = {}
    <2>1. \A t \in DOMAIN destroyed : t \in Nat /\ t # 0
      BY DEF DriversOwned
    <2>2. \A i \in DOMAIN left : left[i].target = 0
      BY DEF MovedFrom
    <2>3. QED
      BY <2>1, <2>2
  <1>2. AfterDestruction(left) = destroyed
    <2>1. ASSUME NEW t \in DOMAIN destroyed
          PROVE  destroyed[t] + Cardinality({i \in DOMAIN left : left[i].target = t}) = destroyed[t]
      <3>1. Cardinality({i \in DOMAIN left : left[i].target = t}) = 0
        <4> HIDE DEF left
        <4>1. QED
          BY <1>1, FS_EmptySet, Zenon
      <3>2. destroyed[t] \in Nat
        BY DEF DriversOwned
      <3>3. QED
        BY <3>1, <3>2
    <2>2. AfterDestruction(left) = [t \in DOMAIN destroyed |-> destroyed[t]]
      BY <2>1 DEF AfterDestruction
    <2>3. QED
      BY <2>2 DEF DriversOwned
  <1>3. destroyed' = Append(destroyed, 0)
    BY <1>2 DEF Add
  <1>4. drivers' = Append(drivers, [name |-> name, target |-> Len(destroyed) + 1])
    BY DEF Add
  <1>5. QED
    BY <1>3, <1>4 DEF DriversOwned

LEMMA AddKeepsOwners ==
    ASSUME DriversOwned, NEW name \in DriverNames, Add(name)
    PROVE  DriversOwned'
  <1> DEFINE new == [name |-> name, target |-> Len(destroyed) + 1]
  <1>1. drivers' = Append(drivers, new) /\ destroyed' = Append(destroyed, 0)
    BY AddAppends
  <1>2. /\ drivers \in Seq(DriverEntries) /\ destroyed \in Seq(Nat)
        /\ \A i \in DOMAIN drivers : drivers[i].target \in DOMAIN destroyed
    BY DEF DriversOwned
  <1>3. new \in DriverEntries /\ new.target = Len(destroyed) + 1
    BY <1>2 DEF DriverEntries
  <1> HIDE DEF new
  <1>4. drivers' \in Seq(DriverEntries) /\ destroyed' \in Seq(Nat)
    BY <1>1, <1>2, <1>3
  <1>5. \A i \in DOMAIN drivers' : drivers'[i].target \in DOMAIN destroyed'
    BY <1>1, <1>2, <1>3
  <1>6. ASSUME NEW t \in DOMAIN destroyed'
        PROVE  Cardinality(Owners(t)') + destroyed'[t] = 1
    <2>1. CASE t \in DOMAIN destroyed
      <3>1. destroyed'[t] = destroyed[t] /\ t # Len(destroyed) + 1
        BY <1>1, <1>2, <2>1
      <3>2. Owners(t)' = Owners(t)
        BY <1>1, <1>2, <1>3, <3>1 DEF Owners
      <3>3. QED
        BY <2>1, <3>1, <3>2 DEF DriversOwned, TargetsOwnedOnce
    <2>2. CASE t = Len(destroyed) + 1
      <3>1. destroyed'[t] = 0
        BY <1>1, <1>2, <2>2
      <3>2. Owners(t)' = {Len(drivers) + 1}
        BY <1>1, <1>2, <1>3, <2>2 DEF Owners
      <3>3. Cardinality(Owners(t)') = 1
        BY <3>2, FS_Singleton
      <3>4. QED
        BY <3>1, <3>3
    <2>3. QED
      BY <1>1, <1>2, <2>1, <2>2
  <1>7. QED
    BY <1>4, <1>5, <1>6 DEF DriversOwned, TargetsOwnedOnce

\* With the vector every target is destroyed that was not destroyed before.
LEMMA ClearDestroysOwners ==
    ASSUME DriversOwned, Clear
    PROVE  DriversOwned'
  <1>1. drivers' = << >> /\ destroyed' = AfterDestruction(drivers)
    BY DEF Clear
  <1>2. destroyed' = [t \in DOMAIN destroyed |-> 1]
    <2>1. ASSUME NEW t \in DOMAIN destroyed
          PROVE  destroyed[t] + Cardinality(Owners(t)) = 1
      <3>1. Cardinality(Owners(t)) \in Nat /\ destroyed[t] \in Nat
        BY OwnersFinite DEF DriversOwned
      <3>2. QED
        BY <3>1 DEF DriversOwned, TargetsOwnedOnce
    <2>2. AfterDestruction(drivers) = [t \in DOMAIN destroyed |-> destroyed[t] + Cardinality(Owners(t))]
      BY DEF AfterDestruction, Owners
    <2>3. QED
      BY <1>1, <2>1, <2>2
  <1>3. destroyed' \in Seq(Nat) /\ DOMAIN destroyed' = DOMAIN destroyed
    BY <1>2 DEF DriversOwned
  <1>4. ASSUME NEW t \in DOMAIN destroyed'
        PROVE  Cardinality(Owners(t)') + destroyed'[t] = 1
    <2>1. Owners(t)' = {}
      BY <1>1 DEF Owners
    <2>2. Cardinality(Owners(t)') = 0
      BY <2>1, FS_EmptySet
    <2>3. QED
      BY <1>2, <1>3, <2>2
  <1>5. QED
    BY <1>1, <1>3, <1>4 DEF DriversOwned, TargetsOwnedOnce

LEMMA OwnersUnchanged == DriversOwned /\ UNCHANGED driverVars => DriversOwned'
  BY DEF DriversOwned, TargetsOwnedOnce, Owners, driverVars

\* Only three steps touch the registry.
LEMMA DriversTouched ==
    ASSUME [Next]_vars PROVE AddDriver \/ FreeEngine \/ Restart \/ UNCHANGED driverVars
  <1>1. ASSUME Running PROVE UNCHANGED driverVars
    BY <1>1 DEF Running, NextFeed, Load, LoadFails, ReadFeed, AddPackage, EndOfFeed, Solve,
                HandleNext, AllHandled
  <1>2. ASSUME Run \/ Others \/ Die \/ UNCHANGED vars PROVE UNCHANGED driverVars
    BY <1>2 DEF Run, Others, Die, vars
  <1>3. QED
    BY <1>1, <1>2 DEF Next, Client

LEMMA EmptyRegistry == drivers = << >> /\ destroyed = << >> => DriversOwned
  <1> SUFFICES ASSUME drivers = << >>, destroyed = << >> PROVE DriversOwned
    OBVIOUS
  <1>1. DOMAIN destroyed = {} /\ DOMAIN drivers = {}
    OBVIOUS
  <1>2. QED
    BY <1>1 DEF DriversOwned, TargetsOwnedOnce

LEMMA OwnersInitially == Init => DriversOwned
  BY EmptyRegistry DEF Init, DriversInit

LEMMA OwnersNext == DriversOwned /\ [Next]_vars => DriversOwned'
  <1> SUFFICES ASSUME DriversOwned, [Next]_vars PROVE DriversOwned'
    OBVIOUS
  <1>1. CASE AddDriver
    <2>1. Registrations[Len(destroyed) + 1] \in DriverNames
      BY <1>1, SessionAssumption DEF AddDriver, DriversOwned
    <2>2. QED
      BY <1>1, <2>1, AddKeepsOwners DEF AddDriver
  <1>2. CASE FreeEngine
    BY <1>2, ClearDestroysOwners DEF FreeEngine
  <1>3. CASE Restart
    <2>1. drivers' = << >> /\ destroyed' = << >>
      BY <1>3 DEF Restart, Afresh
    <2>2. DOMAIN destroyed' = {} /\ DOMAIN drivers' = {}
      BY <2>1
    <2>3. QED
      BY <2>1, <2>2 DEF DriversOwned, TargetsOwnedOnce
  <1>4. QED
    BY <1>1, <1>2, <1>3, DriversTouched, OwnersUnchanged

\* Every target has one owner or was destroyed once, however many drivers are registered
\* and whenever the vector moves (driver.hpp:39-80, package_handler.hpp:22-25).
THEOREM TargetsHaveOneOwner == Spec => []TargetsOwnedOnce
  <1>1. DriversOwned => TargetsOwnedOnce
    BY DEF DriversOwned
  <1>2. QED
    BY <1>1, OwnersInitially, OwnersNext, PTL DEF Spec

(***************************************************************************)
(* Pointers.                                                               *)
(***************************************************************************)
\* What an implementation knows of its driver: where it is, as long as no driver was
\* registered since.
Remembered(impl) ==
    /\ impl.registered \in Nat /\ impl.registered <= Len(drivers)
    /\ impl.registered = Len(drivers) => Live(impl.driver)
    /\ Called(impl.type) # {}
    /\ impl.driver.at = FirstOf(Called(impl.type))

HandledByFirst(c) ==
    /\ Called(c.type) # {}
    /\ c.target = drivers[FirstOf(Called(c.type))].target

\* FirstRegisteredHandles and DanglingNeedsLateDriver, strengthened by what makes the
\* steps keep them: while the engine lives, both the implementations and what was called
\* agree with the registry.
PointersKept ==
    /\ \E S : db \in Seq(S)
    /\ plan \subseteq DOMAIN db
    /\ phase # "freed" => /\ \A k \in DOMAIN db : Remembered(db[k])
                          /\ \A c \in called : HandledByFirst(c)
    /\ phase = "freed" => drivers = << >>
    /\ phase = "undefined" => \E k \in DOMAIN db : db[k].registered < Len(drivers)

\* A driver that is registered comes behind those that are found before it.
LEMMA AddKeepsFirst ==
    ASSUME DriversOwned, NEW name \in DriverNames, Add(name), NEW type, Called(type) # {}
    PROVE  /\ Called(type)' # {}
           /\ FirstOf(Called(type)') = FirstOf(Called(type))
           /\ drivers'[FirstOf(Called(type))] = drivers[FirstOf(Called(type))]
  <1> DEFINE new == [name |-> name, target |-> Len(destroyed) + 1]
  <1>1. drivers' = Append(drivers, new) /\ drivers \in Seq(DriverEntries)
    BY AddAppends DEF DriversOwned
  <1>2. new \in DriverEntries
    BY DEF DriverEntries, DriversOwned
  <1> HIDE DEF new
  <1> DEFINE T == {k \in {Len(drivers) + 1} : drivers'[k].name = type}
  <1>3. Called(type)' = Called(type) \cup T
    BY <1>1, <1>2 DEF Called
  <1>4. Called(type) \in SUBSET Nat /\ T \in SUBSET Nat /\ \A k \in T : \A i \in Called(type) : i < k
    BY <1>1 DEF Called
  <1>5. FirstOf(Called(type)) \in DOMAIN drivers
    BY <1>4, FirstOfIsLeast DEF Called
  <1>6. drivers'[FirstOf(Called(type))] = drivers[FirstOf(Called(type))]
    BY <1>1, <1>2, <1>5
  <1> HIDE DEF T
  <1>7. FirstOf(Called(type) \cup T) = FirstOf(Called(type))
    BY <1>4, FirstOfStays
  <1>8. QED
    BY <1>3, <1>6, <1>7

\* get returns the place of the first driver of that name, in the memory of now
\* (package_handler.hpp:26-38).
LEMMA GetPointsToFirst ==
    ASSUME DriversOwned, NEW type, Get(type) # NoDriver
    PROVE  Remembered(Implementation(type))
  <1>1. Called(type) # {}
    BY DEF Get
  <1>2. Get(type) = [memory |-> memory, at |-> FirstOf(Called(type))]
    BY <1>1 DEF Get
  <1>3. Called(type) \in SUBSET Nat /\ Called(type) \subseteq DOMAIN drivers
    BY DEF Called, DriversOwned
  <1>4. FirstOf(Called(type)) \in DOMAIN drivers
    BY <1>1, <1>3, FirstOfIsLeast
  <1>5. Live(Get(type))
    BY <1>2, <1>4 DEF Live
  <1>6. Len(drivers) \in Nat
    BY DEF DriversOwned
  <1>7. QED
    BY <1>1, <1>2, <1>5, <1>6 DEF Remembered, Implementation

LEMMA PointersInitially == Init => PointersKept
  BY DEF Init, PointersKept, DriversInit

LEMMA AddDriverKeepsPointers ==
    ASSUME DriversOwned, PointersKept, AddDriver PROVE PointersKept'
  <1>1. Registrations[Len(destroyed) + 1] \in DriverNames
    BY SessionAssumption DEF AddDriver, DriversOwned
  <1>2. PICK name \in DriverNames : Add(name)
    BY <1>1 DEF AddDriver
  <1>3. phase = "idle" /\ UNCHANGED <<phase, db, plan, called>>
    BY DEF AddDriver, sessionVars
  <1>4. Len(drivers') = Len(drivers) + 1 /\ Len(drivers) \in Nat
    <2>1. Len(drivers') = Len(drivers) + 1
      BY <1>2, AddAppends
    <2>2. QED
      BY <2>1 DEF DriversOwned
  <1>5. ASSUME NEW k \in DOMAIN db PROVE Remembered(db[k])'
    <2>1. Remembered(db[k])
      BY <1>3 DEF PointersKept
    <2>2. /\ Called(db[k].type)' # {}
          /\ FirstOf(Called(db[k].type)') = FirstOf(Called(db[k].type))
      BY <1>2, <1>3, <2>1, AddKeepsFirst DEF Remembered
    <2>3. QED
      BY <1>3, <1>4, <2>1, <2>2 DEF Remembered
  <1>6. ASSUME NEW c \in called PROVE HandledByFirst(c)'
    <2>1. HandledByFirst(c)
      BY <1>3 DEF PointersKept
    <2>2. QED
      BY <1>2, <2>1, AddKeepsFirst DEF HandledByFirst
  <1>7. QED
    BY <1>3, <1>5, <1>6 DEF PointersKept

LEMMA HandleNextKeepsPointers ==
    ASSUME DriversOwned, PointersKept, HandleNext PROVE PointersKept'
  <1>1. PICK i \in plan :
           /\ IF Live(db[i].driver)
              THEN /\ called' = called \cup
                         {[type |-> db[i].type, target |-> drivers[db[i].driver.at].target]}
                   /\ phase' \in {"handling", "idle"}
              ELSE phase' = "undefined" /\ UNCHANGED called
           /\ plan' = IF phase' = "handling" THEN plan \ {i} ELSE {}
    BY DEF HandleNext
  <1>2. phase = "handling" /\ UNCHANGED <<db, driverVars>>
    BY DEF HandleNext
  <1>3. /\ i \in DOMAIN db /\ plan' \subseteq DOMAIN db
        /\ \A k \in DOMAIN db : Remembered(db[k])
        /\ \A c \in called : HandledByFirst(c)
    BY <1>1, <1>2 DEF PointersKept
  <1>4. Remembered(db[i])
    BY <1>3
  <1>5. (\A k \in DOMAIN db : Remembered(db[k]))'
    BY <1>2, <1>3 DEF Remembered, Live, Called, driverVars
  <1>6. CASE Live(db[i].driver)
    <2> DEFINE new == [type |-> db[i].type, target |-> drivers[db[i].driver.at].target]
    <2>1. HandledByFirst(new)
      BY <1>4 DEF HandledByFirst, Remembered
    <2>2. called' = called \cup {new} /\ phase' \in {"handling", "idle"}
      BY <1>1, <1>6
    <2> HIDE DEF new
    <2>3. (\A c \in called : HandledByFirst(c))'
      BY <1>2, <1>3, <2>1, <2>2 DEF HandledByFirst, Called, driverVars
    <2>4. QED
      BY <1>2, <1>3, <1>5, <2>2, <2>3 DEF PointersKept
  <1>7. CASE ~Live(db[i].driver)
    <2>1. db[i].registered # Len(drivers) /\ db[i].registered \in Nat /\ db[i].registered <= Len(drivers)
      BY <1>4, <1>7 DEF Remembered
    <2>2. Len(drivers) \in Nat
      BY DEF DriversOwned
    <2>3. db'[i].registered < Len(drivers')
      BY <1>2, <2>1, <2>2 DEF driverVars
    <2>4. phase' = "undefined" /\ called' = called
      BY <1>1, <1>7
    <2>5. (\A c \in called : HandledByFirst(c))'
      BY <1>2, <1>3, <2>4 DEF HandledByFirst, Called, driverVars
    <2>6. QED
      BY <1>2, <1>3, <1>5, <2>3, <2>4, <2>5 DEF PointersKept
  <1>8. QED
    BY <1>6, <1>7

LEMMA AddPackageKeepsPointers ==
    ASSUME DriversOwned, PointersKept, AddPackage PROVE PointersKept'
  <1> DEFINE type == Head(packages)
             new == Implementation(type)
  <1>1. phase = "parsing" /\ UNCHANGED <<phase, plan, called, driverVars>>
    BY DEF AddPackage
  <1>2. /\ \A k \in DOMAIN db : Remembered(db[k])
        /\ \A c \in called : HandledByFirst(c)
        /\ plan \subseteq DOMAIN db
    BY <1>1 DEF PointersKept
  <1>3. (\A c \in called : HandledByFirst(c))'
    BY <1>1, <1>2 DEF HandledByFirst, Called, driverVars
  <1>4. PICK S : db \in Seq(S)
    BY DEF PointersKept
  <1>5. CASE Get(type) = NoDriver
    <2>1. db' = db
      BY <1>5 DEF AddPackage
    <2>2. (\A k \in DOMAIN db : Remembered(db[k]))'
      BY <1>1, <1>2, <2>1 DEF Remembered, Live, Called, driverVars
    <2>3. QED
      BY <1>1, <1>2, <1>3, <1>4, <2>1, <2>2 DEF PointersKept
  <1>6. CASE Get(type) # NoDriver
    <2>1. Remembered(new)
      BY <1>6, GetPointsToFirst
    <2>2. db' = Append(db, new)
      BY <1>6 DEF AddPackage
    <2> HIDE DEF new
    <2>3. db \in Seq(S \cup {new}) /\ new \in S \cup {new}
      BY <1>4
    <2>4. db' \in Seq(S \cup {new}) /\ plan' \subseteq DOMAIN db'
      BY <1>1, <1>2, <2>2, <2>3
    <2>5. \A k \in DOMAIN db' : Remembered(db'[k])
      BY <1>2, <2>1, <2>2, <2>3
    <2>6. (\A k \in DOMAIN db : Remembered(db[k]))'
      BY <1>1, <2>5 DEF Remembered, Live, Called, driverVars
    <2>7. QED
      BY <1>1, <1>3, <2>4, <2>6 DEF PointersKept
  <1>7. QED
    BY <1>5, <1>6

LEMMA PointersNext == DriversOwned /\ PointersKept /\ [Next]_vars => PointersKept'
  <1> SUFFICES ASSUME DriversOwned, PointersKept, [Next]_vars PROVE PointersKept'
    OBVIOUS
  <1>1. CASE FreeEngine
    <2>1. drivers' = << >> /\ phase' = "freed" /\ UNCHANGED <<db, plan>>
      BY <1>1 DEF FreeEngine, Clear
    <2>2. QED
      BY <2>1 DEF PointersKept
  <1>2. CASE Restart
    <2>1. /\ drivers' = << >> /\ phase' = "idle" /\ db' = << >> /\ plan' = {} /\ called' = {}
      BY <1>2 DEF Restart, Afresh
    <2>2. DOMAIN db' = {} /\ db' \in Seq({})
      BY <2>1
    <2>3. QED
      BY <2>1, <2>2 DEF PointersKept
  <1>3. CASE Solve
    <2>1. /\ phase = "reading" /\ phase' \in {"idle", "handling"} /\ UNCHANGED <<db, called, driverVars>>
          /\ plan' \subseteq DOMAIN db
      BY <1>3 DEF Solve, PointersKept
    <2>2. QED
      BY <2>1 DEF PointersKept, Remembered, HandledByFirst, Live, Called, driverVars
  <1>4. CASE Run \/ LoadFails \/ ReadFeed \/ EndOfFeed \/ AllHandled \/ Die
    <2>1. /\ phase \in {"idle", "reading", "parsing", "handling"}
          /\ phase' \in {"idle", "reading", "parsing", "dead"}
          /\ UNCHANGED <<db, plan, called, driverVars>>
      BY <1>4 DEF Run, LoadFails, ReadFeed, EndOfFeed, AllHandled, Die, Busy
    <2>2. QED
      BY <2>1 DEF PointersKept, Remembered, HandledByFirst, Live, Called, driverVars
  <1>5. CASE NextFeed \/ Load \/ Others \/ UNCHANGED vars
    <2>1. UNCHANGED <<phase, db, plan, called, driverVars>>
      BY <1>5 DEF NextFeed, Load, Others, vars, sessionVars
    <2>2. QED
      BY <2>1 DEF PointersKept, Remembered, HandledByFirst, Live, Called, driverVars
  <1>6. QED
    BY <1>1, <1>2, <1>3, <1>4, <1>5, AddDriverKeepsPointers, HandleNextKeepsPointers,
       AddPackageKeepsPointers DEF Next, Client, Running

\* What is handled is handled by the driver that was registered first under its type,
\* for any number of drivers of that type (package_handler.hpp:26-38, engine.cpp:179).
THEOREM FirstDriverHandles == Spec => []FirstRegisteredHandles
  <1>1. DriversOwned /\ PointersKept => FirstRegisteredHandles
    BY DEF PointersKept, FirstRegisteredHandles, HandledByFirst, Called
  <1>2. QED
    BY <1>1, OwnersInitially, OwnersNext, PointersInitially, PointersNext, PTL DEF Spec

\* No pointer to a driver dangles but after a driver was registered late
\* (package_handler.hpp:23 and 33).
THEOREM DanglingPointersExplained == Spec => []DanglingNeedsLateDriver
  <1>1. PointersKept => DanglingNeedsLateDriver
    BY DEF PointersKept, DanglingNeedsLateDriver
  <1>2. QED
    BY <1>1, OwnersInitially, OwnersNext, PointersInitially, PointersNext, PTL DEF Spec

(***************************************************************************)
(* The files of the cache.                                                 *)
(***************************************************************************)
PieceSet == [url : Urls \cup {""}, edition : 0 .. Len(Pieces), n : Nat]
DiskFiles == [pieces : Seq(PieceSet), abandoned : BOOLEAN, contended : BOOLEAN, cropped : BOOLEAN]
Loads == [at : {"idle", "open", "transfer", "remove", "have", "failed"}, url : Urls \cup {""},
          inode : Inodes \cup {0}, body : Seq(PieceSet), sent : Nat]

\* What is written is what the server had at some time, and an inode is held as long as
\* there is something to do with the file.
LoadRight(p) ==
    /\ load[p].at # "idle" => load[p].url \in Urls
    /\ load[p].inode # 0 <=> load[p].at \in {"transfer", "remove"}
    /\ load[p].at # "transfer" => load[p].sent = 0
    /\ load[p].at = "transfer" =>
          /\ load[p].sent <= Len(load[p].body)
          /\ \E e \in 0 .. edition[load[p].url] : load[p].body = Body(load[p].url, e)

CacheTyped ==
    /\ edition \in [Urls -> 1 .. Len(Pieces)]
    /\ dir \in [Names -> Inodes \cup {0}]
    /\ disk \in [Inodes -> DiskFiles]
    /\ load \in [Procs -> Loads]
    /\ \A p \in Procs : LoadRight(p)

\* A file has one name, and who holds it holds it for that name.
Linked ==
    \A n \in Names, i \in Inodes : dir[n] = i =>
        /\ \A m \in Names : dir[m] = i => m = n
        /\ \A p \in Procs : load[p].inode = i => File(p) = n

\* The page of an error at the head of a file.
PageFirst(pieces, u) == Len(pieces) > 0 /\ pieces[1] = Piece(u, 0, 1)

\* All that q has sent is in the file, or the page of an error is.
Covers(q, pieces, u) ==
    /\ load[q].sent <= Len(pieces)
    /\ \A k \in 1 .. load[q].sent : pieces[k] = load[q].body[k] \/ (k = 1 /\ PageFirst(pieces, u))

\* The file holds pieces of one edition, at their places, and perhaps a page; and it is
\* whole, or has a page, or somebody is about to fill its holes.
OneEdition(i, u, e) ==
    LET pieces == disk[i].pieces IN
    /\ \A q \in Writers(i) : load[q].body \in {Body(u, e), Body(u, 0)}
    /\ Len(pieces) <= Pieces[e]
    /\ \A k \in 1 .. Len(pieces) : pieces[k] \in {Hole, Piece(u, e, k)} \/ (k = 1 /\ PageFirst(pieces, u))
    /\ pieces = Body(u, e) \/ PageFirst(pieces, u) \/ \E q \in Writers(i) : Covers(q, pieces, u)

Removers(i) == {p \in Procs : load[p].at = "remove" /\ load[p].inode = i}

Explained(i, n) ==
    \/ disk[i].abandoned \/ disk[i].cropped
    \/ disk[i].contended /\ Unsettled(n)
    \/ Removers(i) # {}
    \/ /\ disk[i].contended \/ \A q, r \in Writers(i) : q = r
       /\ \E u \in Urls, e \in 1 .. Len(Pieces) : FileName[u] = n /\ OneEdition(i, u, e)

FilesExplained == \A n \in Names, i \in Inodes : dir[n] = i => Explained(i, n)

CacheInv == CacheTyped /\ Linked /\ FilesExplained

LEMMA MaxOfTwo ==
    ASSUME NEW a \in Nat, NEW b \in Nat
    PROVE  Max({a, b}) = IF a < b THEN b ELSE a
  <1> DEFINE m == IF a < b THEN b ELSE a
  <1>1. m \in {a, b} /\ \A y \in {a, b} : m >= y
    OBVIOUS
  <1>2. \A x \in {a, b} : (\A y \in {a, b} : x >= y) => x = m
    OBVIOUS
  <1> HIDE DEF m
  <1>3. QED
    BY <1>1, <1>2 DEF Max

LEMMA MinOfNat ==
    ASSUME NEW S \in SUBSET Nat, S # {}
    PROVE  Min(S) \in S
  <1>1. PICK i \in S : \A k \in S : ~(k < i)
    BY LeastNumber
  <1>2. \A k \in S : i <= k
    BY <1>1
  <1>3. QED
    BY <1>2 DEF Min

LEMMA HolePiece == Hole \in PieceSet
  <1>1. Len(Pieces) \in Nat
    BY CacheAssumption
  <1>2. QED
    BY <1>1 DEF Hole, Piece, PieceSet

LEMMA PieceTyped ==
    ASSUME NEW u \in Urls, NEW e \in 0 .. Len(Pieces), NEW k \in Nat
    PROVE  Piece(u, e, k) \in PieceSet
  <1> DEFINE V == Urls \cup {""}
             D == 0 .. Len(Pieces)
  <1>1. u \in V /\ e \in D
    OBVIOUS
  <1>2. PieceSet = [url : V, edition : D, n : Nat]
    BY DEF PieceSet
  <1> HIDE DEF V, D
  <1>3. QED
    BY <1>1, <1>2 DEF Piece

\* What is sent, in its order.
LEMMA BodyFacts ==
    ASSUME NEW u \in Urls, NEW e \in 0 .. Len(Pieces)
    PROVE  /\ Body(u, e) \in Seq(PieceSet) /\ Len(Body(u, e)) \in Nat
           /\ Len(Body(u, e)) = (IF e = 0 THEN 1 ELSE Pieces[e])
           /\ Len(Body(u, e)) > 0
           /\ DOMAIN Body(u, e) = 1 .. Len(Body(u, e))
           /\ \A k \in 1 .. Len(Body(u, e)) : Body(u, e)[k] = Piece(u, e, k)
  <1>1. Len(Pieces) \in Nat /\ \A d \in 1 .. Len(Pieces) : Pieces[d] \in Nat /\ Pieces[d] > 0
    BY CacheAssumption
  <1>2. CASE e = 0
    <2>1. Body(u, e) = << Piece(u, 0, 1) >>
      BY <1>2 DEF Body
    <2>2. Piece(u, 0, 1) \in PieceSet
      <3>1. 0 \in 0 .. Len(Pieces) /\ 1 \in Nat
        BY <1>1
      <3>2. QED
        BY <3>1, PieceTyped
    <2> DEFINE x == Piece(u, 0, 1)
    <2>3. Body(u, e) = << x >> /\ x \in PieceSet /\ x = Piece(u, e, 1)
      BY <1>2, <2>1, <2>2
    <2> HIDE DEF x
    <2>4. << x >> \in Seq(PieceSet) /\ Len(<< x >>) = 1 /\ DOMAIN << x >> = 1 .. 1 /\ << x >>[1] = x
      BY <2>3
    <2>5. Body(u, e) \in Seq(PieceSet) /\ Len(Body(u, e)) = 1 /\ DOMAIN Body(u, e) = 1 .. 1
          /\ Body(u, e)[1] = Piece(u, e, 1)
      BY ONLY <2>3, <2>4
    <2>6. \A k \in 1 .. 1 : k = 1
      OBVIOUS
    <2>7. \A k \in 1 .. 1 : Body(u, e)[k] = Piece(u, e, k)
      BY ONLY <2>5, <2>6
    <2>8. QED
      BY ONLY <1>2, <2>5, <2>7
  <1>3. CASE e # 0
    <2> DEFINE m == Pieces[e]
    <2>1. m \in Nat /\ m > 0
      BY <1>1, <1>3
    <2>2. Body(u, e) = [k \in 1 .. m |-> Piece(u, e, k)]
      BY <1>3 DEF Body
    <2>3. \A k \in 1 .. m : Piece(u, e, k) \in PieceSet
      BY <2>1, PieceTyped
    <2> HIDE DEF m
    <2>4. [k \in 1 .. m |-> Piece(u, e, k)] \in Seq(PieceSet)
      BY <2>1, <2>3
    <2>5. Len(Body(u, e)) = m /\ DOMAIN Body(u, e) = 1 .. m
      BY <2>1, <2>2
    <2>6. QED
      BY <1>3, <2>1, <2>2, <2>4, <2>5 DEF m
  <1>4. QED
    BY <1>2, <1>3

\* A piece is put at its place, behind holes if there was nothing before it.
IsWritten(w, pieces, n, piece) ==
    LET m == IF Len(pieces) < n THEN n ELSE Len(pieces) IN
    /\ w \in Seq(PieceSet) /\ Len(w) = m
    /\ w[n] = piece
    /\ \A k \in 1 .. Len(pieces) : k # n => w[k] = pieces[k]
    /\ \A k \in 1 .. m : (k # n /\ k > Len(pieces)) => w[k] = Hole

LEMMA WrittenFacts ==
    ASSUME NEW pieces \in Seq(PieceSet), NEW n \in Nat \ {0}, NEW piece \in PieceSet
    PROVE  IsWritten(Written(pieces, n, piece), pieces, n, piece)
  <1> DEFINE l == Len(pieces)
             m == IF l < n THEN n ELSE l
             w == Written(pieces, n, piece)
             at(k) == IF k = n THEN piece ELSE IF k <= l THEN pieces[k] ELSE Hole
  <1>1. l \in Nat /\ m \in Nat /\ n \in 1 .. m /\ \A k \in 1 .. l : k \in 1 .. m /\ k <= l
    OBVIOUS
  <1>2. \A k \in 1 .. l : pieces[k] \in PieceSet
    OBVIOUS
  <1>3. w = [k \in 1 .. m |-> at(k)]
    BY <1>1, MaxOfTwo DEF Written
  <1>4. ASSUME NEW k \in 1 .. m PROVE at(k) \in PieceSet
    <2>1. k <= l => k \in 1 .. l
      BY <1>1
    <2>2. QED
      BY <1>2, <2>1, HolePiece
  <1> HIDE DEF m, l
  <1>5. [k \in 1 .. m |-> at(k)] \in Seq(PieceSet)
    BY <1>1, <1>4
  <1>6. Len(w) = m /\ \A k \in 1 .. m : w[k] = at(k)
    BY <1>1, <1>3
  <1>7. \A k \in 1 .. m : k > l => ~(k <= l)
    BY <1>1
  <1> HIDE DEF w
  <1>8. QED
    BY <1>1, <1>3, <1>5, <1>6, <1>7 DEF m, l, w, IsWritten

\* A process that needs another inode finds one.
LEMMA FreeExists ==
    ASSUME CacheTyped, NEW p \in Procs, load[p].inode = 0
    PROVE  \E i \in Inodes : Free(i)
  <1> DEFINE A == {dir[n] : n \in Names}
             Q == Procs \ {p}
             B == {load[q].inode : q \in Q}
             c == Cardinality(Names)
             d == Cardinality(Procs)
  <1>1. IsFiniteSet(Names) /\ IsFiniteSet(Procs) /\ IsFiniteSet(Q)
        /\ c \in Nat /\ d \in Nat /\ Cardinality(Q) = d - 1
    <2>1. IsFiniteSet(Procs) /\ IsFiniteSet(Urls)
      BY CacheAssumption
    <2> DEFINE f == [u \in Urls |-> FileName[u]]
    <2>2. f \in Surjection(Urls, Names)
      BY DEF Surjection, Names
    <2> HIDE DEF f
    <2>3. IsFiniteSet(Names)
      BY <2>1, <2>2, FS_Surjection
    <2>4. IsFiniteSet(Q) /\ Cardinality(Q) = d - 1
      BY <2>1, FS_RemoveElement
    <2>5. QED
      BY <2>1, <2>3, <2>4, FS_CardinalityType
  <1>2. IsFiniteSet(A) /\ Cardinality(A) <= c
    <2> DEFINE f == [n \in Names |-> dir[n]]
    <2>1. f \in Surjection(Names, A)
      BY DEF Surjection
    <2> HIDE DEF f, A
    <2>2. QED
      BY <1>1, <2>1, FS_Surjection
  <1>3. IsFiniteSet(B) /\ Cardinality(B) <= d - 1
    <2> DEFINE f == [q \in Q |-> load[q].inode]
    <2>1. f \in Surjection(Q, B)
      BY DEF Surjection
    <2> HIDE DEF f, B, Q
    <2>2. QED
      BY <1>1, <2>1, FS_Surjection
  <1>4. IsFiniteSet(A \cup B) /\ Cardinality(A \cup B) <= c + d - 1
    <2> HIDE DEF A, B, c, d
    <2>1. IsFiniteSet(A \cap B) /\ IsFiniteSet(A \cup B)
          /\ Cardinality(A \cup B) = Cardinality(A) + Cardinality(B) - Cardinality(A \cap B)
      BY <1>2, <1>3, FS_Union, FS_Intersection
    <2>2. Cardinality(A \cap B) \in Nat /\ Cardinality(A) \in Nat /\ Cardinality(B) \in Nat
      BY <1>2, <1>3, <2>1, FS_CardinalityType
    <2>3. QED
      BY <1>1, <1>2, <1>3, <2>1, <2>2
  <1>5. Cardinality(Inodes) = c + d
    <2>1. Inodes = 1 .. c + d
      BY DEF Inodes
    <2> HIDE DEF c, d
    <2>2. QED
      BY <1>1, <2>1, FS_Interval
  <1>6. ~(Inodes \subseteq A \cup B)
    <2> SUFFICES ASSUME Inodes \subseteq A \cup B PROVE FALSE
      OBVIOUS
    <2> HIDE DEF A, B, c, d
    <2>1. Cardinality(Inodes) <= Cardinality(A \cup B)
      BY <1>4, FS_Subset
    <2>2. Cardinality(A \cup B) \in Nat
      BY <1>4, FS_CardinalityType
    <2>3. QED
      BY <1>1, <1>4, <1>5, <2>1, <2>2
  <1>7. PICK i \in Inodes : i \notin A /\ i \notin B
    BY <1>6
  <1>8. i # 0
    <2>1. c + d \in Nat
      BY <1>1
    <2>2. QED
      BY <2>1 DEF Inodes
  <1>9. Free(i)
    BY <1>7, <1>8 DEF Free
  <1>10. QED
    BY <1>9

(***************************************************************************)
(* What a step does to a call of download.                                 *)
(***************************************************************************)
OthersStay(p) == \A q \in Procs \ {p} : load'[q] = load[q]

LEMMA LoadTyped ==
    ASSUME CacheTyped, NEW p \in Procs
    PROVE  /\ load[p].at \in {"idle", "open", "transfer", "remove", "have", "failed"}
           /\ load[p].url \in Urls \cup {""} /\ load[p].inode \in Inodes \cup {0}
           /\ load[p].body \in Seq(PieceSet) /\ load[p].sent \in Nat
           /\ load[p] \in Loads /\ LoadRight(p)
  <1> DEFINE V == Urls \cup {""}
             I == Inodes \cup {0}
             A == {"idle", "open", "transfer", "remove", "have", "failed"}
             S == Seq(PieceSet)
  <1>1. load[p] \in Loads /\ LoadRight(p)
    BY DEF CacheTyped
  <1>2. Loads = [at : A, url : V, inode : I, body : S, sent : Nat]
    BY DEF Loads
  <1> HIDE DEF A, V, I, S
  <1>3. load[p].at \in A /\ load[p].url \in V /\ load[p].inode \in I /\ load[p].body \in S
        /\ load[p].sent \in Nat
    BY <1>1, <1>2
  <1>4. QED
    BY <1>1, <1>3 DEF A, V, I, S

\* A call of download is replaced by one of these parts.
IsCall(r, at, url, inode, body, sent) ==
    /\ r \in Loads
    /\ r.at = at /\ r.url = url /\ r.inode = inode /\ r.body = body /\ r.sent = sent

Moves(p, at, url, inode, body, sent) ==
    /\ load' \in [Procs -> Loads] /\ OthersStay(p)
    /\ IsCall(load'[p], at, url, inode, body, sent)

LEMMA LoadReplaced ==
    ASSUME CacheTyped, NEW p \in Procs, NEW r, NEW at, NEW url, NEW inode, NEW body, NEW sent,
           IsCall(r, at, url, inode, body, sent), load' = [load EXCEPT ![p] = r]
    PROVE  Moves(p, at, url, inode, body, sent)
  <1>1. load \in [Procs -> Loads] /\ r \in Loads
    BY DEF CacheTyped, IsCall
  <1>2. load' \in [Procs -> Loads] /\ load'[p] = r /\ OthersStay(p)
    BY <1>1 DEF OthersStay
  <1>3. QED
    BY <1>2 DEF Moves

LEMMA EmptyBody == << >> \in Seq(PieceSet)
  OBVIOUS

\* The changes that the actions make to a call.
LEMMA CallChanges ==
    ASSUME NEW l \in Loads, NEW u \in Urls \cup {""}, NEW i \in Inodes \cup {0},
           NEW b \in Seq(PieceSet), NEW n \in Nat,
           NEW a \in {"idle", "open", "transfer", "remove", "have", "failed"}
    PROVE  /\ IsCall(NoLoad, "idle", "", 0, << >>, 0)
           /\ IsCall([NoLoad EXCEPT !.url = u, !.at = a], a, u, 0, << >>, 0)
           /\ IsCall([NoLoad EXCEPT !.at = "have", !.url = u], "have", u, 0, << >>, 0)
           /\ IsCall([l EXCEPT !.sent = n], l.at, l.url, l.inode, l.body, n)
           /\ IsCall([l EXCEPT !.at = "transfer", !.inode = i, !.body = b],
                     "transfer", l.url, i, b, l.sent)
           /\ IsCall([l EXCEPT !.at = "remove", !.body = << >>, !.sent = 0],
                     "remove", l.url, l.inode, << >>, 0)
           /\ IsCall([l EXCEPT !.at = "failed", !.inode = 0], "failed", l.url, 0, l.body, l.sent)
  <1> DEFINE V == Urls \cup {""}
             I == Inodes \cup {0}
             A == {"idle", "open", "transfer", "remove", "have", "failed"}
             S == Seq(PieceSet)
  <1>1. Loads = [at : A, url : V, inode : I, body : S, sent : Nat]
    BY DEF Loads
  <1>2. /\ "idle" \in A /\ "transfer" \in A /\ "remove" \in A /\ "have" \in A /\ "failed" \in A /\ a \in A
        /\ u \in V /\ "" \in V /\ i \in I /\ 0 \in I /\ b \in S /\ << >> \in S
    <2>1. /\ "idle" \in A /\ "transfer" \in A /\ "remove" \in A /\ "have" \in A /\ "failed" \in A
          /\ a \in A
      OBVIOUS
    <2>2. u \in V /\ "" \in V /\ i \in I /\ 0 \in I
      OBVIOUS
    <2>3. b \in S
      OBVIOUS
    <2>4. << >> \in S
      BY EmptyBody
    <2>5. QED
      BY <2>1, <2>2, <2>3, <2>4
  <1> HIDE DEF A, V, I, S
  <1>3. l.at \in A /\ l.url \in V /\ l.inode \in I /\ l.body \in S /\ l.sent \in Nat
    BY <1>1
  <1>4. IsCall(NoLoad, "idle", "", 0, << >>, 0)
    BY <1>1, <1>2 DEF IsCall, NoLoad
  <1>5. IsCall([NoLoad EXCEPT !.url = u, !.at = a], a, u, 0, << >>, 0)
    BY <1>1, <1>2 DEF IsCall, NoLoad
  <1>6. IsCall([NoLoad EXCEPT !.at = "have", !.url = u], "have", u, 0, << >>, 0)
    BY <1>1, <1>2 DEF IsCall, NoLoad
  <1>7. IsCall([l EXCEPT !.sent = n], l.at, l.url, l.inode, l.body, n)
    BY <1>1, <1>2, <1>3 DEF IsCall
  <1>8. IsCall([l EXCEPT !.at = "transfer", !.inode = i, !.body = b], "transfer", l.url, i, b, l.sent)
    BY <1>1, <1>2, <1>3 DEF IsCall
  <1>9. IsCall([l EXCEPT !.at = "remove", !.body = << >>, !.sent = 0],
               "remove", l.url, l.inode, << >>, 0)
    BY <1>1, <1>2, <1>3 DEF IsCall
  <1>10. IsCall([l EXCEPT !.at = "failed", !.inode = 0], "failed", l.url, 0, l.body, l.sent)
    BY <1>1, <1>2, <1>3 DEF IsCall
  <1>11. QED
    BY <1>4, <1>5, <1>6, <1>7, <1>8, <1>9, <1>10

LEMMA RequestMoves ==
    ASSUME CacheTyped, NEW p \in Procs, NEW u \in Urls, NEW force, Request(p, u, force)
    PROVE  \E at \in {"open", "have"} : Moves(p, at, u, 0, << >>, 0)
  <1> DEFINE at == IF force \/ dir[FileName[u]] = 0 THEN "open" ELSE "have"
             r == [NoLoad EXCEPT !.url = u, !.at = at]
  <1>1. load' = [load EXCEPT ![p] = r]
    BY DEF Request
  <1>2. at \in {"open", "have"} /\ at \in {"idle", "open", "transfer", "remove", "have", "failed"}
    OBVIOUS
  <1> HIDE DEF at
  <1>3. IsCall(r, at, u, 0, << >>, 0)
    BY <1>2, LoadTyped, CallChanges
  <1> HIDE DEF r
  <1>4. Moves(p, at, u, 0, << >>, 0)
    BY <1>1, <1>3, LoadReplaced
  <1>5. QED
    BY <1>2, <1>4

LEMMA IdleMoves ==
    ASSUME CacheTyped, NEW p \in Procs, load' = [load EXCEPT ![p] = NoLoad]
    PROVE  Moves(p, "idle", "", 0, << >>, 0)
  <1>1. IsCall(NoLoad, "idle", "", 0, << >>, 0)
    BY LoadTyped, CallChanges
  <1>2. QED
    BY <1>1, LoadReplaced

LEMMA ReceiveMoves ==
    ASSUME CacheTyped, NEW p \in Procs, Receive(p)
    PROVE  Moves(p, "transfer", load[p].url, load[p].inode, load[p].body, load[p].sent + 1)
  <1> DEFINE n == load[p].sent + 1
             r == [load[p] EXCEPT !.sent = n]
  <1>1. load[p].at = "transfer" /\ load' = [load EXCEPT ![p] = r]
    BY DEF Receive
  <1>2. n \in Nat
    <2>1. load[p].sent \in Nat /\ load[p].body \in Seq(PieceSet)
      BY LoadTyped
    <2>2. QED
      BY <2>1
  <1> HIDE DEF n
  <1>3. IsCall(r, load[p].at, load[p].url, load[p].inode, load[p].body, n)
    BY <1>2, LoadTyped, CallChanges
  <1> HIDE DEF r
  <1>4. Moves(p, load[p].at, load[p].url, load[p].inode, load[p].body, n)
    BY <1>1, <1>3, LoadReplaced
  <1>5. QED
    BY <1>1, <1>4 DEF n

LEMMA DiskFullMoves ==
    ASSUME CacheTyped, NEW p \in Procs, DiskFull(p)
    PROVE  Moves(p, "transfer", load[p].url, load[p].inode, load[p].body, Len(load[p].body))
  <1> DEFINE n == Len(load[p].body)
             r == [load[p] EXCEPT !.sent = n]
  <1>1. load[p].at = "transfer" /\ load' = [load EXCEPT ![p] = r]
    BY DEF DiskFull
  <1>2. n \in Nat
    <2>1. load[p].sent \in Nat /\ load[p].body \in Seq(PieceSet)
      BY LoadTyped
    <2>2. QED
      BY <2>1
  <1> HIDE DEF n
  <1>3. IsCall(r, load[p].at, load[p].url, load[p].inode, load[p].body, n)
    BY <1>2, LoadTyped, CallChanges
  <1> HIDE DEF r
  <1>4. Moves(p, load[p].at, load[p].url, load[p].inode, load[p].body, n)
    BY <1>1, <1>3, LoadReplaced
  <1>5. QED
    BY <1>1, <1>4 DEF n

LEMMA CompleteMoves ==
    ASSUME CacheTyped, NEW p \in Procs, Complete(p)
    PROVE  Moves(p, "have", load[p].url, 0, << >>, 0)
  <1> DEFINE r == [NoLoad EXCEPT !.at = "have", !.url = load[p].url]
  <1>1. load' = [load EXCEPT ![p] = r]
    BY DEF Complete
  <1>2. IsCall(r, "have", load[p].url, 0, << >>, 0)
    BY LoadTyped, CallChanges
  <1> HIDE DEF r
  <1>3. QED
    BY <1>1, <1>2, LoadReplaced

LEMMA BreakMoves ==
    ASSUME CacheTyped, NEW p \in Procs, Break(p)
    PROVE  Moves(p, "remove", load[p].url, load[p].inode, << >>, 0)
  <1> DEFINE r == [load[p] EXCEPT !.at = "remove", !.body = << >>, !.sent = 0]
  <1>1. load' = [load EXCEPT ![p] = r]
    BY DEF Break
  <1>2. IsCall(r, "remove", load[p].url, load[p].inode, << >>, 0)
    BY LoadTyped, CallChanges
  <1> HIDE DEF r
  <1>3. QED
    BY <1>1, <1>2, LoadReplaced

LEMMA UnlinkMoves ==
    ASSUME CacheTyped, NEW p \in Procs, Unlink(p)
    PROVE  Moves(p, "failed", load[p].url, 0, load[p].body, 0)
  <1> DEFINE r == [load[p] EXCEPT !.at = "failed", !.inode = 0]
  <1>1. load[p].at = "remove" /\ load' = [load EXCEPT ![p] = r]
    BY DEF Unlink
  <1>2. load[p].sent = 0
    BY <1>1, LoadTyped DEF LoadRight
  <1>3. IsCall(r, "failed", load[p].url, 0, load[p].body, load[p].sent)
    BY LoadTyped, CallChanges
  <1> HIDE DEF r
  <1>4. QED
    BY <1>1, <1>2, <1>3, LoadReplaced

\* Where a process writes: to the file there is, or to a new one.
LEMMA OpenMoves ==
    ASSUME CacheTyped, NEW p \in Procs, Open(p)
    PROVE  \E i \in Inodes, e \in {0, edition[load[p].url]} :
              /\ Moves(p, "transfer", load[p].url, i, Body(load[p].url, e), 0)
              /\ i = dir[File(p)] \/ (dir[File(p)] = 0 /\ Free(i))
              /\ dir' = [dir EXCEPT ![File(p)] = i]
              /\ disk' = [disk EXCEPT ![i] =
                    [pieces |-> << >>, abandoned |-> FALSE, contended |-> Writers(i) # {}, cropped |-> FALSE]]
              /\ UNCHANGED edition
  <1> DEFINE S == {k \in Inodes : Free(k)}
             i == IF dir[File(p)] # 0 THEN dir[File(p)] ELSE Min(S)
  <1>1. load[p].at = "open"
    BY DEF Open
  <1>2. load[p].url \in Urls /\ load[p].inode = 0 /\ load[p].sent = 0
    BY <1>1, LoadTyped DEF LoadRight
  <1>3. PICK page \in BOOLEAN :
           LET sends == Body(load[p].url, IF page THEN 0 ELSE edition[load[p].url])
           IN /\ dir' = [dir EXCEPT ![File(p)] = i]
              /\ disk' = [disk EXCEPT ![i] =
                    [pieces |-> IF dir[File(p)] # 0 THEN Truncated(@.pieces) ELSE << >>,
                     abandoned |-> FALSE, contended |-> Writers(i) # {}, cropped |-> FALSE]]
              /\ load' = [load EXCEPT ![p] = [@ EXCEPT !.at = "transfer", !.inode = i, !.body = sends]]
    BY DEF Open
  <1> DEFINE e == IF page THEN 0 ELSE edition[load[p].url]
  <1>4. File(p) \in Names
    BY <1>2 DEF File, Names
  <1>5. i \in Inodes /\ (i = dir[File(p)] \/ (dir[File(p)] = 0 /\ Free(i)))
    <2>1. CASE dir[File(p)] # 0
      BY <1>4, <2>1 DEF CacheTyped
    <2>2. CASE dir[File(p)] = 0
      <3>1. S # {}
        BY <1>2, FreeExists
      <3>2. S \subseteq Nat /\ \A k \in S : k \in Inodes /\ Free(k)
        BY DEF Inodes
      <3> HIDE DEF S
      <3>3. Min(S) \in S
        BY <3>1, <3>2, MinOfNat
      <3>4. QED
        BY <2>2, <3>2, <3>3
    <2>3. QED
      BY <2>1, <2>2
  <1>6. e \in {0, edition[load[p].url]} /\ e \in 0 .. Len(Pieces)
    <2>1. edition[load[p].url] \in 1 .. Len(Pieces) /\ Len(Pieces) \in Nat
      BY <1>2, CacheAssumption DEF CacheTyped
    <2>2. QED
      BY <2>1
  <1> HIDE DEF i, e
  <1>7. disk' = [disk EXCEPT ![i] =
            [pieces |-> << >>, abandoned |-> FALSE, contended |-> Writers(i) # {}, cropped |-> FALSE]]
    BY <1>3 DEF Truncated, i
  <1> DEFINE r == [load[p] EXCEPT !.at = "transfer", !.inode = i, !.body = Body(load[p].url, e)]
  <1>8. load' = [load EXCEPT ![p] = r]
    BY <1>3 DEF i, e
  <1>9. Body(load[p].url, e) \in Seq(PieceSet)
    BY <1>2, <1>6, BodyFacts
  <1>10. dir' = [dir EXCEPT ![File(p)] = i] /\ UNCHANGED edition
    BY <1>3 DEF Open, i
  <1>11. Moves(p, "transfer", load[p].url, i, Body(load[p].url, e), 0)
    <2>1. IsCall(r, "transfer", load[p].url, i, Body(load[p].url, e), load[p].sent)
      BY <1>5, <1>9, LoadTyped, CallChanges
    <2> HIDE DEF r
    <2>2. QED
      BY <1>2, <1>8, <2>1, LoadReplaced
  <1>12. QED
    BY <1>5, <1>6, <1>7, <1>10, <1>11

(***************************************************************************)
(* What the steps keep.                                                    *)
(***************************************************************************)
LEMMA InodesPositive == 0 \notin Inodes /\ Inodes \subseteq Nat
  <1>1. \A i \in Inodes : i \in Nat /\ i >= 1
    BY DEF Inodes
  <1>2. QED
    BY <1>1

\* The types, if one call moves and the rest is of its type.
LEMMA TypedAfter ==
    ASSUME CacheTyped, NEW p \in Procs, NEW at, NEW url, NEW inode, NEW body, NEW sent,
           Moves(p, at, url, inode, body, sent),
           edition' = edition, dir' \in [Names -> Inodes \cup {0}], disk' \in [Inodes -> DiskFiles],
           at # "idle" => url \in Urls,
           inode # 0 <=> at \in {"transfer", "remove"},
           at # "transfer" => sent = 0,
           at = "transfer" => /\ sent <= Len(body)
                              /\ \E e \in 0 .. edition[url] : body = Body(url, e)
    PROVE  CacheTyped'
  <1>1. LoadRight(p)'
    BY DEF Moves, IsCall, LoadRight
  <1>2. ASSUME NEW q \in Procs PROVE LoadRight(q)'
    <2>1. CASE q = p
      BY <1>1, <2>1
    <2>2. CASE q # p
      <3>1. load'[q] = load[q] /\ LoadRight(q)
        BY <2>2 DEF CacheTyped, Moves, OthersStay
      <3>2. QED
        BY <3>1 DEF LoadRight
    <2>3. QED
      BY <2>1, <2>2
  <1>3. load' \in [Procs -> Loads]
    BY DEF Moves
  <1>4. QED
    BY <1>2, <1>3 DEF CacheTyped

\* Names go, and a process lets go of its file or keeps it.
LEMMA LinkedAfter ==
    ASSUME CacheTyped, Linked, NEW p \in Procs, NEW at, NEW url, NEW inode, NEW body, NEW sent,
           Moves(p, at, url, inode, body, sent),
           inode = 0 \/ (inode = load[p].inode /\ url = load[p].url),
           \A n \in Names : dir'[n] \in {0, dir[n]}
    PROVE  Linked'
  <1> SUFFICES ASSUME NEW n \in Names, NEW i \in Inodes, dir'[n] = i
               PROVE  /\ \A m \in Names : dir'[m] = i => m = n
                      /\ \A q \in Procs : load'[q].inode = i => File(q)' = n
    BY DEF Linked
  <1>1. i # 0
    BY InodesPositive
  <1>2. dir[n] = i
    BY <1>1
  <1>3. /\ \A m \in Names : dir[m] = i => m = n
        /\ \A q \in Procs : load[q].inode = i => File(q) = n
    BY <1>2 DEF Linked
  <1>4. \A m \in Names : dir'[m] = i => m = n
    BY <1>1, <1>3
  <1>5. ASSUME NEW q \in Procs, load'[q].inode = i PROVE File(q)' = n
    <2>1. CASE q = p
      BY <1>1, <1>3, <1>5, <2>1 DEF Moves, IsCall, File
    <2>2. CASE q # p
      BY <1>3, <1>5, <2>2 DEF Moves, OthersStay, File
    <2>3. QED
      BY <2>1, <2>2
  <1>6. QED
    BY <1>4, <1>5

\* Editions only come to be.
LEMMA UnsettledStays ==
    ASSUME CacheTyped, NEW n, \A u \in Urls : edition'[u] >= edition[u] /\ edition'[u] \in Nat,
           Unsettled(n)
    PROVE  Unsettled(n)'
  <1>1. PICK u \in Urls, v \in Urls :
           FileName[u] = n /\ FileName[v] = n /\ (u # v \/ edition[u] > 1)
    BY DEF Unsettled
  <1>2. edition[u] \in 1 .. Len(Pieces) /\ Len(Pieces) \in Nat
    BY CacheAssumption DEF CacheTyped
  <1>3. edition[u] > 1 => edition'[u] > 1
    BY <1>2
  <1>4. QED
    BY <1>1, <1>3 DEF Unsettled

\* A file is what it was if neither it nor the calls that write it have changed.
LEMMA ExplainedStays ==
    ASSUME NEW p \in Procs, OthersStay(p), NEW i \in Inodes, NEW n,
           load[p].inode # i, load'[p].inode # i, disk'[i] = disk[i],
           Unsettled(n) => Unsettled(n)', Explained(i, n)
    PROVE  Explained(i, n)'
  <1>1. \A q \in Procs : load[q].inode = i \/ load'[q].inode = i => load'[q] = load[q]
    BY DEF OthersStay
  <1>2. Writers(i)' = Writers(i) /\ Removers(i)' = Removers(i)
    BY <1>1 DEF Writers, Removers
  <1>3. \A q \in Writers(i) : load'[q] = load[q]
    BY <1>1 DEF Writers
  <1>4. ASSUME NEW u, NEW e, OneEdition(i, u, e) PROVE OneEdition(i, u, e)'
    BY <1>2, <1>3, <1>4 DEF OneEdition, Covers
  <1>5. QED
    BY <1>2, <1>4 DEF Explained

\* A step in which a call without a file begins or ends.
LEMMA NothingWritten ==
    ASSUME CacheInv, NEW p \in Procs, NEW at, NEW url, NEW inode, NEW body, NEW sent,
           Moves(p, at, url, inode, body, sent),
           load[p].inode = 0, inode = 0, sent = 0, at \in {"idle", "open", "have"},
           at # "idle" => url \in Urls,
           UNCHANGED <<edition, dir, disk>>
    PROVE  CacheInv'
  <1>1. /\ dir' \in [Names -> Inodes \cup {0}] /\ disk' \in [Inodes -> DiskFiles]
        /\ edition' = edition /\ \A n \in Names : dir'[n] = dir[n]
    BY DEF CacheInv, CacheTyped
  <1>2. CacheTyped'
    BY <1>1, TypedAfter DEF CacheInv
  <1>3. Linked'
    BY <1>1, LinkedAfter DEF CacheInv
  <1>4. ASSUME NEW n \in Names, NEW i \in Inodes, dir'[n] = i PROVE Explained(i, n)'
    <2>1. Explained(i, n) /\ i # 0
      BY <1>4, InodesPositive DEF CacheInv, FilesExplained
    <2>2. load'[p].inode = 0 /\ OthersStay(p)
      BY DEF Moves, IsCall
    <2>3. Unsettled(n) => Unsettled(n)'
      BY DEF Unsettled
    <2>4. QED
      BY <2>1, <2>2, <2>3, ExplainedStays
  <1>5. QED
    BY <1>2, <1>3, <1>4 DEF CacheInv, FilesExplained

LEMMA RequestKeeps ==
    ASSUME CacheInv, NEW p \in Procs, NEW u \in Urls, NEW force, Request(p, u, force)
    PROVE  CacheInv'
  <1>1. PICK at \in {"open", "have"} : Moves(p, at, u, 0, << >>, 0)
    BY RequestMoves DEF CacheInv
  <1>2. load[p].at = "idle" /\ UNCHANGED <<edition, dir, disk>>
    BY DEF Request
  <1>3. load[p].inode = 0
    BY <1>2, LoadTyped DEF LoadRight, CacheInv
  <1>4. QED
    BY <1>1, <1>2, <1>3, NothingWritten

LEMMA ReturnKeeps ==
    ASSUME CacheInv, NEW p \in Procs, Return(p)
    PROVE  CacheInv'
  <1>1. Moves(p, "idle", "", 0, << >>, 0)
    BY IdleMoves DEF CacheInv, Return
  <1>2. load[p].at \in {"have", "failed"} /\ UNCHANGED <<edition, dir, disk>>
    BY DEF Return
  <1>3. load[p].inode = 0
    BY <1>2, LoadTyped DEF LoadRight, CacheInv
  <1>4. QED
    BY <1>1, <1>2, <1>3, NothingWritten

\* A name is taken away, by a process that will not write any more (url_curl.cpp:75-78).
LEMMA UnlinkKeeps ==
    ASSUME CacheInv, NEW p \in Procs, Unlink(p)
    PROVE  CacheInv'
  <1>1. Moves(p, "failed", load[p].url, 0, load[p].body, 0)
    BY UnlinkMoves DEF CacheInv
  <1>2. /\ load[p].at = "remove" /\ dir' = [dir EXCEPT ![File(p)] = 0]
        /\ UNCHANGED <<edition, disk>>
    BY DEF Unlink
  <1>3. load[p].url \in Urls
    BY <1>2, LoadTyped DEF LoadRight, CacheInv
  <1>4. /\ dir' \in [Names -> Inodes \cup {0}] /\ disk' \in [Inodes -> DiskFiles]
        /\ \A n \in Names : dir'[n] = IF n = File(p) THEN 0 ELSE dir[n]
    BY <1>2 DEF CacheInv, CacheTyped
  <1>5. CacheTyped'
    BY <1>1, <1>2, <1>3, <1>4, TypedAfter DEF CacheInv
  <1>6. Linked'
    BY <1>1, <1>4, LinkedAfter DEF CacheInv
  <1>7. ASSUME NEW n \in Names, NEW i \in Inodes, dir'[n] = i PROVE Explained(i, n)'
    <2>1. i # 0
      BY InodesPositive
    <2>2. dir[n] = i /\ n # File(p)
      BY <1>4, <1>7, <2>1
    <2>3. Explained(i, n) /\ load[p].inode # i
      BY <2>2 DEF CacheInv, FilesExplained, Linked
    <2>4. load'[p].inode = 0 /\ OthersStay(p) /\ disk'[i] = disk[i]
      BY <1>1, <1>2 DEF Moves, IsCall
    <2>5. Unsettled(n) => Unsettled(n)'
      BY <1>2 DEF Unsettled
    <2>6. QED
      BY <2>1, <2>3, <2>4, <2>5, ExplainedStays
  <1>8. QED
    BY <1>5, <1>6, <1>7 DEF CacheInv, FilesExplained

LEMMA PublishKeeps ==
    ASSUME CacheInv, NEW u \in Urls, Publish(u)
    PROVE  CacheInv'
  <1>1. /\ edition[u] < Len(Pieces) /\ edition' = [edition EXCEPT ![u] = @ + 1]
        /\ UNCHANGED <<dir, disk, load>>
    BY DEF Publish
  <1>2. Len(Pieces) \in Nat /\ edition \in [Urls -> 1 .. Len(Pieces)]
    BY CacheAssumption DEF CacheInv, CacheTyped
  <1>3. /\ edition' \in [Urls -> 1 .. Len(Pieces)]
        /\ \A v \in Urls : edition'[v] >= edition[v] /\ edition'[v] \in Nat
    BY <1>1, <1>2
  <1>4. ASSUME NEW p \in Procs PROVE LoadRight(p)'
    <2>1. LoadRight(p)
      BY DEF CacheInv, CacheTyped
    <2>2. SUFFICES ASSUME load[p].at = "transfer"
                   PROVE  \E e \in 0 .. edition'[load[p].url] : load[p].body = Body(load[p].url, e)
      BY <1>1, <2>1 DEF LoadRight
    <2>3. load[p].url \in Urls
      BY <2>1, <2>2 DEF LoadRight
    <2>4. PICK e \in 0 .. edition[load[p].url] : load[p].body = Body(load[p].url, e)
      BY <2>1, <2>2 DEF LoadRight
    <2>5. e \in 0 .. edition'[load[p].url]
      BY <1>2, <1>3, <2>3
    <2>6. QED
      BY <2>4, <2>5
  <1>5. CacheTyped'
    BY <1>1, <1>3, <1>4 DEF CacheInv, CacheTyped
  <1>6. Linked'
    BY <1>1 DEF CacheInv, Linked, File
  <1>7. ASSUME NEW n \in Names, NEW i \in Inodes, dir'[n] = i PROVE Explained(i, n)'
    <2>1. Explained(i, n)
      BY <1>1, <1>7 DEF CacheInv, FilesExplained
    <2>2. Unsettled(n) => Unsettled(n)'
      BY <1>3, UnsettledStays DEF CacheInv
    <2>3. Writers(i)' = Writers(i) /\ Removers(i)' = Removers(i)
      BY <1>1 DEF Writers, Removers
    <2>4. ASSUME NEW v, NEW e, OneEdition(i, v, e) PROVE OneEdition(i, v, e)'
      BY <1>1, <2>3, <2>4 DEF OneEdition, Covers
    <2>5. QED
      BY <1>1, <2>1, <2>2, <2>3, <2>4 DEF Explained
  <1>8. QED
    BY <1>5, <1>6, <1>7 DEF CacheInv, FilesExplained

\* A step of a process with a file: what is to be shown of this file and of its type.
LEMMA FileTouched ==
    ASSUME CacheInv, NEW p \in Procs, NEW at, NEW url, NEW inode, NEW body, NEW sent,
           Moves(p, at, url, inode, body, sent),
           inode = 0 \/ (inode = load[p].inode /\ url = load[p].url),
           CacheTyped', UNCHANGED <<edition, dir>>,
           \A i \in Inodes : i # load[p].inode => disk'[i] = disk[i],
           \A n \in Names, i \in Inodes :
               (dir[n] = i /\ load[p].inode = i /\ n = File(p) /\ Explained(i, n)) => Explained(i, n)'
    PROVE  CacheInv'
  <1>1. Linked'
    BY LinkedAfter DEF CacheInv
  <1>2. ASSUME NEW n \in Names, NEW i \in Inodes, dir'[n] = i PROVE Explained(i, n)'
    <2>1. Explained(i, n) /\ dir[n] = i /\ i # 0
      BY <1>2, InodesPositive DEF CacheInv, FilesExplained
    <2>2. CASE load[p].inode = i
      BY <2>1, <2>2 DEF CacheInv, Linked
    <2>3. CASE load[p].inode # i
      <3>1. load'[p].inode # i /\ OthersStay(p) /\ disk'[i] = disk[i]
        BY <2>1, <2>3 DEF Moves, IsCall
      <3>2. Unsettled(n) => Unsettled(n)'
        BY DEF Unsettled
      <3>3. QED
        BY <2>1, <2>3, <3>1, <3>2, ExplainedStays
    <2>4. QED
      BY <2>2, <2>3
  <1>3. QED
    BY <1>1, <1>2 DEF CacheInv, FilesExplained

LEMMA BreakKeeps ==
    ASSUME CacheInv, NEW p \in Procs, Break(p)
    PROVE  CacheInv'
  <1>1. Moves(p, "remove", load[p].url, load[p].inode, << >>, 0)
    BY BreakMoves DEF CacheInv
  <1>2. load[p].at = "transfer" /\ UNCHANGED <<edition, dir, disk>>
    BY DEF Break
  <1>3. load[p].url \in Urls /\ load[p].inode # 0
    BY <1>2, LoadTyped DEF LoadRight, CacheInv
  <1>4. CacheTyped'
    <2>1. dir' \in [Names -> Inodes \cup {0}] /\ disk' \in [Inodes -> DiskFiles]
      BY <1>2 DEF CacheInv, CacheTyped
    <2>2. QED
      BY <1>1, <1>2, <1>3, <2>1, TypedAfter DEF CacheInv
  <1>5. ASSUME NEW n \in Names, NEW i \in Inodes, load[p].inode = i PROVE Explained(i, n)'
    <2>1. p \in Removers(i)'
      BY <1>1, <1>5 DEF Moves, IsCall, Removers
    <2>2. QED
      BY <2>1 DEF Explained
  <1>6. QED
    BY <1>1, <1>2, <1>4, <1>5, FileTouched

LEMMA DiskFullKeeps ==
    ASSUME CacheInv, NEW p \in Procs, DiskFull(p)
    PROVE  CacheInv'
  <1>1. Moves(p, "transfer", load[p].url, load[p].inode, load[p].body, Len(load[p].body))
    BY DiskFullMoves DEF CacheInv
  <1>2. /\ load[p].at = "transfer" /\ UNCHANGED <<edition, dir>>
        /\ disk' = [disk EXCEPT ![load[p].inode].cropped = TRUE]
    BY DEF DiskFull
  <1>3. /\ load[p].url \in Urls /\ load[p].inode \in Inodes /\ load[p].body \in Seq(PieceSet)
        /\ \E e \in 0 .. edition[load[p].url] : load[p].body = Body(load[p].url, e)
    BY <1>2, LoadTyped, InodesPositive DEF LoadRight, CacheInv
  <1>4. /\ disk' \in [Inodes -> DiskFiles] /\ disk'[load[p].inode].cropped
        /\ \A i \in Inodes : i # load[p].inode => disk'[i] = disk[i]
    <2>1. disk \in [Inodes -> DiskFiles]
      BY DEF CacheInv, CacheTyped
    <2> DEFINE S == Seq(PieceSet)
    <2>2. DiskFiles = [pieces : S, abandoned : BOOLEAN, contended : BOOLEAN, cropped : BOOLEAN]
      BY DEF DiskFiles
    <2> HIDE DEF S
    <2> DEFINE f == [disk[load[p].inode] EXCEPT !.cropped = TRUE]
    <2>3. f \in DiskFiles /\ f.cropped
      BY <1>3, <2>1, <2>2
    <2>4. disk' = [disk EXCEPT ![load[p].inode] = f]
      BY <1>2
    <2> HIDE DEF f
    <2>5. QED
      BY <1>3, <2>1, <2>3, <2>4
  <1>5. CacheTyped'
    <2>1. dir' \in [Names -> Inodes \cup {0}]
      BY <1>2 DEF CacheInv, CacheTyped
    <2>2. Len(load[p].body) \in Nat /\ Len(load[p].body) <= Len(load[p].body)
      BY <1>3
    <2>3. load[p].inode # 0
      BY <1>3, InodesPositive
    <2> DEFINE l == Len(load[p].body)
    <2> HIDE DEF l
    <2>4. QED
      BY <1>1, <1>2, <1>3, <1>4, <2>1, <2>2, <2>3, TypedAfter DEF CacheInv, l
  <1>6. ASSUME NEW n \in Names, NEW i \in Inodes, load[p].inode = i PROVE Explained(i, n)'
    BY <1>4, <1>6 DEF Explained
  <1>7. QED
    BY <1>1, <1>2, <1>4, <1>5, <1>6, FileTouched

LEMMA KillKeeps ==
    ASSUME CacheInv, NEW p \in Procs, Kill(p)
    PROVE  CacheInv'
  <1> DEFINE held(i) == load[p].at \in {"transfer", "remove"} /\ load[p].inode = i
  <1>1. Moves(p, "idle", "", 0, << >>, 0)
    BY IdleMoves DEF CacheInv, Kill
  <1>2. /\ disk' = [i \in Inodes |-> [disk[i] EXCEPT !.abandoned = @ \/ held(i)]]
        /\ UNCHANGED <<edition, dir>>
    BY DEF Kill
  <1>3. ASSUME NEW i \in Inodes
        PROVE  /\ disk'[i] \in DiskFiles
               /\ load[p].inode = i => disk'[i].abandoned
               /\ load[p].inode # i => disk'[i] = disk[i]
    <2>1. disk[i] \in DiskFiles
      BY DEF CacheInv, CacheTyped
    <2> DEFINE S == Seq(PieceSet)
    <2>2. DiskFiles = [pieces : S, abandoned : BOOLEAN, contended : BOOLEAN, cropped : BOOLEAN]
      BY DEF DiskFiles
    <2> HIDE DEF S
    <2>3. load[p].inode = i => held(i)
      <3>1. i # 0
        BY InodesPositive
      <3>2. QED
        BY <3>1, LoadTyped DEF LoadRight, CacheInv
    <2>4. load[p].inode # i => ~held(i)
      OBVIOUS
    <2> DEFINE h == held(i)
               d == disk[i]
               g == d.abandoned \/ h
               f == [d EXCEPT !.abandoned = g]
    <2>5. disk'[i] = f
      BY <1>2
    <2>6. h \in BOOLEAN /\ g \in BOOLEAN /\ d \in DiskFiles
      BY <2>1, <2>2
    <2>7. (load[p].inode = i => h) /\ (load[p].inode # i => ~h)
      BY <2>3, <2>4
    <2> HIDE DEF h, held, d
    <2>8. h => g
      OBVIOUS
    <2>9. ~h => g = d.abandoned
      BY <2>2, <2>6
    <2> HIDE DEF g
    <2>10. f \in DiskFiles /\ f.abandoned = g
      BY <2>2, <2>6
    <2>11. g = d.abandoned => f = d
      BY <2>2, <2>6
    <2> HIDE DEF f
    <2>12. QED
      BY <2>5, <2>7, <2>8, <2>9, <2>10, <2>11 DEF d
  <1> HIDE DEF held
  <1>4. disk' \in [Inodes -> DiskFiles]
    BY <1>2, <1>3
  <1>5. CacheTyped'
    <2>1. dir' \in [Names -> Inodes \cup {0}]
      BY <1>2 DEF CacheInv, CacheTyped
    <2>2. QED
      BY <1>1, <1>2, <1>4, <2>1, TypedAfter DEF CacheInv
  <1>6. ASSUME NEW n \in Names, NEW i \in Inodes, load[p].inode = i PROVE Explained(i, n)'
    BY <1>3, <1>6 DEF Explained
  <1>7. QED
    BY <1>1, <1>2, <1>3, <1>5, <1>6, FileTouched

\* What a call that is writing has to send.
LEMMA Sending ==
    ASSUME CacheTyped, NEW p \in Procs, load[p].at = "transfer"
    PROVE  /\ load[p].url \in Urls /\ load[p].inode \in Inodes /\ load[p].inode # 0
           /\ load[p].body \in Seq(PieceSet) /\ load[p].sent \in Nat /\ Len(load[p].body) \in Nat
           /\ load[p].sent <= Len(load[p].body)
           /\ \E e \in 0 .. edition[load[p].url] : load[p].body = Body(load[p].url, e)
           /\ disk[load[p].inode] \in DiskFiles /\ disk[load[p].inode].pieces \in Seq(PieceSet)
  <1>1. /\ load[p].url \in Urls /\ load[p].inode \in Inodes /\ load[p].inode # 0
        /\ load[p].body \in Seq(PieceSet) /\ load[p].sent \in Nat
        /\ load[p].sent <= Len(load[p].body)
        /\ \E e \in 0 .. edition[load[p].url] : load[p].body = Body(load[p].url, e)
    BY LoadTyped, InodesPositive DEF LoadRight
  <1>2. disk[load[p].inode] \in DiskFiles
    BY <1>1 DEF CacheTyped
  <1>3. disk[load[p].inode].pieces \in Seq(PieceSet)
    BY <1>2 DEF DiskFiles
  <1>4. QED
    BY <1>1, <1>2, <1>3

\* A transfer that ends leaves a file that is whole or has a page, or another call fills
\* its holes.
LEMMA CompleteLeaves ==
    ASSUME CacheTyped, NEW p \in Procs, Complete(p), NEW u \in Urls, NEW e \in 1 .. Len(Pieces),
           OneEdition(load[p].inode, u, e)
    PROVE  LET pieces == disk[load[p].inode].pieces
           IN \/ pieces = Body(u, e) \/ PageFirst(pieces, u)
              \/ \E q \in Writers(load[p].inode) : q # p /\ Covers(q, pieces, u)
  <1> DEFINE i == load[p].inode
             pieces == disk[i].pieces
             b == load[p].body
  <1>1. load[p].at = "transfer" /\ load[p].sent = Len(b)
    BY DEF Complete
  <1>2. pieces \in Seq(PieceSet) /\ b \in Seq(PieceSet) /\ Len(pieces) \in Nat
    BY <1>1, Sending
  <1>3. /\ b \in {Body(u, e), Body(u, 0)} /\ Len(pieces) <= Pieces[e]
        /\ \A k \in 1 .. Len(pieces) :
              pieces[k] \in {Hole, Piece(u, e, k)} \/ (k = 1 /\ PageFirst(pieces, u))
        /\ pieces = Body(u, e) \/ PageFirst(pieces, u) \/ \E q \in Writers(i) : Covers(q, pieces, u)
    BY <1>1 DEF OneEdition, Writers
  <1>4. SUFFICES ASSUME ~PageFirst(pieces, u), Covers(p, pieces, u) PROVE pieces = Body(u, e)
    BY <1>3
  <1>5. /\ Len(b) <= Len(pieces) /\ \A k \in 1 .. Len(b) : pieces[k] = b[k]
    BY <1>1, <1>4 DEF Covers
  <1>6. Pieces[e] \in Nat /\ 0 \in 0 .. Len(Pieces) /\ e \in 0 .. Len(Pieces) /\ e # 0
    BY CacheAssumption
  <1>7. CASE b = Body(u, 0)
    <2>1. Len(b) = 1 /\ \A k \in 1 .. Len(b) : b[k] = Piece(u, 0, k)
      BY <1>6, <1>7, BodyFacts
    <2>2. 1 \in 1 .. Len(b)
      BY <2>1
    <2>3. Len(pieces) > 0 /\ pieces[1] = Piece(u, 0, 1)
      BY <1>2, <1>5, <2>1, <2>2
    <2>4. QED
      BY <1>4, <2>3 DEF PageFirst
  <1>8. CASE b = Body(u, e)
    <2>1. Len(b) = Pieces[e]
      BY <1>6, <1>8, BodyFacts
    <2>2. Len(pieces) = Len(b)
      BY <1>2, <1>3, <1>5, <1>6, <2>1
    <2> HIDE DEF b, pieces
    <2>3. pieces = b
      BY <1>2, <1>5, <2>2
    <2>4. QED
      BY <1>8, <2>3
  <1>9. QED
    BY <1>3, <1>7, <1>8

LEMMA CompleteKeeps ==
    ASSUME CacheInv, NEW p \in Procs, Complete(p)
    PROVE  CacheInv'
  <1>1. Moves(p, "have", load[p].url, 0, << >>, 0)
    BY CompleteMoves DEF CacheInv
  <1>2. load[p].at = "transfer" /\ UNCHANGED <<edition, dir, disk>>
    BY DEF Complete
  <1>3. load[p].url \in Urls /\ load[p].inode # 0 /\ load[p].inode \in Inodes
    BY <1>2, Sending DEF CacheInv
  <1>4. CacheTyped'
    <2>1. dir' \in [Names -> Inodes \cup {0}] /\ disk' \in [Inodes -> DiskFiles]
      BY <1>2 DEF CacheInv, CacheTyped
    <2>2. QED
      BY <1>1, <1>2, <1>3, <2>1, TypedAfter DEF CacheInv
  <1>5. ASSUME NEW n \in Names, NEW i \in Inodes, load[p].inode = i, Explained(i, n)
        PROVE  Explained(i, n)'
    <2>1. /\ \A q \in Procs \ {p} : load'[q] = load[q]
          /\ load'[p].at = "have"
      BY <1>1 DEF Moves, IsCall, OthersStay
    <2>2. Writers(i)' = Writers(i) \ {p} /\ Removers(i)' = Removers(i)
      BY <1>2, <2>1 DEF Writers, Removers
    <2>3. Unsettled(n)' = Unsettled(n)
      BY <1>2 DEF Unsettled
    <2>4. ASSUME NEW u \in Urls, NEW e \in 1 .. Len(Pieces), OneEdition(i, u, e)
          PROVE  OneEdition(i, u, e)'
      <3>1. \A q \in Writers(i)' : q \in Writers(i) /\ q # p /\ load'[q] = load[q]
        BY <2>1, <2>2 DEF Writers
      <3>2. \A q \in Writers(i) \ {p} : Covers(q, disk[i].pieces, u) => Covers(q, disk[i].pieces, u)'
        BY <1>2, <2>2, <3>1 DEF Covers
      <3>3. \/ disk[i].pieces = Body(u, e) \/ PageFirst(disk[i].pieces, u)
            \/ \E q \in Writers(i) \ {p} : Covers(q, disk[i].pieces, u)
        BY <1>5, <2>4, CompleteLeaves DEF CacheInv
      <3>4. \/ disk'[i].pieces = Body(u, e) \/ PageFirst(disk'[i].pieces, u)
            \/ \E q \in Writers(i)' : Covers(q, disk[i].pieces, u)'
        BY <1>2, <2>2, <3>2, <3>3
      <3>5. /\ \A q \in Writers(i) : load[q].body \in {Body(u, e), Body(u, 0)}
            /\ Len(disk[i].pieces) <= Pieces[e]
            /\ \A k \in 1 .. Len(disk[i].pieces) : \/ disk[i].pieces[k] \in {Hole, Piece(u, e, k)}
                                                   \/ (k = 1 /\ PageFirst(disk[i].pieces, u))
        BY <2>4 DEF OneEdition
      <3>6. \A q \in Writers(i)' : load'[q].body \in {Body(u, e), Body(u, 0)}
        BY <3>1, <3>5
      <3>7. QED
        BY <1>2, <3>4, <3>5, <3>6 DEF OneEdition
    <2>5. QED
      BY <1>2, <1>5, <2>2, <2>3, <2>4 DEF Explained
  <1>6. QED
    BY <1>1, <1>2, <1>4, <1>5, FileTouched

\* A piece that comes to its place keeps the file of one edition.  If it takes the place
\* of the page that another call relied on, its writer has sent all there is up to it.
LEMMA ReceiveWrites ==
    ASSUME CacheTyped, NEW p \in Procs, Receive(p), NEW u \in Urls, NEW e \in 1 .. Len(Pieces),
           OneEdition(load[p].inode, u, e)
    PROVE  LET i == load[p].inode
               pieces == disk'[i].pieces
           IN /\ Len(pieces) <= Pieces[e]
              /\ \A k \in 1 .. Len(pieces) :
                    pieces[k] \in {Hole, Piece(u, e, k)} \/ (k = 1 /\ PageFirst(pieces, u))
              /\ pieces = Body(u, e) \/ PageFirst(pieces, u)
                 \/ \E q \in Writers(i) :
                       /\ load'[q].sent <= Len(pieces)
                       /\ \A k \in 1 .. load'[q].sent :
                             pieces[k] = load[q].body[k] \/ (k = 1 /\ PageFirst(pieces, u))
  <1> DEFINE i == load[p].inode
             old == disk[i].pieces
             new == disk'[i].pieces
             b == load[p].body
             n == load[p].sent + 1
             l == Len(old)
             m == IF l < n THEN n ELSE l
  <1>1. /\ load[p].at = "transfer" /\ load[p].sent < Len(b)
        /\ disk' = [disk EXCEPT ![i].pieces = Written(@, n, b[n])]
    BY DEF Receive
  <1>2. /\ i \in Inodes /\ old \in Seq(PieceSet) /\ b \in Seq(PieceSet) /\ disk[i] \in DiskFiles
        /\ load[p].sent \in Nat /\ l \in Nat /\ Len(b) \in Nat
    BY <1>1, Sending
  <1>3. n \in Nat \ {0} /\ n \in 1 .. Len(b) /\ b[n] \in PieceSet /\ n <= m /\ l <= m /\ m \in Nat
    <2> HIDE DEF b, l
    <2>1. n \in Nat \ {0} /\ n \in 1 .. Len(b)
      BY <1>1, <1>2
    <2> HIDE DEF n
    <2>2. b[n] \in PieceSet
      BY <1>2, <2>1
    <2>3. n <= m /\ l <= m /\ m \in Nat
      BY <1>2, <2>1
    <2>4. QED
      BY <2>1, <2>2, <2>3
  <1>4. /\ b \in {Body(u, e), Body(u, 0)} /\ l <= Pieces[e]
        /\ \A k \in 1 .. l : old[k] \in {Hole, Piece(u, e, k)} \/ (k = 1 /\ PageFirst(old, u))
        /\ old = Body(u, e) \/ PageFirst(old, u) \/ \E q \in Writers(i) : Covers(q, old, u)
        /\ \A q \in Writers(i) : load[q].body \in {Body(u, e), Body(u, 0)}
    BY <1>1 DEF OneEdition, Writers
  <1>5. new = Written(old, n, b[n])
    <2>1. disk \in [Inodes -> DiskFiles]
      BY DEF CacheTyped
    <2> DEFINE w == Written(old, n, b[n])
    <2>2. disk' = [disk EXCEPT ![i].pieces = w]
      BY <1>1
    <2> HIDE DEF w
    <2>3. disk'[i].pieces = w
      BY <1>2, <2>1, <2>2 DEF DiskFiles
    <2>4. QED
      BY <2>3 DEF w
  <1>6. /\ new \in Seq(PieceSet) /\ Len(new) = m /\ new[n] = b[n]
        /\ \A k \in 1 .. l : k # n => new[k] = old[k]
        /\ \A k \in 1 .. m : (k # n /\ k > l) => new[k] = Hole
    <2>1. IsWritten(new, old, n, b[n])
      BY <1>2, <1>3, <1>5, WrittenFacts
    <2> HIDE DEF new, n, old, b
    <2>2. QED
      BY <2>1 DEF IsWritten, l, m
  <1>7. /\ Pieces[e] \in Nat /\ Pieces[e] > 0 /\ 0 \in 0 .. Len(Pieces) /\ e \in 0 .. Len(Pieces)
        /\ e # 0
    BY CacheAssumption
  <1>8. /\ Len(Body(u, e)) = Pieces[e] /\ \A k \in 1 .. Pieces[e] : Body(u, e)[k] = Piece(u, e, k)
        /\ Len(Body(u, 0)) = 1 /\ Body(u, 0)[1] = Piece(u, 0, 1)
    <2>1. /\ Len(Body(u, e)) = Pieces[e]
          /\ \A k \in 1 .. Len(Body(u, e)) : Body(u, e)[k] = Piece(u, e, k)
      BY <1>7, BodyFacts
    <2>2. /\ Len(Body(u, 0)) = 1
          /\ \A k \in 1 .. Len(Body(u, 0)) : Body(u, 0)[k] = Piece(u, 0, k)
      BY <1>7, BodyFacts
    <2>3. QED
      BY <2>1, <2>2
  <1>9. load'[p].sent = n /\ \A q \in Writers(i) : q # p => load'[q].sent = load[q].sent
    BY ReceiveMoves DEF Moves, IsCall, OthersStay, Writers
  <1>10. p \in Writers(i)
    BY <1>1 DEF Writers
  <1>11. n <= Pieces[e] /\ m <= Pieces[e]
    BY <1>2, <1>3, <1>4, <1>7, <1>8
  <1>12. /\ b = Body(u, e) => b[n] = Piece(u, e, n)
         /\ b = Body(u, 0) => n = 1 /\ b[n] = Piece(u, 0, 1)
    BY <1>3, <1>8
  <1>13. b = Body(u, 0) => PageFirst(new, u)
    BY <1>3, <1>6, <1>12 DEF PageFirst
  <1>14. PageFirst(old, u) /\ n # 1 => PageFirst(new, u)
    <2>1. PageFirst(old, u) => l > 0 /\ 1 \in 1 .. l /\ old[1] = Piece(u, 0, 1)
      BY <1>2 DEF PageFirst
    <2>2. QED
      BY <1>2, <1>3, <1>6, <2>1 DEF PageFirst
  <1> HIDE DEF new, old, b, n, m, l
  <1>15. ASSUME NEW k \in 1 .. m
         PROVE  new[k] \in {Hole, Piece(u, e, k)} \/ (k = 1 /\ PageFirst(new, u))
    <2>1. CASE k = n
      BY <1>4, <1>6, <1>12, <1>13, <2>1
    <2>2. CASE k # n /\ k <= l
      <3>1. k \in 1 .. l /\ new[k] = old[k]
        BY <1>2, <1>3, <1>6, <2>2
      <3>2. QED
        BY <1>4, <1>14, <2>2, <3>1
    <2>3. CASE k # n /\ k > l
      BY <1>6, <2>3
    <2>4. QED
      BY <1>2, <1>3, <2>1, <2>2, <2>3
  <1> DEFINE Stands(q) == /\ load'[q].sent <= m
                          /\ \A k \in 1 .. load'[q].sent :
                                new[k] = load[q].body[k] \/ (k = 1 /\ PageFirst(new, u))
  <1>16. CASE PageFirst(new, u)
    BY <1>6, <1>11, <1>15, <1>16 DEF new
  <1>17. CASE ~PageFirst(new, u)
    <2>1. b = Body(u, e) /\ b[n] = Piece(u, e, n)
      BY <1>4, <1>12, <1>13, <1>17
    <2>2. ASSUME old = Body(u, e) PROVE new = Body(u, e)
      <3>1. l = Pieces[e] /\ m = Pieces[e]
        BY <1>2, <1>3, <1>4, <1>7, <1>8, <1>11, <2>2 DEF l, m
      <3>2. \A k \in 1 .. m : new[k] = Body(u, e)[k]
        BY <1>6, <1>8, <2>1, <2>2, <3>1
      <3>3. Body(u, e) \in Seq(PieceSet)
        BY <1>7, BodyFacts
      <3>4. QED
        BY <1>6, <1>8, <3>1, <3>2, <3>3
    <2>3. ASSUME n = 1 PROVE Stands(p)
      <3>1. \A k \in 1 .. 1 : k = 1
        OBVIOUS
      <3>2. QED
        BY <1>3, <1>6, <1>9, <2>3, <3>1 DEF b
    <2>4. ASSUME NEW q \in Writers(i), Covers(q, old, u) PROVE Stands(p) \/ Stands(q)
      <3>1. /\ load[q].sent <= l
            /\ \A k \in 1 .. load[q].sent : old[k] = load[q].body[k] \/ (k = 1 /\ PageFirst(old, u))
        BY <2>4 DEF Covers, l
      <3>2. /\ load[q].sent \in Nat /\ load[q].sent <= Len(load[q].body)
            /\ Len(load[q].body) \in Nat
        BY <2>4, Sending DEF Writers
      <3>3. CASE n = 1
        BY <2>3, <3>3
      <3>4. CASE n # 1
        <4>1. ~PageFirst(old, u)
          BY <1>14, <1>17, <3>4
        <4>2. \A k \in 1 .. load[q].sent : k # n => new[k] = load[q].body[k]
          <5>1. ASSUME NEW k \in 1 .. load[q].sent, k # n PROVE new[k] = load[q].body[k]
            <6>1. k \in 1 .. l
              BY <1>2, <3>1, <3>2
            <6>2. new[k] = old[k]
              BY <1>6, <5>1, <6>1
            <6>3. QED
              BY <3>1, <4>1, <6>2
          <5>2. QED
            BY <5>1
        <4>3. n \in 1 .. load[q].sent => new[n] = load[q].body[n]
          <5>1. load[q].body = Body(u, 0) => Len(load[q].body) = 1
            BY <1>8
          <5>2. n \in 1 .. load[q].sent => n <= Len(load[q].body)
            BY <1>3, <3>2
          <5>3. n \in 1 .. load[q].sent => load[q].body # Body(u, 0)
            <6>1. n > 1
              BY <1>3, <3>4
            <6>2. n \in 1 .. load[q].sent => Len(load[q].body) > 1
              BY <1>3, <3>2, <5>2, <6>1
            <6>3. \A x \in Nat : x > 1 => x # 1
              OBVIOUS
            <6>4. QED
              BY <3>2, <5>1, <6>2, <6>3, Zenon
          <5>4. QED
            BY <1>4, <1>6, <2>1, <2>4, <5>3
        <4>4. CASE q # p
          BY <1>2, <1>3, <1>9, <2>4, <3>1, <3>2, <4>2, <4>3, <4>4
        <4>5. CASE q = p
          <5>1. \A k \in 1 .. n : k # n => k \in 1 .. load[p].sent
            BY <1>2, <1>3 DEF n
          <5>2. QED
            BY <1>3, <1>6, <1>9, <4>2, <4>5, <5>1 DEF b
        <4>6. QED
          BY <4>4, <4>5
      <3>5. QED
        BY <3>3, <3>4
    <2>5. new = Body(u, e) \/ Stands(p) \/ \E q \in Writers(i) : Stands(q)
      BY <1>4, <1>14, <1>17, <2>2, <2>3, <2>4
    <2>6. QED
      BY <1>6, <1>10, <1>11, <1>15, <2>5 DEF new
  <1>18. QED
    BY <1>16, <1>17

LEMMA ReceiveKeeps ==
    ASSUME CacheInv, NEW p \in Procs, Receive(p)
    PROVE  CacheInv'
  <1> DEFINE j == load[p].inode
             n == load[p].sent + 1
             b == load[p].body
  <1>1. Moves(p, "transfer", load[p].url, j, b, n)
    BY ReceiveMoves DEF CacheInv
  <1>2. /\ load[p].at = "transfer" /\ load[p].sent < Len(b) /\ UNCHANGED <<edition, dir>>
        /\ disk' = [disk EXCEPT ![j].pieces = Written(@, n, b[n])]
    BY DEF Receive
  <1>3. /\ load[p].url \in Urls /\ j \in Inodes /\ j # 0 /\ b \in Seq(PieceSet)
        /\ load[p].sent \in Nat /\ Len(b) \in Nat
        /\ \E e \in 0 .. edition[load[p].url] : b = Body(load[p].url, e)
        /\ disk[j] \in DiskFiles /\ disk[j].pieces \in Seq(PieceSet)
    BY <1>2, Sending DEF CacheInv
  <1>4. n \in Nat \ {0} /\ n <= Len(b) /\ b[n] \in PieceSet
    <2> HIDE DEF b
    <2>1. n \in Nat \ {0} /\ n <= Len(b) /\ n \in 1 .. Len(b)
      BY <1>2, <1>3
    <2> HIDE DEF n
    <2>2. QED
      BY <1>3, <2>1
  <1>5. /\ disk' \in [Inodes -> DiskFiles]
        /\ \A i \in Inodes : i # j => disk'[i] = disk[i]
        /\ disk'[j].abandoned = disk[j].abandoned /\ disk'[j].cropped = disk[j].cropped
        /\ disk'[j].contended = disk[j].contended
    <2> DEFINE w == Written(disk[j].pieces, n, b[n])
               f == [disk[j] EXCEPT !.pieces = w]
    <2>1. IsWritten(w, disk[j].pieces, n, b[n])
      BY <1>3, <1>4, WrittenFacts
    <2>2. w \in Seq(PieceSet)
      BY <2>1 DEF IsWritten
    <2>3. disk \in [Inodes -> DiskFiles] /\ disk' = [disk EXCEPT ![j] = f]
      BY <1>2 DEF CacheInv, CacheTyped
    <2> HIDE DEF w, j
    <2> DEFINE S == Seq(PieceSet)
    <2>4. DiskFiles = [pieces : S, abandoned : BOOLEAN, contended : BOOLEAN, cropped : BOOLEAN]
      BY DEF DiskFiles
    <2>5. w \in S
      BY <2>2
    <2> HIDE DEF S
    <2>6. /\ f \in DiskFiles /\ f.abandoned = disk[j].abandoned /\ f.cropped = disk[j].cropped
          /\ f.contended = disk[j].contended
      BY <1>3, <2>4, <2>5
    <2> HIDE DEF f
    <2>7. QED
      BY <1>3, <2>3, <2>6
  <1>6. CacheTyped'
    <2>1. dir' \in [Names -> Inodes \cup {0}]
      BY <1>2 DEF CacheInv, CacheTyped
    <2> HIDE DEF n, b, j
    <2>2. QED
      BY <1>1, <1>2, <1>3, <1>4, <1>5, <2>1, TypedAfter DEF CacheInv
  <1>7. ASSUME NEW m \in Names, NEW i \in Inodes, load[p].inode = i, Explained(i, m)
        PROVE  Explained(i, m)'
    <2>1. /\ \A q \in Procs \ {p} : load'[q] = load[q]
          /\ load'[p].at = "transfer" /\ load'[p].inode = i /\ load'[p].body = load[p].body
      BY <1>1, <1>7 DEF Moves, IsCall, OthersStay
    <2>2. Writers(i)' = Writers(i) /\ Removers(i)' = Removers(i)
      BY <1>2, <1>7, <2>1 DEF Writers, Removers
    <2>3. \A q \in Writers(i) : load'[q].body = load[q].body
      BY <2>1 DEF Writers
    <2>4. Unsettled(m)' = Unsettled(m)
      BY <1>2 DEF Unsettled
    <2>5. ASSUME NEW u \in Urls, NEW e \in 1 .. Len(Pieces), OneEdition(i, u, e)
          PROVE  OneEdition(i, u, e)'
      <3> DEFINE new == disk'[i].pieces
      <3>1. /\ Len(new) <= Pieces[e]
            /\ \A k \in 1 .. Len(new) : new[k] \in {Hole, Piece(u, e, k)} \/ (k = 1 /\ PageFirst(new, u))
            /\ new = Body(u, e) \/ PageFirst(new, u)
               \/ \E q \in Writers(i) :
                     /\ load'[q].sent <= Len(new)
                     /\ \A k \in 1 .. load'[q].sent :
                           new[k] = load[q].body[k] \/ (k = 1 /\ PageFirst(new, u))
        BY <1>7, <2>5, ReceiveWrites DEF CacheInv
      <3>2. \A q \in Writers(i) : load[q].body \in {Body(u, e), Body(u, 0)}
        BY <2>5 DEF OneEdition
      <3> HIDE DEF new
      <3>3. \A q \in Writers(i)' : load'[q].body \in {Body(u, e), Body(u, 0)}
        BY <2>2, <2>3, <3>2
      <3>4. \/ new = Body(u, e) \/ PageFirst(new, u)
            \/ \E q \in Writers(i)' : Covers(q, disk[i].pieces, u)'
        BY <2>2, <2>3, <3>1 DEF Covers, new
      <3>5. QED
        BY <3>1, <3>3, <3>4 DEF OneEdition, new
    <2>6. QED
      BY <1>5, <1>7, <2>2, <2>4, <2>5 DEF Explained
  <1>8. QED
    BY <1>1, <1>2, <1>5, <1>6, <1>7, FileTouched

\* A file that is opened is empty, and all that its opener has sent is in it.  If others
\* go on writing to it, they send the same unless the file is unsettled.
LEMMA OpenKeeps ==
    ASSUME CacheInv, NEW p \in Procs, Open(p)
    PROVE  CacheInv'
  <1>0. PICK v, f : v = load[p].url /\ f = File(p)
    OBVIOUS
  <1>1. PICK j \in Inodes, d \in {0, edition[v]} :
              /\ Moves(p, "transfer", v, j, Body(v, d), 0)
              /\ j = dir[f] \/ (dir[f] = 0 /\ Free(j))
              /\ dir' = [dir EXCEPT ![f] = j]
              /\ disk' = [disk EXCEPT ![j] =
                    [pieces |-> << >>, abandoned |-> FALSE, contended |-> Writers(j) # {}, cropped |-> FALSE]]
              /\ UNCHANGED edition
    BY <1>0, OpenMoves DEF CacheInv
  <1>2. load[p].at = "open"
    BY DEF Open
  <1>3. v \in Urls /\ f \in Names /\ f = FileName[v] /\ load[p].inode = 0
    BY <1>0, <1>2, LoadTyped DEF LoadRight, CacheInv, File, Names
  <1>4. edition[v] \in 1 .. Len(Pieces) /\ Len(Pieces) \in Nat /\ j # 0
    BY <1>3, CacheAssumption, InodesPositive DEF CacheInv, CacheTyped
  <1>5. /\ dir \in [Names -> Inodes \cup {0}] /\ dir' \in [Names -> Inodes \cup {0}] /\ dir'[f] = j
        /\ \A n \in Names : n # f => dir'[n] = dir[n]
    BY <1>1, <1>3 DEF CacheInv, CacheTyped
  <1>6. \A n \in Names : n # f => dir[n] # j
    BY <1>1, <1>3, <1>5 DEF CacheInv, Linked, Free
  <1>7. \A q \in Procs : load[q].inode = j => dir[f] = j /\ File(q) = f
    BY <1>1, <1>3 DEF CacheInv, Linked, Free
  <1>8. /\ disk' \in [Inodes -> DiskFiles]
        /\ \A i \in Inodes : i # j => disk'[i] = disk[i]
        /\ disk'[j].pieces = << >> /\ disk'[j].contended = (Writers(j) # {})
    <2> DEFINE S == Seq(PieceSet)
               c == Writers(j) # {}
               g == [pieces |-> << >>, abandoned |-> FALSE, contended |-> c, cropped |-> FALSE]
    <2>1. DiskFiles = [pieces : S, abandoned : BOOLEAN, contended : BOOLEAN, cropped : BOOLEAN]
      BY DEF DiskFiles
    <2>2. << >> \in S /\ c \in BOOLEAN
      BY EmptyBody
    <2>3. disk \in [Inodes -> DiskFiles] /\ disk' = [disk EXCEPT ![j] = g]
      BY <1>1 DEF CacheInv, CacheTyped
    <2> HIDE DEF S, c
    <2>4. g \in DiskFiles /\ g.pieces = << >> /\ g.contended = c
      BY <2>1, <2>2
    <2> HIDE DEF g
    <2>5. QED
      BY <2>3, <2>4 DEF c
  <1>9. CacheTyped'
    <2>1. d \in 0 .. edition[v] /\ d \in 0 .. Len(Pieces)
      BY <1>1, <1>4
    <2>2. 0 <= Len(Body(v, d))
      BY <1>3, <2>1, BodyFacts
    <2>3. QED
      BY <1>1, <1>3, <1>4, <1>5, <1>8, <2>1, <2>2, TypedAfter DEF CacheInv
  <1>10. /\ OthersStay(p) /\ load'[p].at = "transfer" /\ load'[p].url = v /\ load'[p].inode = j
         /\ load'[p].body = Body(v, d) /\ load'[p].sent = 0
    BY <1>1 DEF Moves, IsCall
  <1>11. Linked'
    <2> SUFFICES ASSUME NEW n \in Names, NEW i \in Inodes, dir'[n] = i
                 PROVE  /\ \A m \in Names : dir'[m] = i => m = n
                        /\ \A q \in Procs : load'[q].inode = i => File(q)' = n
      BY DEF Linked
    <2>1. CASE n = f
      <3>1. i = j
        BY <1>5, <2>1
      <3>2. \A m \in Names : dir'[m] = i => m = n
        BY <1>5, <1>6, <2>1, <3>1
      <3>3. ASSUME NEW q \in Procs, load'[q].inode = i PROVE File(q)' = n
        <4>1. CASE q = p
          BY <1>3, <1>10, <2>1, <4>1 DEF File
        <4>2. CASE q # p
          BY <1>7, <1>10, <2>1, <3>1, <3>3, <4>2 DEF File, OthersStay
        <4>3. QED
          BY <4>1, <4>2
      <3>4. QED
        BY <3>2, <3>3
    <2>2. CASE n # f
      <3>1. dir[n] = i /\ i # j
        BY <1>5, <1>6, <2>2
      <3>2. /\ \A m \in Names : dir[m] = i => m = n
            /\ \A q \in Procs : load[q].inode = i => File(q) = n
        BY <3>1 DEF CacheInv, Linked
      <3>3. \A m \in Names : dir'[m] = i => m = n
        BY <1>5, <3>1, <3>2
      <3>4. ASSUME NEW q \in Procs, load'[q].inode = i PROVE File(q)' = n
        <4>1. q # p
          BY <1>10, <3>1, <3>4
        <4>2. QED
          BY <1>10, <3>2, <3>4, <4>1 DEF File, OthersStay
      <3>5. QED
        BY <3>3, <3>4
    <2>3. QED
      BY <2>1, <2>2
  <1>12. Writers(j)' = Writers(j) \cup {p}
    BY <1>2, <1>10 DEF Writers, OthersStay
  <1>13. ASSUME ~(disk'[j].contended /\ Unsettled(f)') PROVE Explained(j, f)'
    <2>1. ASSUME NEW e \in 1 .. Len(Pieces),
                 Body(v, d) \in {Body(v, e), Body(v, 0)},
                 \A q \in Writers(j) : load[q].body \in {Body(v, e), Body(v, 0)},
                 disk'[j].contended \/ Writers(j) = {}
          PROVE  Explained(j, f)'
      <3>1. \A q \in Writers(j)' : load'[q].body \in {Body(v, e), Body(v, 0)}
        BY <1>2, <1>10, <1>12, <2>1 DEF OthersStay, Writers
      <3>2. Covers(p, disk[j].pieces, v)'
        BY <1>8, <1>10 DEF Covers
      <3>3. Len(disk'[j].pieces) <= Pieces[e] /\ Len(disk'[j].pieces) = 0
        BY <1>8, CacheAssumption
      <3>4. p \in Writers(j)'
        BY <1>12
      <3>5. \A k \in 1 .. Len(disk'[j].pieces) : FALSE
        BY <3>3
      <3>6. OneEdition(j, v, e)'
        BY <3>1, <3>2, <3>3, <3>4, <3>5 DEF OneEdition
      <3>7. disk'[j].contended \/ \A q, r \in Writers(j)' : q = r
        BY <1>12, <2>1
      <3>8. QED
        BY <1>3, <3>6, <3>7 DEF Explained
    <2>2. CASE Writers(j) = {}
      <3>1. Body(v, d) \in {Body(v, edition[v]), Body(v, 0)}
        OBVIOUS
      <3>2. QED
        BY <1>4, <2>1, <2>2, <3>1
    <2>3. CASE Writers(j) # {}
      <3>1. disk'[j].contended /\ ~Unsettled(f)
        BY <1>1, <1>8, <1>13, <2>3 DEF Unsettled
      <3>2. \A u \in Urls : FileName[u] = f => u = v
        BY <1>3, <3>1 DEF Unsettled
      <3>3. edition[v] = 1
        <4>1. ~(edition[v] > 1)
          BY <1>3, <3>1 DEF Unsettled
        <4>2. QED
          BY <1>4, <4>1
      <3>4. ASSUME NEW q \in Writers(j) PROVE load[q].body \in {Body(v, 1), Body(v, 0)}
        <4>1. q \in Procs /\ load[q].at = "transfer" /\ load[q].inode = j
          BY DEF Writers
        <4>2. load[q].url \in Urls /\ \E e \in 0 .. edition[load[q].url] : load[q].body = Body(load[q].url, e)
          BY <4>1, Sending DEF CacheInv
        <4>3. load[q].url = v
          BY <1>7, <3>2, <4>1, <4>2 DEF File
        <4>4. PICK e \in 0 .. 1 : load[q].body = Body(v, e)
          BY <3>3, <4>2, <4>3
        <4>5. e = 0 \/ e = 1
          OBVIOUS
        <4>6. QED
          BY <4>4, <4>5
      <3>5. Body(v, d) \in {Body(v, 1), Body(v, 0)}
        BY <1>1, <3>3
      <3>6. 1 \in 1 .. Len(Pieces)
        BY <1>4
      <3>7. QED
        BY <2>1, <3>1, <3>4, <3>5, <3>6
    <2>4. QED
      BY <2>2, <2>3
  <1>14. ASSUME NEW n \in Names, NEW i \in Inodes, dir'[n] = i PROVE Explained(i, n)'
    <2>1. CASE n = f
      <3>1. i = j
        BY <1>5, <1>14, <2>1
      <3>2. disk'[j].contended /\ Unsettled(f)' => Explained(j, f)'
        BY DEF Explained
      <3>3. QED
        BY <1>13, <2>1, <3>1, <3>2
    <2>2. CASE n # f
      <3>1. dir[n] = i /\ i # j /\ i # 0
        BY <1>5, <1>6, <1>14, <2>2, InodesPositive
      <3>2. Explained(i, n) /\ load[p].inode # i /\ load'[p].inode # i /\ disk'[i] = disk[i]
        BY <1>3, <1>8, <1>10, <3>1 DEF CacheInv, FilesExplained
      <3>3. Unsettled(n) => Unsettled(n)'
        BY <1>1 DEF Unsettled
      <3>4. QED
        BY <1>10, <3>2, <3>3, ExplainedStays
    <2>3. QED
      BY <2>1, <2>2
  <1>15. QED
    BY <1>9, <1>11, <1>14 DEF CacheInv, FilesExplained

LEMMA LoadingKeeps ==
    ASSUME CacheInv, NEW p \in Procs, Loading(p)
    PROVE  CacheInv'
  BY OpenKeeps, ReceiveKeeps, DiskFullKeeps, CompleteKeeps, BreakKeeps, UnlinkKeeps DEF Loading

LEMMA CacheInitially == CacheInit => CacheInv
  <1> SUFFICES ASSUME CacheInit PROVE CacheInv
    OBVIOUS
  <1>1. Len(Pieces) \in Nat /\ 1 \in 1 .. Len(Pieces)
    BY CacheAssumption
  <1>2. EmptyFile \in DiskFiles
    <2> DEFINE S == Seq(PieceSet)
    <2>1. DiskFiles = [pieces : S, abandoned : BOOLEAN, contended : BOOLEAN, cropped : BOOLEAN]
      BY DEF DiskFiles
    <2>2. << >> \in S
      BY EmptyBody
    <2> HIDE DEF S
    <2>3. QED
      BY <2>1, <2>2 DEF EmptyFile
  <1>3. NoLoad \in Loads /\ NoLoad.at = "idle" /\ NoLoad.inode = 0 /\ NoLoad.sent = 0
    <2> DEFINE V == Urls \cup {""}
               I == Inodes \cup {0}
               A == {"idle", "open", "transfer", "remove", "have", "failed"}
               S == Seq(PieceSet)
    <2>1. Loads = [at : A, url : V, inode : I, body : S, sent : Nat]
      BY DEF Loads
    <2>2. "idle" \in A /\ "" \in V /\ 0 \in I /\ << >> \in S
      BY EmptyBody
    <2> HIDE DEF A, V, I, S
    <2>3. QED
      BY <2>1, <2>2 DEF NoLoad
  <1>4. /\ edition = [u \in Urls |-> 1] /\ dir = [n \in Names |-> 0]
        /\ disk = [i \in Inodes |-> EmptyFile] /\ load = [p \in Procs |-> NoLoad]
    BY DEF CacheInit
  <1>5. ASSUME NEW p \in Procs PROVE LoadRight(p)
    <2>1. load[p].at = "idle" /\ load[p].inode = 0 /\ load[p].sent = 0
      BY <1>3, <1>4
    <2>2. QED
      BY <2>1 DEF LoadRight
  <1>6. CacheTyped
    BY <1>1, <1>2, <1>3, <1>4, <1>5 DEF CacheTyped
  <1>7. \A n \in Names, i \in Inodes : dir[n] # i
    BY <1>4, InodesPositive
  <1>8. QED
    BY <1>6, <1>7 DEF CacheInv, Linked, FilesExplained

\* A file nobody has to do with any more has been written to its end.
LEMMA ExplainedFilesWhole == CacheInv => SettledFilesWhole
  <1> SUFFICES ASSUME CacheInv, NEW n \in Names, dir[n] # 0, AtWork(dir[n]) = {}
               PROVE  LET file == disk[dir[n]]
                      IN \/ Whole(file.pieces, n) \/ HasPage(file.pieces)
                         \/ file.abandoned \/ file.cropped
                         \/ file.contended /\ Unsettled(n)
    BY DEF SettledFilesWhole
  <1> DEFINE i == dir[n]
             pieces == disk[i].pieces
  <1>1. i \in Inodes
    BY DEF CacheInv, CacheTyped
  <1>2. pieces \in Seq(PieceSet)
    <2>1. disk[i] \in DiskFiles
      BY <1>1 DEF CacheInv, CacheTyped
    <2>2. QED
      BY <2>1 DEF DiskFiles
  <1>3. Writers(i) = {} /\ Removers(i) = {}
    BY DEF AtWork, Writers, Removers
  <1>4. Explained(i, n)
    BY <1>1 DEF CacheInv, FilesExplained
  <1>5. SUFFICES ASSUME NEW u \in Urls, NEW e \in 1 .. Len(Pieces), FileName[u] = n, OneEdition(i, u, e)
                 PROVE  Whole(pieces, n) \/ HasPage(pieces)
    BY <1>3, <1>4 DEF Explained
  <1>6. pieces = Body(u, e) \/ PageFirst(pieces, u)
    BY <1>3, <1>5 DEF OneEdition
  <1> HIDE DEF pieces
  <1>7. CASE pieces = Body(u, e)
    <2>1. e \in DOMAIN Pieces
      BY CacheAssumption
    <2>2. QED
      BY <1>5, <1>7, <2>1 DEF Whole
  <1>8. CASE PageFirst(pieces, u)
    <2>1. 1 \in DOMAIN pieces
      BY <1>2, <1>8 DEF PageFirst
    <2>2. pieces[1].edition = 0 /\ pieces[1].n = 1
      BY <1>8 DEF PageFirst, Piece
    <2>3. pieces[1].n > 0
      BY <2>2
    <2>4. QED
      BY <2>1, <2>2, <2>3 DEF HasPage
  <1>9. QED
    BY <1>6, <1>7, <1>8

LEMMA CacheUnchanged == CacheInv /\ UNCHANGED cacheVars => CacheInv'
  <1> SUFFICES ASSUME CacheInv, UNCHANGED cacheVars PROVE CacheInv'
    OBVIOUS
  <1>1. UNCHANGED <<edition, dir, disk, load>>
    BY DEF cacheVars
  <1>2. CacheTyped'
    BY <1>1 DEF CacheInv, CacheTyped, LoadRight
  <1>3. Linked'
    BY <1>1 DEF CacheInv, Linked, File
  <1>4. ASSUME NEW n \in Names, NEW i \in Inodes, dir'[n] = i PROVE Explained(i, n)'
    <2>1. Explained(i, n)
      BY <1>1, <1>4 DEF CacheInv, FilesExplained
    <2>2. Writers(i)' = Writers(i) /\ Removers(i)' = Removers(i) /\ Unsettled(n)' = Unsettled(n)
      BY <1>1 DEF Writers, Removers, Unsettled
    <2>3. ASSUME NEW u, NEW e, OneEdition(i, u, e) PROVE OneEdition(i, u, e)'
      BY <1>1, <2>2, <2>3 DEF OneEdition, Covers
    <2>4. QED
      BY <1>1, <2>1, <2>2, <2>3 DEF Explained
  <1>5. QED
    BY <1>2, <1>3, <1>4 DEF CacheInv, FilesExplained

\* The engine and the other processes do nothing to the cache but what download does.
CacheShared == CacheInv /\ unread \in Seq(Urls)

LEMMA CacheNext == CacheShared /\ [Next]_vars => CacheShared'
  <1> SUFFICES ASSUME CacheInv, unread \in Seq(Urls), [Next]_vars
               PROVE  CacheInv' /\ unread' \in Seq(Urls)
    BY DEF CacheShared
  <1>1. CASE NextFeed
    <2>1. unread # << >> /\ Request(Self, Head(unread), reload) /\ unread' = Tail(unread)
      BY <1>1 DEF NextFeed
    <2>2. Head(unread) \in Urls /\ unread' \in Seq(Urls)
      BY <2>1
    <2>3. QED
      BY <2>1, <2>2, RequestKeeps, SessionAssumption
  <1>2. CASE Load
    BY <1>2, LoadingKeeps, SessionAssumption DEF Load, sessionVars
  <1>3. CASE LoadFails \/ ReadFeed
    BY <1>3, ReturnKeeps, SessionAssumption DEF LoadFails, ReadFeed
  <1>4. CASE Die
    BY <1>4, KillKeeps, SessionAssumption DEF Die
  <1>5. CASE Others
    <2>1. unread' = unread
      BY <1>5 DEF Others, sessionVars
    <2>2. ASSUME NEW p \in Procs, NEW u \in Urls, NEW force \in BOOLEAN, Request(p, u, force)
          PROVE  CacheInv'
      BY <2>2, RequestKeeps
    <2>3. ASSUME NEW p \in Procs, Loading(p) \/ Return(p) \/ Kill(p) PROVE CacheInv'
      BY <2>3, LoadingKeeps, ReturnKeeps, KillKeeps
    <2>4. ASSUME NEW u \in Urls, Publish(u) PROVE CacheInv'
      BY <2>4, PublishKeeps
    <2>5. QED
      BY <1>5, <2>1, <2>2, <2>3, <2>4 DEF Others
  <1>6. CASE AddDriver \/ Run \/ FreeEngine \/ AddPackage \/ EndOfFeed \/ Solve \/ HandleNext
             \/ AllHandled \/ UNCHANGED vars
    <2>1. UNCHANGED <<cacheVars, unread>>
      BY <1>6 DEF AddDriver, Run, FreeEngine, AddPackage, EndOfFeed, Solve, HandleNext, AllHandled,
                  vars, sessionVars
    <2>2. QED
      BY <2>1, CacheUnchanged
  <1>7. CASE Restart
    BY <1>7, CacheUnchanged, SessionAssumption DEF Restart, Afresh
  <1>8. QED
    BY <1>1, <1>2, <1>3, <1>4, <1>5, <1>6, <1>7 DEF Next, Client, Running

\* Whatever processes write to the cache, are killed or find the disk full, a file that
\* is left alone is one edition of its feed, or there is a reason why it is not
\* (url_curl.cpp:22-28 and 60-79, url.cpp:28).
THEOREM SettledFilesAreWhole == Spec => []SettledFilesWhole
  <1>1. Init => CacheShared
    BY CacheInitially, SessionAssumption DEF Init, CacheShared
  <1>2. CacheShared => SettledFilesWhole
    BY ExplainedFilesWhole DEF CacheShared
  <1>3. QED
    BY <1>1, <1>2, CacheNext, PTL DEF Spec
=============================================================================
