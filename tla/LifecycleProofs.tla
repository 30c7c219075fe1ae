--------------------------- MODULE LifecycleProofs --------------------------
(***************************************************************************)
(* Proofs about Lifecycle, for every default and any number of waiting     *)
(* writes: reloads leave no platform behind, and a coordinator that        *)
(* refuses writes has no controls.                                         *)
(***************************************************************************)
EXTENDS Lifecycle, TLAPS

\* The platforms chosen at the first answer are kept until the entry is unloaded.
Chosen ==
  entry \in {"forwarding", "loaded", "unloading"} => platforms[current] = PlatformsOf(current)

\* Nothing of a coordinator that refuses writes is on the bus or waiting to be.
Refusing == \A g \in Coordinators : read_only[g] => job[g] # "write" /\ waiting[g] = 0

IInv == TypeOK /\ NothingLeftBehind /\ ServicesFindTheCurrent /\ Chosen /\ Refusing

LEMMA InvInit == Init => IInv
<1> SUFFICES ASSUME Init PROVE IInv
  OBVIOUS
<1>1. /\ data_read_only \in BOOLEAN /\ options_read_only \in BOOLEAN \cup {Unset}
      /\ listening \in BOOLEAN /\ reload \in BOOLEAN
      /\ entry = "not_loaded" /\ runtime_data = Unset /\ up = {}
      /\ current \in Coordinators
  BY DEF Init, Coordinators
<1>2. /\ read_only \in [Coordinators -> BOOLEAN]
      /\ platforms \in [Coordinators -> SUBSET Platforms]
      /\ job \in [Coordinators -> {"none", "poll", "write"}]
      /\ orphan \in [Coordinators -> BOOLEAN]
  BY DEF Init
<1>3. waiting \in [Coordinators -> 0 .. MaxWaiting]
  BY LifecycleAssumption DEF Init
<1>4. TypeOK
  BY <1>1, <1>2, <1>3 DEF TypeOK
<1>5. Refusing
  BY DEF Init, Refusing
<1> QED BY <1>1, <1>4, <1>5 DEF IInv, NothingLeftBehind, ServicesFindTheCurrent, Chosen

\* The lock passes to a waiting write, if there is one.
LEMMA LockPasses ==
  ASSUME TypeOK, NEW g \in Coordinators,
         job' = [job EXCEPT ![g] = IF waiting[g] > 0 THEN "write" ELSE "none"],
         waiting' = [waiting EXCEPT ![g] = IF @ > 0 THEN @ - 1 ELSE 0]
  PROVE  /\ job' \in [Coordinators -> {"none", "poll", "write"}]
         /\ waiting' \in [Coordinators -> 0 .. MaxWaiting]
<1>1. waiting[g] \in 0 .. MaxWaiting
  BY DEF TypeOK
<1>2. (IF waiting[g] > 0 THEN waiting[g] - 1 ELSE 0) \in 0 .. MaxWaiting
  BY <1>1, LifecycleAssumption
<1> QED BY <1>2 DEF TypeOK

\* Every step keeps the types: the steps of the entry first, then those of the
\* coordinators.
LEMMA TypeStep == TypeOK /\ [Next]_vars => TypeOK'
<1> SUFFICES ASSUME TypeOK, [Next]_vars PROVE TypeOK'
  OBVIOUS
<1> USE LifecycleAssumption DEF TypeOK, Coordinators
<1>0. _read_only \in BOOLEAN
  BY DEF _read_only
<1>1. ASSUME NEW choice \in BOOLEAN, OptionsSubmitted(choice) \/ Reconfigured(choice)
      PROVE  TypeOK'
  BY <1>1 DEF OptionsSubmitted, Reconfigured, locks
<1>2. CASE Setup
  <2> DEFINE new == 3 - current
  <2>1. new \in Coordinators
    OBVIOUS
  <2>2. /\ entry' = "first_refresh" /\ current' = new /\ reload' = FALSE
        /\ read_only' = [read_only EXCEPT ![new] = _read_only]
        /\ platforms' = [platforms EXCEPT ![new] = {}]
        /\ job' = [job EXCEPT ![new] = "poll"]
        /\ UNCHANGED << settings, runtime_data, listening, up, waiting, orphan >>
    BY <1>2 DEF Setup
  <2>3. UNCHANGED << data_read_only, options_read_only >>
    BY <2>2 DEF settings
  <2> HIDE DEF new
  <2> QED BY <1>0, <2>1, <2>2, <2>3 DEF Platforms
<1>3. CASE FirstRefreshAnswers
  <2>1. PlatformsOf(current) \subseteq Platforms
    BY DEF PlatformsOf, Platforms
  <2> QED BY <1>3, <2>1 DEF FirstRefreshAnswers, settings
<1>4. CASE FirstRefreshFails
  BY <1>4 DEF FirstRefreshFails, settings
<1>5. CASE Forwarded
  BY <1>5 DEF Forwarded, settings, locks
<1>6. CASE UnloadEntry
  BY <1>6 DEF UnloadEntry, settings, locks
<1>7. CASE Unloaded
  <2>1. /\ job' \in [Coordinators -> {"none", "poll", "write"}]
        /\ waiting' \in [Coordinators -> 0 .. MaxWaiting]
        /\ orphan' \in [Coordinators -> BOOLEAN]
    <3>1. CASE UNCHANGED locks
      BY <3>1 DEF locks
    <3>2. CASE ~ UNCHANGED locks
      <4>1. /\ current \in Coordinators
            /\ orphan' = [orphan EXCEPT ![current] = TRUE]
            /\ job' = [job EXCEPT ![current] = IF waiting[current] > 0 THEN "write" ELSE "none"]
            /\ waiting' = [waiting EXCEPT ![current] = IF @ > 0 THEN @ - 1 ELSE 0]
        BY <1>7, <3>2 DEF Unloaded
      <4>2. orphan' \in [Coordinators -> BOOLEAN]
        BY <4>1
      <4> QED BY <4>1, <4>2, LockPasses
    <3> QED BY <3>1, <3>2
  <2> QED BY <1>7, <2>1 DEF Unloaded, settings
<1>8. CASE Write
  BY <1>8 DEF Write, Found, settings
<1>9. CASE Poll
  BY <1>9 DEF Poll, settings
<1>10. ASSUME NEW g \in Coordinators, JobEnds(g) \/ OrphanEnds(g)
       PROVE  TypeOK'
  <2>1. CASE JobEnds(g)
    BY <2>1, LockPasses DEF JobEnds, settings
  <2>2. CASE OrphanEnds(g)
    BY <2>2 DEF OrphanEnds, settings
  <2> QED BY <1>10, <2>1, <2>2
<1>11. CASE UNCHANGED vars
  BY <1>11 DEF vars, settings, locks
<1> QED
  BY <1>1, <1>2, <1>3, <1>4, <1>5, <1>6, <1>7, <1>8, <1>9, <1>10, <1>11 DEF Next

\* A coordinator takes its first write when it may write, and what it may do is settled
\* when it is made, with nothing waiting.
LEMMA RefusingStep == TypeOK /\ Refusing /\ [Next]_vars => Refusing'
<1> SUFFICES ASSUME TypeOK, Refusing, [Next]_vars PROVE Refusing'
  OBVIOUS
<1> USE LifecycleAssumption DEF TypeOK, Refusing, Coordinators
<1>1. CASE UNCHANGED << read_only, locks >>
  BY <1>1 DEF locks
<1>2. CASE Setup
  BY <1>2 DEF Setup, Quiet
<1>3. CASE FirstRefreshAnswers \/ FirstRefreshFails \/ Poll
  BY <1>3 DEF FirstRefreshAnswers, FirstRefreshFails, Poll
<1>4. CASE Unloaded
  BY <1>4 DEF Unloaded, locks
<1>5. CASE Write
  BY <1>5 DEF Write, Found
<1>6. ASSUME NEW g \in Coordinators, JobEnds(g)
      PROVE  Refusing'
  BY <1>6 DEF JobEnds
<1>7. ASSUME NEW g \in Coordinators, OrphanEnds(g)
      PROVE  Refusing'
  BY <1>7 DEF OrphanEnds
<1> QED
  BY <1>1, <1>2, <1>3, <1>4, <1>5, <1>6, <1>7
     DEF Next, vars, OptionsSubmitted, Reconfigured, Forwarded, UnloadEntry

LEMMA InvStep == IInv /\ [Next]_vars => IInv'
<1> SUFFICES ASSUME IInv, [Next]_vars PROVE IInv'
  OBVIOUS
<1>0. /\ TypeOK /\ TypeOK' /\ NothingLeftBehind /\ ServicesFindTheCurrent /\ Chosen
      /\ Refusing'
  BY TypeStep, RefusingStep DEF IInv
<1> SUFFICES NothingLeftBehind' /\ ServicesFindTheCurrent' /\ Chosen'
  BY <1>0 DEF IInv
<1> USE <1>0, LifecycleAssumption
    DEF TypeOK, NothingLeftBehind, ServicesFindTheCurrent, Chosen, UnloadedPlatforms,
        PlatformsOf, Coordinators
<1>1. CASE UNCHANGED << entry, current, runtime_data, up, read_only, platforms >>
  BY <1>1
<1>2. CASE Setup
  BY <1>2 DEF Setup
<1>3. CASE FirstRefreshAnswers
  BY <1>3 DEF FirstRefreshAnswers
<1>4. CASE FirstRefreshFails
  BY <1>4 DEF FirstRefreshFails
<1>5. CASE Forwarded
  BY <1>5 DEF Forwarded
<1>6. CASE UnloadEntry
  BY <1>6 DEF UnloadEntry
<1>7. CASE Unloaded
  BY <1>7 DEF Unloaded
<1> QED
  BY <1>1, <1>2, <1>3, <1>4, <1>5, <1>6, <1>7
     DEF Next, vars, OptionsSubmitted, Reconfigured, Write, Poll, JobEnds, OrphanEnds

LEMMA Inductive == Spec => []IInv
<1> QED BY InvInit, InvStep, PTL DEF Spec

\* However settings change in the middle of set-ups and reloads, unloading leaves no
\* platform behind (__init__.py:92-95).
THEOREM UnloadsWhatWasSetUp == Spec => []NothingLeftBehind
<1>1. IInv => NothingLeftBehind
  BY DEF IInv
<1> QED BY <1>1, Inductive, PTL

\* A coordinator that refuses writes has no control entities and sends nothing
\* (const.py:27-29).
THEOREM ReadOnlyHasNoControls == Spec => []NoControlsWhenReadOnly
<1>1. IInv => NoControlsWhenReadOnly
  <2>1. PLATFORMS_READ \cap PLATFORMS_WRITE = {}
    BY DEF PLATFORMS_READ, PLATFORMS_WRITE
  <2> QED BY <2>1 DEF IInv, TypeOK, NothingLeftBehind, Chosen, Refusing, PlatformsOf,
                      UnloadedPlatforms, NoControlsWhenReadOnly
<1> QED BY <1>1, Inductive, PTL

\* Services find the coordinator of the entry, and only once its machine has answered
\* (services.py:68-82).
THEOREM ServicesFindIt == Spec => []ServicesFindTheCurrent
<1>1. IInv => ServicesFindTheCurrent
  BY DEF IInv
<1> QED BY <1>1, Inductive, PTL
=============================================================================
