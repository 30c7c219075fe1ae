------------------------------ MODULE Lifecycle -----------------------------
(***************************************************************************)
(* One configuration entry (__init__.py): set-up, reload on changed        *)
(* settings, unload, and the coordinators it leaves behind, whose calls    *)
(* and executor jobs nobody waits for (coordinator.py, services.py).       *)
(*                                                                         *)
(* A reload makes a new coordinator with a lock of its own.  Two           *)
(* coordinators are followed, the entry's and the one before it.           *)
(***************************************************************************)
EXTENDS Integers

CONSTANTS
  Unset,
  DEFAULT_READ_ONLY,
  MaxWaiting        \* bound: writes that wait for one coordinator's lock

ASSUME LifecycleAssumption ==
  Unset \notin BOOLEAN /\ DEFAULT_READ_ONLY \in BOOLEAN /\ MaxWaiting \in Nat

PLATFORMS_READ == {"sensor", "binary_sensor"}
PLATFORMS_WRITE == {"button", "climate", "number", "select", "switch", "water_heater"}
Coordinators == {1, 2}

VARIABLES
  \* the entry
  data_read_only, options_read_only,
  entry,            \* "not_loaded", "first_refresh", "forwarding", "loaded" or "unloading"
  current,          \* the coordinator made last
  runtime_data,     \* the coordinator services find, or Unset
  listening,        \* the update listener is registered
  reload,           \* a reload is waiting for the entry
  up,               \* the platforms that exist
  \* the coordinators
  read_only, platforms,
  job,              \* who holds the lock: "none", "poll" or "write"
  waiting,          \* writes queued on the lock
  orphan            \* a poll runs on in the executor although its task was cancelled

settings == << data_read_only, options_read_only >>
locks == << job, waiting, orphan >>
vars == << settings, entry, current, runtime_data, listening, reload, up, read_only, platforms,
           locks >>

\* _read_only: options win over data.
_read_only ==
  IF options_read_only # Unset THEN options_read_only
  ELSE IF data_read_only # Unset THEN data_read_only ELSE DEFAULT_READ_ONLY

Init ==
  /\ data_read_only \in BOOLEAN /\ options_read_only = Unset
  /\ entry = "not_loaded" /\ current = 1 /\ runtime_data = Unset
  /\ listening = FALSE /\ reload = FALSE /\ up = {}
  /\ read_only = [g \in Coordinators |-> FALSE]
  /\ platforms = [g \in Coordinators |-> {}]
  /\ job = [g \in Coordinators |-> "none"]
  /\ waiting = [g \in Coordinators |-> 0]
  /\ orphan = [g \in Coordinators |-> FALSE]

-----------------------------------------------------------------------------
\* The settings.

\* The options form: the listener, if there is one, asks for a reload.
OptionsSubmitted(choice) ==
  /\ options_read_only' = choice
  /\ reload' = (reload \/ (listening /\ options_read_only # choice))
  /\ UNCHANGED << data_read_only, entry, current, runtime_data, listening, up, read_only,
                  platforms, locks >>

\* The reconfiguration form always asks for a reload.
Reconfigured(choice) ==
  /\ data_read_only' = choice
  /\ reload' = TRUE
  /\ UNCHANGED << options_read_only, entry, current, runtime_data, listening, up, read_only,
                  platforms, locks >>

-----------------------------------------------------------------------------
\* Set-up and unload.  Home Assistant runs one of them at a time for an entry.
Quiet(g) == job[g] = "none" /\ waiting[g] = 0 /\ ~ orphan[g]

\* Mutant: the coordinator is published before its first refresh.
Setup_published_early ==
  LET new == 3 - current
  IN /\ entry = "not_loaded" /\ Quiet(new)
     /\ entry' = "first_refresh"
     /\ current' = new
     /\ read_only' = [read_only EXCEPT ![new] = _read_only]
     /\ platforms' = [platforms EXCEPT ![new] = {}]
     /\ job' = [job EXCEPT ![new] = "poll"]
     /\ reload' = FALSE
     /\ runtime_data' = new
     /\ UNCHANGED << settings, listening, up, waiting, orphan >>

\* async_setup_entry up to its first await: the setting is read, the first refresh
\* begins.  A set-up that failed is begun again.
Setup ==
  LET new == 3 - current
  IN /\ entry = "not_loaded" /\ Quiet(new)
     /\ entry' = "first_refresh"
     /\ current' = new
     /\ read_only' = [read_only EXCEPT ![new] = _read_only]
     /\ platforms' = [platforms EXCEPT ![new] = {}]
     /\ job' = [job EXCEPT ![new] = "poll"]
     /\ reload' = FALSE
     /\ UNCHANGED << settings, runtime_data, listening, up, waiting, orphan >>

\* Mutant: the setting is read a second time, after the first refresh.
PlatformsOf_reread(g) == PLATFORMS_READ \cup IF _read_only THEN {} ELSE PLATFORMS_WRITE

\* The control platforms only where the coordinator may write.
PlatformsOf(g) == PLATFORMS_READ \cup IF read_only[g] THEN {} ELSE PLATFORMS_WRITE

\* The machine answered: the coordinator is published, the platforms are chosen.
FirstRefreshAnswers ==
  /\ entry = "first_refresh"
  /\ entry' = "forwarding"
  /\ job' = [job EXCEPT ![current] = "none"]
  /\ runtime_data' = current
  /\ platforms' = [platforms EXCEPT ![current] = PlatformsOf(current)]
  /\ UNCHANGED << settings, current, listening, reload, up, read_only, waiting, orphan >>

\* Mutant: a machine that does not answer fails the set-up for good.
FirstRefreshFails_for_good ==
  /\ entry = "first_refresh"
  /\ entry' = "failed"
  /\ job' = [job EXCEPT ![current] = "none"]
  /\ UNCHANGED << settings, current, runtime_data, listening, reload, up, read_only, platforms,
                  waiting, orphan >>

\* It did not: Home Assistant will try again.
FirstRefreshFails ==
  /\ entry = "first_refresh"
  /\ entry' = "not_loaded"
  /\ job' = [job EXCEPT ![current] = "none"]
  /\ UNCHANGED << settings, current, runtime_data, listening, reload, up, read_only, platforms,
                  waiting, orphan >>

\* The platforms are set up, then the listener and the shutdown are registered.
Forwarded ==
  /\ entry = "forwarding"
  /\ entry' = "loaded"
  /\ up' = up \cup platforms[current]
  /\ listening' = TRUE
  /\ UNCHANGED << settings, current, runtime_data, reload, read_only, platforms, locks >>

\* Mutant: the platforms to unload are worked out anew.
UnloadedPlatforms_recomputed == PLATFORMS_READ \cup IF _read_only THEN {} ELSE PLATFORMS_WRITE

\* async_unload_entry: exactly the platforms that were set up.
UnloadedPlatforms == platforms[current]

\* A reload, or the user's unloading, begins.
UnloadEntry ==
  /\ entry = "loaded"
  /\ entry' = "unloading"
  /\ up' = up \ UnloadedPlatforms
  /\ UNCHANGED << settings, current, runtime_data, listening, reload, read_only, platforms, locks >>

\* The registered callbacks run and the entry's own tasks are cancelled.  A poll loses
\* the lock but not its thread; writes and their queue are nobody's to cancel.
Unloaded ==
  /\ entry = "unloading"
  /\ entry' = "not_loaded"
  /\ listening' = FALSE
  /\ runtime_data' = Unset
  /\ IF job[current] = "poll"
       THEN /\ orphan' = [orphan EXCEPT ![current] = TRUE]
            /\ job' = [job EXCEPT ![current] = IF waiting[current] > 0 THEN "write" ELSE "none"]
            /\ waiting' = [waiting EXCEPT ![current] = IF @ > 0 THEN @ - 1 ELSE 0]
       ELSE UNCHANGED locks
  /\ UNCHANGED << settings, current, reload, up, read_only, platforms >>

-----------------------------------------------------------------------------
\* The coordinators at work.

\* A service finds the coordinator of a loaded entry, or reports that there is none.
Found == runtime_data # Unset

\* A service or an entity writes through the coordinator it finds: refused when that is
\* read-only, queued when its lock is held.
Write ==
  /\ Found
  /\ ~ read_only[runtime_data]
  /\ IF job[runtime_data] = "none"
       THEN job' = [job EXCEPT ![runtime_data] = "write"] /\ UNCHANGED waiting
       ELSE /\ waiting[runtime_data] < MaxWaiting
            /\ waiting' = [waiting EXCEPT ![runtime_data] = @ + 1]
            /\ UNCHANGED job
  /\ UNCHANGED << settings, entry, current, runtime_data, listening, reload, up, read_only,
                  platforms, orphan >>

Poll ==
  /\ entry = "loaded" /\ job[current] = "none"
  /\ job' = [job EXCEPT ![current] = "poll"]
  /\ UNCHANGED << settings, entry, current, runtime_data, listening, reload, up, read_only,
                  platforms, waiting, orphan >>

\* The job is over and the lock passes on.
JobEnds(g) ==
  /\ job[g] # "none" /\ ~ (entry = "first_refresh" /\ g = current)
  /\ job' = [job EXCEPT ![g] = IF waiting[g] > 0 THEN "write" ELSE "none"]
  /\ waiting' = [waiting EXCEPT ![g] = IF @ > 0 THEN @ - 1 ELSE 0]
  /\ UNCHANGED << settings, entry, current, runtime_data, listening, reload, up, read_only,
                  platforms, orphan >>

OrphanEnds(g) ==
  /\ orphan[g]
  /\ orphan' = [orphan EXCEPT ![g] = FALSE]
  /\ UNCHANGED << settings, entry, current, runtime_data, listening, reload, up, read_only,
                  platforms, job, waiting >>

Next ==
  \/ \E choice \in BOOLEAN : OptionsSubmitted(choice) \/ Reconfigured(choice)
  \/ Setup \/ FirstRefreshAnswers \/ FirstRefreshFails \/ Forwarded
  \/ UnloadEntry \/ Unloaded
  \/ Write \/ Poll
  \/ \E g \in Coordinators : JobEnds(g) \/ OrphanEnds(g)

\* Home Assistant goes on with what it began and tries a failed set-up again; jobs end;
\* and the machine, asked again and again, answers some day.
Fairness ==
  /\ WF_vars(Setup) /\ SF_vars(FirstRefreshAnswers) /\ WF_vars(Forwarded) /\ WF_vars(Unloaded)
  /\ \A g \in Coordinators : WF_vars(JobEnds(g)) /\ WF_vars(OrphanEnds(g))

Spec == Init /\ [][Next]_vars /\ Fairness

-----------------------------------------------------------------------------
Platforms == PLATFORMS_READ \cup PLATFORMS_WRITE

TypeOK ==
  /\ data_read_only \in BOOLEAN /\ options_read_only \in BOOLEAN \cup {Unset}
  /\ listening \in BOOLEAN /\ reload \in BOOLEAN
  /\ entry \in {"not_loaded", "first_refresh", "forwarding", "loaded", "unloading"}
  /\ current \in Coordinators /\ runtime_data \in Coordinators \cup {Unset}
  /\ up \subseteq Platforms
  /\ read_only \in [Coordinators -> BOOLEAN]
  /\ platforms \in [Coordinators -> SUBSET Platforms]
  /\ job \in [Coordinators -> {"none", "poll", "write"}]
  /\ waiting \in [Coordinators -> 0 .. MaxWaiting]
  /\ orphan \in [Coordinators -> BOOLEAN]

\* However the setting changed since, an unload leaves no platform behind and asks for
\* none that was never set up (__init__.py:92-95, 109-112).
NothingLeftBehind ==
  /\ entry \in {"not_loaded", "first_refresh", "forwarding", "unloading"} => up = {}
  /\ entry = "loaded" => UnloadedPlatforms = up

\* A coordinator that refuses writes never has control entities on top of it, even when
\* the setting changes while its first refresh is under way, and no write of its own is
\* on the bus or waiting to be (const.py:27-29).
NoControlsWhenReadOnly ==
  /\ up \cap PLATFORMS_WRITE # {} => ~ read_only[current]
  /\ \A g \in Coordinators : read_only[g] => job[g] # "write" /\ waiting[g] = 0

\* A service that finds a coordinator finds the one the entry made last, and never one
\* whose set-up has not got as far as its first answer (services.py:80-82).
ServicesFindTheCurrent ==
  runtime_data # Unset =>
    runtime_data = current /\ entry \in {"forwarding", "loaded", "unloading"}

\* A reload, a failed set-up or an option changed at any moment never leaves the entry
\* unloaded for good, if the machine answers some day (__init__.py:85-88).
EntryComesBack == []<>(entry = "loaded")
=============================================================================
