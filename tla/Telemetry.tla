----------------------------- MODULE Telemetry ------------------------------
(***************************************************************************)
(* What the coordinator remembers from poll to poll (coordinator.py): how  *)
(* long the circulator has been running, which gates the flow check, and   *)
(* the recent mode changes, which raise the thrashing issue (health.py).   *)
(*                                                                         *)
(* Time is discrete.  A moment is kept as its age in ticks, capped where   *)
(* older ages can no longer be told apart, so that the state is finite     *)
(* although time is not.                                                   *)
(***************************************************************************)
EXTENDS Integers, Sequences, FiniteSets

CONSTANTS
  None,
  MachineStates,   \* the states register 200 shows
  PumpStates,      \* "on" and "off", or one of them
  DeltaTs,         \* "high" is above DELTA_T_MAX; None when a probe is missing
  Settle,          \* FLOW_SETTLE_SECONDS in ticks
  Hour,            \* the window of the switch rate in ticks
  Threshold,       \* MODE_THRASHING_THRESHOLD
  MaxLen,          \* maxlen of the deque of switch times
  MaxChanges       \* bound on how often the machine changes its state

ASSUME TelemetryAssumption ==
  /\ None \notin Nat \cup BOOLEAN
  /\ Settle \in Nat \ {0} /\ Hour \in Nat \ {0}
  /\ PumpStates \subseteq {"on", "off"} /\ DeltaTs \subseteq {None, "normal", "high"}
  /\ Threshold \in Nat \ {0} /\ MaxLen \in Nat /\ MaxLen >= Threshold /\ MaxChanges \in Nat

VARIABLES
  \* the machine
  machine_state, changes_left,
  pump,               \* "on" or "off"
  \* the coordinator
  circulating_since,  \* age of the poll that first saw the pump running, or None
  last_state, switch_times, mode_switches,
  data, issue,        \* the last good poll, and whether the thrashing issue exists
  \* the entry, the refresh in flight, and whether its executor job has answered
  loaded, refresh, answered, result,
  \* a refresh that outlived its unloaded entry: the switch rate it found, or None
  stray,
  \* history, for the properties only
  polls,              \* age and verdict of the polls that answered
  switches,           \* ages of all the changes seen, the oldest first
  strayed             \* a stray refresh was the last to check the installation

machine == << machine_state, changes_left, pump >>
memory  == << circulating_since, last_state, switch_times, mode_switches >>
flight  == << refresh, answered, result >>
history == << polls, switches, strayed >>
vars == << machine, memory, data, issue, loaded, flight, stray, history >>

NoReading == [delta_t |-> None, flow_restricted |-> None, mode_switches |-> 0,
              switches_per_hour |-> 0]

Forgotten == /\ circulating_since' = None /\ last_state' = None
             /\ switch_times' = << >> /\ mode_switches' = 0

Init == /\ machine_state \in MachineStates /\ changes_left = MaxChanges
        /\ pump \in PumpStates
        /\ circulating_since = None /\ last_state = None
        /\ switch_times = << >> /\ mode_switches = 0
        /\ data = NoReading /\ issue = FALSE
        /\ loaded = FALSE /\ refresh = "none" /\ answered = FALSE /\ result = NoReading
        /\ stray = None
        /\ polls = {} /\ switches = << >> /\ strayed = FALSE

-----------------------------------------------------------------------------
\* The machine and the clock.
Least(a, b) == IF a < b THEN a ELSE b
Older(age, cap) == Least(age + 1, cap)

ChangeState == /\ changes_left > 0
               /\ machine_state' \in MachineStates \ {machine_state}
               /\ changes_left' = changes_left - 1
               /\ UNCHANGED << pump, memory, data, issue, loaded, flight, stray,
                               history >>

SwitchPump == /\ pump' \in PumpStates \ {pump}
              /\ UNCHANGED << machine_state, changes_left, memory, data, issue, loaded,
                              flight, stray, history >>

Tick ==
  /\ circulating_since' = IF circulating_since = None THEN None
                                                      ELSE Older(circulating_since, Settle)
  /\ switch_times' = [i \in DOMAIN switch_times |-> Older(switch_times[i], Hour + 1)]
  /\ polls' = {[p EXCEPT !.age = Older(@, Settle)] : p \in polls}
  /\ switches' = [i \in DOMAIN switches |-> Older(switches[i], Hour + 1)]
  /\ UNCHANGED << machine_state, changes_left, pump, last_state, mode_switches, data, issue,
                  loaded, flight, stray, strayed >>

-----------------------------------------------------------------------------
\* The refresh: the scheduled one is a background task of the entry, the one a
\* write asked for is not.
Begin(kind) == /\ loaded /\ refresh = "none"
               /\ refresh' = kind
               /\ UNCHANGED << machine, memory, data, issue, loaded, answered, result, stray,
                               history >>

\* Mutant: a stop of the pump is not remembered.
CirculatingSince_kept(circulator) ==
  IF circulating_since = None THEN (IF circulator = "on" THEN 0 ELSE None) ELSE circulating_since

\* Since when the pump has been seen running; an absent reading counts as stopped.
CirculatingSince(circulator) ==
  IF circulator = "on" THEN (IF circulating_since = None THEN 0 ELSE circulating_since)
                       ELSE None

FlowRestricted(since, delta_t) ==
  IF delta_t = None THEN None
  ELSE (IF since = None THEN FALSE ELSE since >= Settle) /\ delta_t = "high"

\* A deque drops its oldest element when it is full.
AppendTime(times) ==
  Append(IF Len(times) = MaxLen THEN Tail(times) ELSE times, 0)

\* Mutant: changes an hour old stay in the window.
Recent_unpruned(times) == times

\* How many of the oldest changes are popped: while the first is older than the hour.
Expired(times) == Cardinality({n \in DOMAIN times : \A i \in 1 .. n : times[i] > Hour})

\* Changes older than the hour are discarded.
Recent(times) == SubSeq(times, Expired(times) + 1, Len(times))

\* The executor job has read the whole machine: what it remembers is updated and
\* the data of this poll is on its way to the event loop.
JobDone(circulator, delta_t, state) ==
  /\ refresh # "none" /\ ~ answered
  /\ LET since   == CirculatingSince(circulator)
         changed == state # None /\ last_state # None /\ state # last_state
         times   == Recent(IF changed THEN AppendTime(switch_times) ELSE switch_times)
     IN /\ circulating_since' = since
        /\ last_state' = IF state = None THEN last_state ELSE state
        /\ mode_switches' = IF changed THEN mode_switches + 1 ELSE mode_switches
        /\ switch_times' = times
        /\ result' = [delta_t           |-> delta_t,
                      flow_restricted   |-> FlowRestricted(since, delta_t),
                      mode_switches     |-> mode_switches',
                      switches_per_hour |-> Len(times)]
        /\ switches' = IF changed THEN Append(switches, 0) ELSE switches
        /\ polls' = polls \cup {[age |-> 0, running |-> circulator = "on"]}
  /\ answered' = TRUE
  /\ UNCHANGED << machine, data, issue, loaded, refresh, stray, strayed >>

\* A machine that answers, one whose probes or whose state word are missing.
JobReads == \E circulator \in {pump, None}, delta_t \in DeltaTs,
               state \in {machine_state, None} : JobDone(circulator, delta_t, state)

\* UpdateFailed: the data stays, the installation is not checked.  A set-up whose
\* first refresh fails is tried again later with a new coordinator.
JobFails == /\ refresh # "none" /\ ~ answered
            /\ refresh' = "none"
            /\ UNCHANGED << machine, memory, data, issue, loaded, answered, result, stray, history >>

\* Mutant: the issue is only ever created.
async_check_never_clears(switches_per_hour) == issue \/ switches_per_hour >= Threshold

\* health.async_check: the issue is created while the condition holds and deleted
\* once it does not.
async_check(switches_per_hour) == switches_per_hour >= Threshold

\* Back in the event loop: the health check, then the data is handed out; the first
\* refresh of a set-up also lets the entry be loaded.
Finish == /\ answered
          /\ issue' = async_check(result.switches_per_hour)
          /\ data' = result
          /\ loaded' = TRUE
          /\ refresh' = "none" /\ answered' = FALSE
          /\ strayed' = FALSE
          /\ UNCHANGED << machine, memory, result, stray, polls, switches >>

\* A new coordinator, which remembers nothing, and its first refresh.
Setup == /\ ~ loaded /\ refresh = "none"
         /\ refresh' = "first"
         /\ Forgotten
         /\ data' = NoReading /\ result' = NoReading
         /\ polls' = {} /\ switches' = << >>
         /\ UNCHANGED << machine, issue, loaded, answered, stray, strayed >>

\* The rates a requested refresh may still come back with: the one it found or, while
\* it is still reading, any that the changes seen so far and one more allow.
StillToCome ==
  IF answered THEN {result.switches_per_hour} ELSE 0 .. Len(Recent(AppendTime(switch_times)))

\* Unload: the issue is cleared.  A refresh that is a background task of the entry is
\* cancelled with it; one that a write asked for is not, and runs on.  At most one such
\* refresh is followed at a time.
Unload == /\ loaded
          /\ loaded' = FALSE
          /\ issue' = FALSE /\ strayed' = FALSE
          /\ refresh' = "none" /\ answered' = FALSE
          /\ IF refresh = "requested" THEN stray = None /\ stray' \in StillToCome
                                      ELSE UNCHANGED stray
          /\ UNCHANGED << machine, memory, data, result, polls, switches >>

\* The old coordinator's refresh ends with the health check as well, or fails.
StrayEnds == /\ stray # None
             /\ stray' = None
             /\ \/ /\ issue' = async_check(stray)
                   /\ strayed' = TRUE
                \/ UNCHANGED << issue, strayed >>
             /\ UNCHANGED << machine, memory, data, loaded, flight, polls, switches >>

Next == \/ ChangeState \/ SwitchPump \/ Tick
        \/ Begin("scheduled") \/ Begin("requested")
        \/ JobReads \/ JobFails \/ Finish
        \/ Setup \/ Unload \/ StrayEnds

\* The event loop and the executor go on, and so does time.
Fairness == WF_vars(Tick) /\ WF_vars(Finish) /\ WF_vars(StrayEnds)

Spec == Init /\ [][Next]_vars /\ Fairness

-----------------------------------------------------------------------------
\* The issue is there exactly while the data shows that many changes in an hour:
\* neither a failed poll nor a reload leaves it behind
\* (health.py:20-21).  The one exception is a refresh that outlived an unload, until
\* the next poll that answers.
IssueMatchesData ==
  loaded /\ ~ strayed => (issue <=> data.switches_per_hour >= Threshold)

\* The changes of the last hour, the one at its very beginning included.
WithinHour(ages) == {i \in DOMAIN ages : ages[i] <= Hour}

\* The rate a poll reports is the number of changes seen within the last hour, as far as
\* the deque holds them; the total is never below it (coordinator.py:107-110, 336-341).
RateIsTheLastHour ==
  [][result' # result =>
       /\ result'.switches_per_hour = Least(Cardinality(WithinHour(switches')), MaxLen)
       /\ result'.switches_per_hour <= result'.mode_switches]_vars

\* A flow restriction is only reported when some poll saw the pump running at least
\* the settling time ago and no later one saw it stopped or unread
\* (coordinator.py:282-307).
RestrictedOnlyAfterSettling ==
  [][result' # result /\ result'.flow_restricted = TRUE =>
       \E p \in polls' : /\ p.running /\ p.age >= Settle
                         /\ \A q \in polls' : q.age < Settle => q.running]_vars

\* The issue clears itself once the machine is quiet, if polls go on answering
\* (health.py:20-21).
IssueClears == []<><<JobReads>>_vars => <>[](~ issue)
=============================================================================
