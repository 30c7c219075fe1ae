---------------------------- MODULE DhwHysteresis ---------------------------
(***************************************************************************)
(* The hot water automation (blueprints/automation/maxa_advantix/          *)
(* dhw_hysteresis.yaml) with the water heater entity it drives, which      *)
(* shows the state of the last poll and is unavailable after one that      *)
(* failed.  The tank follows the simulator's: it warms while hot water is  *)
(* being made, and cools by itself and by what is drawn.                   *)
(*                                                                         *)
(* One tick is a minute, in which there is one run of the automation at    *)
(* least; a poll may be several ticks late.  A run ends before the next    *)
(* trigger is looked at (mode: single).                                    *)
(***************************************************************************)
EXTENDS Integers

CONSTANTS
  Silent,          \* a probe that does not report
  Temperatures,    \* the tank's, as small numbers
  emergency_below, start_below, stop_at,
  minimum_rest, maximum_run,   \* in ticks
  ScanTicks,       \* the longest time between two polls, 600 s (const.py:21), in ticks
  Brakes           \* values the block conditions and the flow gate take

\* The blueprint relies on its user to set the three temperatures in this order.
ASSUME HysteresisAssumption ==
  /\ Silent \notin Temperatures /\ Temperatures \subseteq Nat
  /\ emergency_below \in Int /\ start_below \in Int /\ stop_at \in Temperatures
  /\ emergency_below <= start_below /\ start_below < stop_at
  /\ minimum_rest \in Nat /\ maximum_run \in Nat
  /\ ScanTicks \in Nat \ {0}
  /\ Brakes \subseteq BOOLEAN

VARIABLES
  tank, probe,         \* the water, and whether its probe reports
  making,              \* the machine: hot water selected
  shown, shown_for,    \* the state of the entity, and its age
  blocked, flow_gate,
  triggered,           \* a run of the automation is due
  unpolled,            \* ticks since the last poll
  \* history, for the properties only
  off_for,             \* age of the machine's last turning off
  run_for              \* age of the run, counted while the tank is no emergency and
                       \* from the last poll or call that failed or the probe's silence

vars == << tank, probe, making, shown, shown_for, blocked, flow_gate, triggered, unpolled,
           off_for, run_for >>

\* Ages are followed as far as they can be told apart.
Longest == (IF minimum_rest > maximum_run THEN minimum_rest ELSE maximum_run) + ScanTicks + 3
Older(age) == IF age < Longest THEN age + 1 ELSE age

Init == /\ tank \in Temperatures /\ probe = TRUE
        /\ making \in BOOLEAN
        /\ shown = (IF making THEN "heat_pump" ELSE "off") /\ shown_for = 0
        /\ blocked \in Brakes /\ flow_gate \in Brakes
        /\ triggered = FALSE /\ unpolled = 0
        /\ off_for = 0 /\ run_for = 0

-----------------------------------------------------------------------------
(* The automation's variables. *)

tank_value == IF probe THEN tank ELSE Silent
reporting  == tank_value # Silent
producing  == shown # "off"
emergency  == IF reporting THEN tank_value < emergency_below ELSE FALSE
reached    == IF reporting THEN tank_value >= stop_at ELSE FALSE
low        == IF reporting THEN tank_value < start_below ELSE FALSE

\* The state has been this for that many minutes.
For(state, minutes) == shown = state /\ shown_for >= minutes

\* The four branches of the choice, in order.
\* Mutant: a block condition holds back the emergency too.
EmergencyStart_blocked == emergency /\ ~ producing /\ ~ blocked

EmergencyStart == emergency /\ ~ producing

\* Mutant: a run ends only by a block condition.
Stop_at_block_only == producing /\ blocked /\ ~ emergency

Stop == producing /\ (reached \/ (blocked /\ ~ emergency))

\* Mutant: no branch gives up.
RanTooLong_never == FALSE

RanTooLong == /\ producing /\ maximum_run > 0 /\ ~ emergency
              /\ For("heat_pump", maximum_run)

\* Mutant: the rest is not waited for.
NormalStart_restless == ~ producing /\ low /\ ~ blocked /\ ~ flow_gate

NormalStart == /\ ~ producing /\ low /\ ~ blocked /\ ~ flow_gate
               /\ minimum_rest = 0 \/ For("off", minimum_rest)

Decision == IF ~ reporting THEN "none"
            ELSE IF EmergencyStart THEN "on"
            ELSE IF Stop \/ RanTooLong THEN "off"
            ELSE IF NormalStart THEN "on" ELSE "none"

\* water_heater.turn_on or turn_off: the machine gets the new state, with or without an
\* error, or does not; an unavailable entity is passed over.
Call(on) ==
  /\ making' \in IF shown = "unavailable" THEN {making} ELSE {making, on}
  /\ off_for' = IF making' = making THEN off_for ELSE 0
  /\ run_for' = IF making = on /\ making' = on THEN run_for ELSE 0

Automation ==
  /\ triggered
  /\ triggered' = FALSE
  /\ IF Decision = "none" THEN UNCHANGED << making, off_for, run_for >> ELSE Call(Decision = "on")
  /\ UNCHANGED << tank, probe, shown, shown_for, blocked, flow_gate, unpolled >>

-----------------------------------------------------------------------------
(* What goes on around it. *)

\* The operation the entity shows.
current_operation == IF making THEN "heat_pump" ELSE "off"

\* A poll, or the refresh after a call: the entity shows what was read, or becomes
\* unavailable.
Poll ==
  /\ unpolled' = 0
  /\ shown' \in {current_operation, "unavailable"}
  /\ shown_for' = IF shown' = shown THEN shown_for ELSE 0
  /\ run_for' = IF shown' = "unavailable" THEN 0 ELSE run_for
  /\ UNCHANGED << tank, probe, making, blocked, flow_gate, triggered, off_for >>

\* The water warms while it is heated and cools otherwise; a change of the reading
\* triggers the automation.
TankChanges ==
  /\ tank' \in Temperatures \cap ({tank - 1} \cup (IF making THEN {tank + 1} ELSE {}))
  /\ triggered' = (triggered \/ probe)
  /\ UNCHANGED << probe, making, shown, shown_for, blocked, flow_gate, unpolled, off_for, run_for >>

ProbeChanges ==
  /\ probe' = ~ probe
  /\ triggered' = TRUE
  /\ run_for' = 0
  /\ UNCHANGED << tank, making, shown, shown_for, blocked, flow_gate, unpolled, off_for >>

BrakesChange ==
  /\ blocked' \in Brakes /\ flow_gate' \in Brakes
  /\ UNCHANGED << tank, probe, making, shown, shown_for, triggered, unpolled, off_for, run_for >>

\* A minute is over: the next run is due.  The next poll is by the end of the interval.
Tick ==
  /\ unpolled < ScanTicks /\ ~ triggered
  /\ unpolled' = unpolled + 1 /\ triggered' = TRUE
  /\ shown_for' = Older(shown_for)
  /\ off_for' = IF making THEN 0 ELSE Older(off_for)
  /\ run_for' = IF making /\ probe /\ tank >= emergency_below THEN Older(run_for) ELSE 0
  /\ UNCHANGED << tank, probe, making, shown, blocked, flow_gate >>

Next == Automation \/ Poll \/ TankChanges \/ ProbeChanges \/ BrakesChange \/ Tick

\* Time goes on, with its polls and its runs; a poll succeeds some day, and so does a call
\* that is made again and again; the failing polls are not always those before a run.
PollShows == Poll /\ shown' # "unavailable"
CallWorks == Automation /\ making' # making
Fairness == /\ WF_vars(Tick) /\ WF_vars(Automation) /\ WF_vars(Poll)
            /\ SF_vars(PollShows) /\ SF_vars(CallWorks)
            /\ SF_vars(Tick /\ shown # "unavailable")

Spec == Init /\ [][Next]_vars /\ Fairness

-----------------------------------------------------------------------------
\* A new run starts only when the machine itself, not just the entity, has rested that
\* long, whatever polls, calls and probes failed in between, or when the tank is an
\* emergency (dhw_hysteresis.yaml:16-19, 82-86).
RestIsKept ==
  [][~ making /\ making' => off_for >= minimum_rest \/ tank < emergency_below]_vars

\* Once the tank stays at the target, hot water is turned off for good, although polls
\* and calls may fail on the way (dhw_hysteresis.yaml:57-62).
StopsAtTarget == <>[](probe /\ tank >= stop_at) => <>[](~ making)

\* A tank that stays cold while its probe reports is heated, whatever blocks and brakes
\* there are (dhw_hysteresis.yaml:70-74).
EmergencyIsHeated == []<>(~ probe \/ tank >= emergency_below \/ making)

\* A run ends after the maximum, whatever the blocks and the flow gate do: "give up after
\* this long without reaching the target" (dhw_hysteresis.yaml:94-98).  The age it goes by
\* is that of the displayed state: it begins with the first poll that shows the run, so an
\* interval of the polls comes on top, and a failed poll resets it, so the promise holds
\* between two failures.
RunsAreBounded == maximum_run > 0 => run_for <= maximum_run + ScanTicks
=============================================================================
