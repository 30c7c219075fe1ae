------------------------------ MODULE Controls ------------------------------
(***************************************************************************)
(* The control entities and the services (climate.py, water_heater.py,     *)
(* number.py, select.py, switch.py, button.py, services.py), on top of the *)
(* coordinator.  Each chooses its arguments from the last       *)
(* reading, hands them to one of the coordinator's operations, and keeps   *)
(* no state of its own.                                                    *)
(*                                                                         *)
(* A temperature is a raw value, tenths of a degree, already rounded.      *)
(***************************************************************************)
EXTENDS CoordinatorProps

CONSTANTS
  Used,           \* the entities and services that are called, by name
  Temperatures    \* what they are asked for

ControlNames == {"climate", "water_heater", "number", "select", "service", "switch", "button"}

ASSUME ControlsAssumption == Used \subseteq ControlNames /\ Temperatures \subseteq Nat

VARIABLE asked   \* history: what each task's last setpoint was set through

Asks(t, control) == asked' = [asked EXCEPT ![t] = control]

-----------------------------------------------------------------------------
(* climate.py *)

\* The setpoint register of each mode; "off" has none.
SETPOINT_BY_MODE == [cool |-> R_SET_COOLING, heat |-> R_SET_HEATING]

hvac_mode == decompose(data.state).conditioning

\* The limits of the entity are those of the setpoint in force; a temperature beyond
\* them is refused.
ClimateRange == SETPOINT_RANGES[SETPOINT_BY_MODE[hvac_mode]]

\* Mutant: with the conditioning off, the heating setpoint is taken.
climate_set_temperature_when_off(t, raw) ==
  LET mode == IF hvac_mode = "off" THEN "heat" ELSE hvac_mode
  IN /\ raw \in SETPOINT_RANGES[SETPOINT_BY_MODE[mode]]
     /\ async_set_setpoint(t, SETPOINT_BY_MODE[mode], raw)
     /\ Asks(t, "climate")

\* The register is chosen by the mode of the last reading; with the conditioning off
\* the call is refused before it reaches the coordinator.
climate_set_temperature(t, raw) ==
  /\ hvac_mode \in DOMAIN SETPOINT_BY_MODE
  /\ raw \in ClimateRange
  /\ async_set_setpoint(t, SETPOINT_BY_MODE[hvac_mode], raw)
  /\ Asks(t, "climate")

climate_set_hvac_mode(t, mode) == async_set_conditioning(t, mode) /\ UNCHANGED asked
climate_turn_on(t) == climate_set_hvac_mode(t, "heat")
climate_turn_off(t) == climate_set_hvac_mode(t, "off")

-----------------------------------------------------------------------------
(* water_heater.py, number.py, select.py, switch.py, button.py, services.py *)

\* The limits of the water heater are only shown: a call is not held to them.
water_heater_set_temperature(t, raw) ==
  async_set_setpoint(t, R_SET_DHW, raw) /\ Asks(t, "water_heater")

water_heater_set_operation_mode(t, heat_pump) ==
  async_set_dhw_enabled(t, heat_pump) /\ UNCHANGED asked

\* The number entity has the manufacturer's range as its limits.
NumberRange(address) == SETPOINT_RANGES[address]

number_set_native_value(t, address, raw) ==
  /\ raw \in NumberRange(address)
  /\ async_set_setpoint(t, address, raw) /\ Asks(t, "number")

select_option(t, state) ==
  state \in VALID_STATES /\ async_set_state(t, state) /\ UNCHANGED asked

\* What the schema of the service accepts.
ServiceRange == SETPOINT_RANGES[R_SET_DHW]

service_set_dhw_setpoint(t, raw) ==
  /\ raw \in ServiceRange
  /\ async_set_setpoint(t, R_SET_DHW, raw) /\ Asks(t, "service")

service_set_mode(t, state) ==
  state \in VALID_STATES /\ async_set_state(t, state) /\ UNCHANGED asked

\* The two buttons, and the services of the same names.
legionella_press(t) == async_start_legionella(t) /\ UNCHANGED asked
release_press(t) == async_release(t) /\ UNCHANGED asked

switch_turn(t, ambient, on) ==
  (IF ambient THEN TurnAmbientSwitch(t, on) ELSE TurnDhwSwitch(t, on)) /\ UNCHANGED asked

\* What is used of them.
UseControl(t) ==
  \/ /\ "climate" \in Used
     /\ \/ \E raw \in Temperatures : climate_set_temperature(t, raw)
        \/ \E mode \in Conditionings : climate_set_hvac_mode(t, mode)
        \/ climate_turn_on(t) \/ climate_turn_off(t)
  \/ /\ "water_heater" \in Used
     /\ \/ \E raw \in Temperatures : water_heater_set_temperature(t, raw)
        \/ \E heat_pump \in BOOLEAN : water_heater_set_operation_mode(t, heat_pump)
  \/ /\ "number" \in Used
     /\ \E address \in SETPOINTS, raw \in Temperatures : number_set_native_value(t, address, raw)
  \/ "select" \in Used /\ \E state \in StateInputs : select_option(t, state)
  \/ /\ "service" \in Used
     /\ \/ \E raw \in Temperatures : service_set_dhw_setpoint(t, raw)
        \/ \E state \in StateInputs : service_set_mode(t, state)
  \/ "button" \in Used /\ (legionella_press(t) \/ release_press(t))
  \/ "switch" \in Used /\ \E ambient, on \in BOOLEAN : switch_turn(t, ambient, on)

\* Everything of the coordinator but its calls.
Underneath ==
  \/ \E t \in Tasks : TaskStep(t)
  \/ RefreshStep
  \/ ScheduledRefresh \/ CooldownEnds \/ DelayedRefresh
  \/ async_shutdown \/ OrphanEnds
  \/ \E part \in {"state", "command", "setpoints"} : Reflect(part)

ControlsInit == Init /\ asked = [t \in Tasks |-> "none"]

ControlsNext == \/ \E t \in Tasks : UseControl(t)
                \/ Underneath /\ UNCHANGED asked

ControlsVars == << vars, asked >>
ControlsSpec == ControlsInit /\ [][ControlsNext]_ControlsVars

\* A user who waits until the last call has returned and the entities show what the
\* machine holds.
ShownIsHeld == data = Readable(machine) /\ \A t \in Tasks : pc[t] = "idle"
PatientControlsSpec ==
  ControlsInit /\ [][ControlsNext /\ (calls' # calls => ShownIsHeld)]_ControlsVars

-----------------------------------------------------------------------------
\* The setpoint the machine regulates to, given its mode.
InForce(m) == LET mode == decompose(m.state).conditioning
              IN IF mode \in DOMAIN SETPOINT_BY_MODE THEN {SETPOINT_BY_MODE[mode]} ELSE {}

\* "The target follows the mode": the controller "honours whichever matches the current
\* mode" (climate.py:14-16), so a temperature set on the climate entity changes the
\* setpoint in force, and never the other mode's.
TargetFollowsTheMode ==
  [][\A t \in Tasks : \A a \in MachineSetpoints :
       /\ owner = t /\ asked[t] = "climate" /\ job[t].op = "set_setpoint"
       /\ machine'.setpoints[a] # machine.setpoints[a]
       => a \in InForce(machine)]_machine

\* Whichever of them was used, no setpoint outside the manufacturer's range is ever held
\* by the machine, although a water heater call is not held to the limits the entity
\* shows (number.py:3-6, "the second line").
OnlyLegalSetpoints ==
  \A a \in MachineSetpoints : machine.setpoints[a] \in SETPOINT_RANGES[a]
=============================================================================
