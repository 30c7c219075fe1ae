------------------------------ MODULE Entities ------------------------------
(***************************************************************************)
(* What the entities show of the data of one poll: sensor.py,              *)
(* binary_sensor.py, climate.py, water_heater.py, select.py, switch.py and *)
(* number.py, each property as a function of "data".                       *)
(***************************************************************************)
EXTENDS Reading, States

\* const.MACHINE_STATES: the option names, by raw state.
MACHINE_STATES == [s \in LegalStates |->
  CASE s = 0 -> "standby" [] s = 1 -> "cooling" [] s = 2 -> "heating"
    [] s = 4 -> "dhw" [] s = 5 -> "cooling_dhw" [] s = 6 -> "heating_dhw"]

RawState == IF data.registers["machine_state"] = None THEN None
            ELSE data.registers["machine_state"] \div 100
Halves == IF RawState = None THEN decompose(3) ELSE decompose(RawState)

\* Bit 1 of register 7202.
ambient_call == BitSet(data.command, 1)

\* select.current_option, and the state sensor.
current_option ==
  IF RawState # None THEN (IF RawState \in LegalStates THEN MACHINE_STATES[RawState] ELSE None)
                     ELSE None

\* climate
hvac_mode == Halves.conditioning

\* Mutant: the action follows the mode alone.
hvac_action_of_mode ==
  CASE hvac_mode = "off" -> "off" [] hvac_mode = "cool" -> "cooling" [] OTHER -> "heating"

hvac_action ==
  LET circulator == data.registers["circulator"]
      stopped    == IF circulator = None THEN FALSE ELSE circulator <= 0
  IN CASE hvac_mode = "off"    -> "off"
       [] hvac_mode # "off" /\ ~ ambient_call -> "idle"
       [] hvac_mode # "off" /\ ambient_call /\ data.defrost_running -> "defrosting"
       [] hvac_mode # "off" /\ ambient_call /\ ~ data.defrost_running /\ stopped -> "idle"
       [] OTHER -> IF hvac_mode = "cool" THEN "cooling" ELSE "heating"

\* water_heater
current_operation == IF Halves.dhw THEN "heat_pump" ELSE "off"

\* The register sensors; the ones without a value are unavailable.
native_value(key) == data.registers[key]
available(key) == native_value(key) # None

\* The alarm entities.
problem_is_on == \E i \in 0 .. 2 : data.alarm_registers[i] # 0
alarm_is_on(alarm) == is_active(data.alarm_registers, alarm)
active_alarms_shown == data.active_alarms

-----------------------------------------------------------------------------
Polled == data # None

\* The words that mean "probe absent, faulty or not configured" and "never reach an
\* entity" (docs/registers.md:121-123, const.py:56-60).
AbsentWords == {32766, 32767, 32768, 32769, 32896, 65535}

\* The value a register with the word w stands for, in two's complement; an absent
\* probe has none.
TwosComplement(w) == w - 65536 * (w \div 32768)
Meaning(key, w) ==
  IF READ_REGISTERS[key].sentinel /\ w \in AbsentWords THEN None
  ELSE TwosComplement(w) * READ_REGISTERS[key].unit

Shows(m, address) == IF address \in DOMAIN m THEN m[address] ELSE 0

\* The one absent word that is let through, against those lines: it arrives as -1 and
\* is compared with 65535.
Slips(key, w) == READ_REGISTERS[key].sentinel /\ w = 65535

\* Each sensor shows what a word means that its own register held during the poll, below
\* zero too, or is unavailable for a short reply (modbus_client.py:167-169,
\* coordinator.py:247-257).  One exception, which the documents deny: an absent probe
\* that answers 65535 is shown as -1 of the register's unit.
SensorsShowTheMachine ==
  Polled => \A key \in DOMAIN READ_REGISTERS :
    LET held == {Shows(m, READ_REGISTERS[key].address) : m \in moments}
    IN \/ \E w \in held : native_value(key) = Meaning(key, w)
       \/ short /\ ~ available(key)
       \/ \E w \in held : Slips(key, w) /\ native_value(key) = - READ_REGISTERS[key].unit

\* What is derived from several registers comes from one moment of the machine,
\* although the poll takes seven transactions: the probes and the flow meter lie in
\* one block.  It never comes from an absent flow meter (coordinator.py:276-317, "how
\* the old setup reported 23 546 kW"), nor from an absent probe, with the same
\* exception: a probe that answers 65535 counts as -0.1 degrees.
DerivedFromOneMoment ==
  Polled /\ data.delta_t # None =>
    \E m \in moments :
      LET inlet    == Meaning("water_inlet", Shows(m, 400))
          outlet   == Meaning("water_outlet", Shows(m, 401))
          flow     == Meaning("flow_rate", Shows(m, 444))
          noInlet  == Slips("water_inlet", Shows(m, 400))
          noOutlet == Slips("water_outlet", Shows(m, 401))
      IN \/ /\ data.delta_t = DeltaT(inlet, outlet)
            /\ \/ data.thermal_power = ThermalPower(flow, data.delta_t)
               \/ short /\ data.thermal_power = None
         \/ /\ noInlet \/ noOutlet
            /\ data.delta_t = (IF noOutlet THEN -10 ELSE outlet) - (IF noInlet THEN -10 ELSE inlet)

\* With full replies the alarm flags are those of one moment, bit 15 included; and
\* the four entities that show them agree: the problem sensor, the count, the codes
\* and the flag of each alarm (coordinator.py:259-263, binary_sensor.py:76-87,
\* sensor.py:190-204).
AlarmViewsAgree ==
  Polled =>
    /\ short \/ \E m \in moments : \A i \in 0 .. 2, b \in 0 .. 15 :
         BitSet(data.alarm_registers[i], b) = BitSet(Shows(m, 950 + i), b)
    /\ problem_is_on <=> data.alarm_count > 0
    /\ active_alarms_shown = {a \in ALARMS : alarm_is_on(a)}
    /\ data.alarm_count - Cardinality(active_alarms_shown) =
         Cardinality({f \in (0 .. 2) \X (0 .. 15) :
                        /\ f[2] \notin NAMED_BITS[f[1]]
                        /\ BitSet(data.alarm_registers[f[1]], f[2])})

\* The select, the climate and the water heater show the same state: the halves of the
\* last two compose to the option of the first (climate.py:3-6, select.py:3-7).  And a
\* machine that had no call throughout the poll, or its pump stopped, is not shown
\* heating or cooling (climate.py:93-95); a pump without a reading stops nothing.
ModeViewsAgree ==
  Polled =>
    /\ current_option # None =>
         MACHINE_STATES[compose(hvac_mode, current_operation = "heat_pump")] = current_option
    /\ ~ short /\ hvac_action \in {"heating", "cooling"} =>
         /\ \E m \in moments : BitSet(Shows(m, COMMAND_REGISTER), 1)
         /\ \E m \in moments : TwosComplement(Shows(m, 7001)) > 0 \/ Shows(m, 7001) \in AbsentWords
=============================================================================
