--------------------------- MODULE ControlsProofs ---------------------------
(***************************************************************************)
(* Proofs about Controls for every set of entities used, temperatures,     *)
(* tasks and initial machines: what the coordinator's invariant gives of   *)
(* the calls the entities make, which setpoints reach the machine, and     *)
(* what a call leaves alone when the user waits for what is shown.         *)
(***************************************************************************)
EXTENDS Controls, CoordinatorProofs

-----------------------------------------------------------------------------
(* The inductive invariants. *)

\* No step sends a setpoint outside the manufacturer's range.
LegalSteps(steps) ==
  \A i \in 1..Len(steps) :
    steps[i].reg \in SETPOINTS => steps[i].val \in SETPOINT_RANGES[steps[i].reg]

AskedType == asked \in [Tasks -> ControlNames \cup {"none"}]

LegalInv == /\ \A t \in Tasks : LegalSteps(job[t].steps)
            /\ OnlyLegalSetpoints

\* What the steps of an operation leave as machine m has it: the other half of the
\* state, the other call, and the setpoint that is not in force.
Keeps(op, steps, control, m) ==
  \A i \in 1..Len(steps) :
    LET w == steps[i]
    IN  /\ op = "set_conditioning" /\ w.reg = R_STATE
             => decompose(w.val).dhw = decompose(m.state).dhw
        /\ op = "set_dhw_enabled" /\ w.reg = R_STATE
             => decompose(w.val).conditioning = decompose(m.state).conditioning
        /\ op = "ambient_switch" /\ w.reg = R_COMMAND
             => ("DHW" \in w.val <=> "DHW" \in m.command)
        /\ op = "dhw_switch" /\ w.reg = R_COMMAND
             => ("AMBIENT" \in w.val <=> "AMBIENT" \in m.command)
        /\ op = "set_setpoint" => w.reg # R_STATE
        /\ op = "set_setpoint" /\ control = "climate" /\ w.reg \in SETPOINTS
             => w.reg \in InForce(m)

\* Of a user who waits there is one call at a time, and its job keeps what the machine
\* has now.
PatientInv ==
  /\ \A t, u \in Tasks : pc[t] # "idle" /\ pc[u] # "idle" => t = u
  /\ \A t \in Tasks : pc[t] \notin {"waiting", "writing"} => job[t].steps = << >>
  /\ \A t \in Tasks : Keeps(job[t].op, job[t].steps, asked[t], machine)

-----------------------------------------------------------------------------
(* The write operations. *)

\* The empty sequence, of a call that is refused or a task without a job.
LEMMA NoSteps ==
  ASSUME NEW op, NEW control, NEW m
  PROVE  LegalSteps(<< >>) /\ Keeps(op, << >>, control, m)
BY DEF LegalSteps, Keeps

\* The other operations make no promise.
LEMMA OthersKeep ==
  ASSUME NEW op, NEW steps, NEW control, NEW m,
         op \notin {"set_conditioning", "set_dhw_enabled", "ambient_switch", "dhw_switch",
                    "set_setpoint"}
  PROVE  Keeps(op, steps, control, m)
BY DEF Keeps

\* A state write sends no setpoint.
LEMMA StateIsLegal ==
  ASSUME NEW state
  PROVE  LegalSteps(apply_state(state).steps)
<1> DEFINE s == << Write(R_ENABLE, BASE_ENABLE), Write(R_STATE, state) >>
<1>1. Len(s) = 2 /\ s[1].reg = R_ENABLE /\ s[2].reg = R_STATE
  BY DEF Write
<1>2. apply_state(state).steps \in {s, << >>}
  BY DEF apply_state, Operation
<1> HIDE DEF s
<1>3. R_ENABLE \notin SETPOINTS /\ R_STATE \notin SETPOINTS
  BY DEF SETPOINTS, R_ENABLE, R_STATE, R_SET_COOLING, R_SET_HEATING, R_SET_DHW, R_SET_DHW_HEATER
<1>4. LegalSteps(s)
  BY <1>1, <1>3 DEF LegalSteps
<1> QED
  BY <1>2, <1>4, NoSteps

\* Turning a call on or off rewrites the other one as it was read.
LEMMA CallsKeepTheOther ==
  ASSUME NEW a \in BOOLEAN, NEW d \in BOOLEAN, NEW control, NEW m
  PROVE  /\ LegalSteps(apply_calls(a, d).steps)
         /\ (d <=> "DHW" \in m.command)
              => Keeps("ambient_switch", apply_calls(a, d).steps, control, m)
         /\ (a <=> "AMBIENT" \in m.command)
              => Keeps("dhw_switch", apply_calls(a, d).steps, control, m)
<1> DEFINE bits == command_mask(a, d, FALSE)
           s == << Write(R_ENABLE, enable_mask(a, d, FALSE)), Write(R_COMMAND, bits) >>
<1>1. Len(s) = 2 /\ s[1].reg = R_ENABLE /\ s[2].reg = R_COMMAND /\ s[2].val = bits
  BY DEF Write
<1>2. apply_calls(a, d).steps = s
  BY DEF apply_calls, Operation
<1>3. ("DHW" \in bits <=> d) /\ ("AMBIENT" \in bits <=> a)
  BY DEF command_mask
<1> HIDE DEF s, bits
<1>4. R_ENABLE \notin SETPOINTS /\ R_COMMAND \notin SETPOINTS /\ R_ENABLE # R_COMMAND
  BY DEF SETPOINTS, R_ENABLE, R_COMMAND, R_SET_COOLING, R_SET_HEATING, R_SET_DHW, R_SET_DHW_HEATER
<1>5. LegalSteps(s)
  BY <1>1, <1>4 DEF LegalSteps
<1>6. ASSUME d <=> "DHW" \in m.command
      PROVE  Keeps("ambient_switch", s, control, m)
  BY <1>1, <1>3, <1>4, <1>6 DEF Keeps
<1>7. ASSUME a <=> "AMBIENT" \in m.command
      PROVE  Keeps("dhw_switch", s, control, m)
  BY <1>1, <1>3, <1>4, <1>7 DEF Keeps
<1> QED
  BY <1>2, <1>5, <1>6, <1>7

\* Writing one half of the state composes it with the other half as it was read.
LEMMA HalvesKeepTheOther ==
  ASSUME NEW a \in BOOLEAN, NEW d \in BOOLEAN, NEW control, NEW m, NEW state
  PROVE  LET steps == apply_state_and_calls(state, a, d).steps
         IN  /\ LegalSteps(steps)
             /\ decompose(state).dhw = decompose(m.state).dhw
                  => Keeps("set_conditioning", steps, control, m)
             /\ decompose(state).conditioning = decompose(m.state).conditioning
                  => Keeps("set_dhw_enabled", steps, control, m)
<1> DEFINE steps == apply_state_and_calls(state, a, d).steps
           s == << Write(R_ENABLE, enable_mask(a, d, FALSE)), Write(R_STATE, state),
                   Write(R_COMMAND, command_mask(a, d, FALSE)) >>
<1>1. /\ Len(s) = 3 /\ s[1].reg = R_ENABLE /\ s[2].reg = R_STATE /\ s[2].val = state
      /\ s[3].reg = R_COMMAND
  BY DEF Write
<1>2. steps \in {s, << >>}
  BY DEF apply_state_and_calls, Operation
<1> HIDE DEF s
<1>3. /\ R_ENABLE \notin SETPOINTS /\ R_STATE \notin SETPOINTS /\ R_COMMAND \notin SETPOINTS
      /\ R_ENABLE # R_STATE /\ R_COMMAND # R_STATE
  BY DEF SETPOINTS, R_ENABLE, R_STATE, R_COMMAND, R_SET_COOLING, R_SET_HEATING, R_SET_DHW,
     R_SET_DHW_HEATER
<1>4. LegalSteps(s)
  BY <1>1, <1>3 DEF LegalSteps
<1>5. ASSUME decompose(state).dhw = decompose(m.state).dhw
      PROVE  Keeps("set_conditioning", s, control, m)
  BY <1>1, <1>3, <1>5 DEF Keeps
<1>6. ASSUME decompose(state).conditioning = decompose(m.state).conditioning
      PROVE  Keeps("set_dhw_enabled", s, control, m)
  BY <1>1, <1>3, <1>6 DEF Keeps
<1> HIDE DEF steps
<1>7. LegalSteps(steps)
  BY <1>2, <1>4, NoSteps
<1>8. decompose(state).dhw = decompose(m.state).dhw
        => Keeps("set_conditioning", steps, control, m)
  BY <1>2, <1>5, NoSteps
<1>9. decompose(state).conditioning = decompose(m.state).conditioning
        => Keeps("set_dhw_enabled", steps, control, m)
  BY <1>2, <1>6, NoSteps
<1> QED
  BY <1>7, <1>8, <1>9 DEF steps

\* Composing keeps the half that is not set.
LEMMA HalvesOfAState ==
  ASSUME NEW state, NEW mode \in Conditionings, NEW enabled \in BOOLEAN
  PROVE  /\ decompose(with_conditioning(state, mode)).dhw = decompose(state).dhw
         /\ decompose(with_dhw(state, enabled)).conditioning = decompose(state).conditioning
<1>1. decompose(state).conditioning \in Conditionings /\ decompose(state).dhw \in BOOLEAN
  BY SettersLegal
<1>2. ASSUME NEW c \in Conditionings, NEW d \in BOOLEAN
      PROVE  decompose(compose(c, d)).conditioning = c /\ decompose(compose(c, d)).dhw = d
  <2>1. /\ compose("off", FALSE) = 0 /\ compose("off", TRUE) = 4
        /\ compose("cool", FALSE) = 1 /\ compose("cool", TRUE) = 5
        /\ compose("heat", FALSE) = 2 /\ compose("heat", TRUE) = 6
    BY DEF compose, TABLE, Conditionings
  <2>2. /\ decompose(0) = [conditioning |-> "off", dhw |-> FALSE]
        /\ decompose(1) = [conditioning |-> "cool", dhw |-> FALSE]
        /\ decompose(2) = [conditioning |-> "heat", dhw |-> FALSE]
        /\ decompose(4) = [conditioning |-> "off", dhw |-> TRUE]
        /\ decompose(5) = [conditioning |-> "cool", dhw |-> TRUE]
        /\ decompose(6) = [conditioning |-> "heat", dhw |-> TRUE]
    BY DEF decompose, REVERSE, LegalStates
  <2>3. decompose(compose(c, d)) = [conditioning |-> c, dhw |-> d]
    <3>1. c = "off" \/ c = "cool" \/ c = "heat"
      BY DEF Conditionings
    <3>2. CASE d = TRUE
      BY <2>1, <2>2, <3>1, <3>2
    <3>3. CASE d = FALSE
      BY <2>1, <2>2, <3>1, <3>3
    <3> QED
      BY <3>2, <3>3
  <2> QED
    BY <2>3
<1> QED
  BY <1>1, <1>2 DEF with_conditioning, with_dhw

\* A setpoint operation sends one setpoint, the one it is given, and only within its range.
LEMMA SetpointIsLegal ==
  ASSUME NEW address, NEW raw, NEW control, NEW m,
         control = "climate" => address \in InForce(m)
  PROVE  LET steps == apply_setpoint(address, raw).steps
         IN  LegalSteps(steps) /\ Keeps("set_setpoint", steps, control, m)
<1> DEFINE s == << Write(R_ENABLE, BASE_ENABLE), Write(address, raw) >>
<1>1. Len(s) = 2 /\ s[1].reg = R_ENABLE /\ s[2].reg = address /\ s[2].val = raw
  BY DEF Write
<1>2. /\ apply_setpoint(address, raw).steps \in {s, << >>}
      /\ ~validate_setpoint(address, raw) => apply_setpoint(address, raw).steps = << >>
  BY DEF apply_setpoint, Operation
<1> HIDE DEF s
<1>3. R_ENABLE \notin SETPOINTS /\ R_ENABLE # R_STATE /\ R_STATE \notin SETPOINTS
  BY DEF SETPOINTS, R_ENABLE, R_STATE, R_SET_COOLING, R_SET_HEATING, R_SET_DHW, R_SET_DHW_HEATER
<1>4. ASSUME validate_setpoint(address, raw)
      PROVE  LegalSteps(s) /\ Keeps("set_setpoint", s, control, m)
  <2>1. address \in SETPOINTS /\ raw \in SETPOINT_RANGES[address]
    BY <1>4 DEF validate_setpoint
  <2>2. LegalSteps(s)
    BY <1>1, <1>3, <2>1 DEF LegalSteps
  <2>3. Keeps("set_setpoint", s, control, m)
    BY <1>1, <1>3, <2>1 DEF Keeps
  <2> QED
    BY <2>2, <2>3
<1> QED
  BY <1>2, <1>4, NoSteps

\* Nor do the other two operations send a setpoint.
LEMMA OthersAreLegal == LegalSteps(start_legionella.steps) /\ LegalSteps(release.steps)
<1> USE DEF SETPOINTS, R_ENABLE, R_STATE, R_COMMAND, R_SET_COOLING, R_SET_HEATING, R_SET_DHW,
            R_SET_DHW_HEATER
<1>1. LegalSteps(start_legionella.steps)
  BY DEF LegalSteps, start_legionella, Operation, Write
<1>2. LegalSteps(release.steps)
  BY DEF LegalSteps, release, Write
<1> QED
  BY <1>1, <1>2

-----------------------------------------------------------------------------
(* The calls of the entities and services. *)

\* A call hands _write an operation that is well formed, sends legal setpoints only and
\* keeps what the last reading showed.
Asked(t, op, o) == /\ CallWrite(t, op, o)
                   /\ WellFormed(o) /\ LegalSteps(o.steps)
                   /\ Keeps(op, o.steps, asked'[t], data)

\* Setting a temperature, through whichever control.
LEMMA SetpointCall ==
  ASSUME NEW t \in Tasks, NEW address, NEW raw \in Nat,
         async_set_setpoint(t, address, raw),
         asked'[t] = "climate" => address \in InForce(data)
  PROVE  \E op, o : Asked(t, op, o)
<1>1. Asked(t, "set_setpoint", apply_setpoint(address, raw))
  BY ApplySetpoint, SetpointIsLegal DEF async_set_setpoint, Asked
<1> QED
  BY <1>1

\* Selecting a state.
LEMMA StateCall ==
  ASSUME NEW t \in Tasks, NEW state, async_set_state(t, state)
  PROVE  \E op, o : Asked(t, op, o)
<1>1. Asked(t, "set_state", apply_state(state))
  BY ApplyState, StateIsLegal, OthersKeep DEF async_set_state, Asked
<1> QED
  BY <1>1

\* Setting one half of the state.
LEMMA ConditioningCall ==
  ASSUME NEW t \in Tasks, NEW mode \in Conditionings, async_set_conditioning(t, mode)
  PROVE  \E op, o : Asked(t, op, o)
<1> DEFINE state == with_conditioning(data.state, mode)
           call == decompose(state).dhw /\ dhw_call
           ambient == mode # "off"
           o == apply_state_and_calls(state, ambient, call)
<1>1. call \in BOOLEAN /\ ambient \in BOOLEAN
  BY SettersLegal
<1>2. CallWrite(t, "set_conditioning", o)
  BY DEF async_set_conditioning
<1>3. decompose(state).dhw = decompose(data.state).dhw
  BY HalvesOfAState
<1> HIDE DEF state, call, ambient
<1>4. WellFormed(o)
  BY <1>1, ApplyStateAndCalls
<1>5. LegalSteps(o.steps) /\ Keeps("set_conditioning", o.steps, asked'[t], data)
  BY <1>1, <1>3, HalvesKeepTheOther
<1> HIDE DEF o
<1>6. Asked(t, "set_conditioning", o)
  BY <1>2, <1>4, <1>5 DEF Asked
<1> QED
  BY <1>6

LEMMA DhwEnabledCall ==
  ASSUME NEW t \in Tasks, NEW enabled \in BOOLEAN, async_set_dhw_enabled(t, enabled)
  PROVE  \E op, o : Asked(t, op, o)
<1> DEFINE state == with_dhw(data.state, enabled)
           call == decompose(state).conditioning # "off" /\ ambient_call
           o == apply_state_and_calls(state, call, enabled)
<1>1. call \in BOOLEAN
  OBVIOUS
<1>2. CallWrite(t, "set_dhw_enabled", o)
  BY DEF async_set_dhw_enabled
<1>3. decompose(state).conditioning = decompose(data.state).conditioning
  BY HalvesOfAState DEF Conditionings
<1> HIDE DEF state, call
<1>4. WellFormed(o)
  BY <1>1, ApplyStateAndCalls
<1>5. LegalSteps(o.steps) /\ Keeps("set_dhw_enabled", o.steps, asked'[t], data)
  BY <1>1, <1>3, HalvesKeepTheOther
<1> HIDE DEF o
<1>6. Asked(t, "set_dhw_enabled", o)
  BY <1>2, <1>4, <1>5 DEF Asked
<1> QED
  BY <1>6

\* Turning one of the two calls on or off.
LEMMA SwitchCall ==
  ASSUME NEW t \in Tasks, NEW on \in BOOLEAN,
         TurnAmbientSwitch(t, on) \/ TurnDhwSwitch(t, on)
  PROVE  \E op, o : Asked(t, op, o)
<1>1. /\ dhw_call \in BOOLEAN /\ ambient_call \in BOOLEAN
      /\ dhw_call <=> "DHW" \in data.command
      /\ ambient_call <=> "AMBIENT" \in data.command
  BY DEF dhw_call, ambient_call
<1> HIDE DEF dhw_call, ambient_call
<1>2. CASE TurnAmbientSwitch(t, on)
  <2>1. WellFormed(apply_calls(on, dhw_call))
    BY <1>1, ApplyCalls
  <2>2. /\ LegalSteps(apply_calls(on, dhw_call).steps)
        /\ Keeps("ambient_switch", apply_calls(on, dhw_call).steps, asked'[t], data)
    BY <1>1, CallsKeepTheOther
  <2>3. Asked(t, "ambient_switch", apply_calls(on, dhw_call))
    BY <1>2, <2>1, <2>2 DEF TurnAmbientSwitch, Asked
  <2> QED
    BY <2>3
<1>3. CASE TurnDhwSwitch(t, on)
  <2>1. WellFormed(apply_calls(ambient_call, on))
    BY <1>1, ApplyCalls
  <2>2. /\ LegalSteps(apply_calls(ambient_call, on).steps)
        /\ Keeps("dhw_switch", apply_calls(ambient_call, on).steps, asked'[t], data)
    BY <1>1, CallsKeepTheOther
  <2>3. Asked(t, "dhw_switch", apply_calls(ambient_call, on))
    BY <1>3, <2>1, <2>2 DEF TurnDhwSwitch, Asked
  <2> QED
    BY <2>3
<1> QED
  BY <1>2, <1>3

\* The two buttons.
LEMMA ButtonCall ==
  ASSUME NEW t \in Tasks, async_start_legionella(t) \/ async_release(t)
  PROVE  \E op, o : Asked(t, op, o)
<1>1. CASE async_start_legionella(t)
  <2>1. Asked(t, "start_legionella", start_legionella)
    BY <1>1, StartLegionella, OthersAreLegal, OthersKeep DEF async_start_legionella, Asked
  <2> QED
    BY <2>1
<1>2. CASE async_release(t)
  <2>1. Asked(t, "release", release)
    BY <1>2, Release, OthersAreLegal, OthersKeep DEF async_release, Asked
  <2> QED
    BY <2>1
<1> QED
  BY <1>1, <1>2

\* Every use of a control is such a call of its task.
LEMMA ControlCall ==
  ASSUME AskedType, NEW t \in Tasks, UseControl(t)
  PROVE  /\ \E op, o : Asked(t, op, o)
         /\ AskedType'
         /\ \A u \in Tasks : u # t => asked'[u] = asked[u]
<1>1. /\ AskedType'
      /\ \A u \in Tasks : u # t => asked'[u] = asked[u]
  <2>1. UNCHANGED asked \/ \E control \in ControlNames : Asks(t, control)
    BY DEF UseControl, ControlNames, climate_set_temperature, climate_set_hvac_mode, climate_turn_on,
       climate_turn_off, water_heater_set_temperature, water_heater_set_operation_mode,
       number_set_native_value, select_option, service_set_dhw_setpoint, service_set_mode,
       legionella_press, release_press, switch_turn
  <2> QED
    BY <2>1 DEF Asks, AskedType
<1> USE ControlsAssumption
<1>2. ASSUME NEW raw \in Temperatures, climate_set_temperature(t, raw)
      PROVE  \E op, o : Asked(t, op, o)
  <2>1. /\ SETPOINT_BY_MODE[hvac_mode] \in InForce(data)
        /\ async_set_setpoint(t, SETPOINT_BY_MODE[hvac_mode], raw)
    BY <1>2 DEF climate_set_temperature, InForce, hvac_mode
  <2> QED
    BY <2>1, SetpointCall
<1>3. ASSUME NEW mode \in Conditionings, climate_set_hvac_mode(t, mode)
      PROVE  \E op, o : Asked(t, op, o)
  BY <1>3, ConditioningCall DEF climate_set_hvac_mode
<1>4. CASE climate_turn_on(t) \/ climate_turn_off(t)
  <2>1. "heat" \in Conditionings /\ "off" \in Conditionings
    BY DEF Conditionings
  <2>2. \E mode \in Conditionings : climate_set_hvac_mode(t, mode)
    BY <1>4, <2>1 DEF climate_turn_on, climate_turn_off
  <2> QED
    BY <1>1, <1>3, <2>2
<1>5. ASSUME NEW raw \in Temperatures, water_heater_set_temperature(t, raw)
      PROVE  \E op, o : Asked(t, op, o)
  <2>1. async_set_setpoint(t, R_SET_DHW, raw) /\ asked'[t] = "water_heater"
    BY <1>5 DEF water_heater_set_temperature, Asks, AskedType
  <2> QED
    BY <2>1, SetpointCall
<1>6. ASSUME NEW enabled \in BOOLEAN, water_heater_set_operation_mode(t, enabled)
      PROVE  \E op, o : Asked(t, op, o)
  BY <1>6, DhwEnabledCall DEF water_heater_set_operation_mode
<1>7. ASSUME NEW address \in SETPOINTS, NEW raw \in Temperatures,
             number_set_native_value(t, address, raw)
      PROVE  \E op, o : Asked(t, op, o)
  <2>1. async_set_setpoint(t, address, raw) /\ asked'[t] = "number"
    BY <1>7 DEF number_set_native_value, Asks, AskedType
  <2> QED
    BY <2>1, SetpointCall
<1>8. ASSUME NEW state \in StateInputs, select_option(t, state) \/ service_set_mode(t, state)
      PROVE  \E op, o : Asked(t, op, o)
  BY <1>8, StateCall DEF select_option, service_set_mode
<1>9. ASSUME NEW raw \in Temperatures, service_set_dhw_setpoint(t, raw)
      PROVE  \E op, o : Asked(t, op, o)
  <2>1. async_set_setpoint(t, R_SET_DHW, raw) /\ asked'[t] = "service"
    BY <1>9 DEF service_set_dhw_setpoint, Asks, AskedType
  <2> QED
    BY <2>1, SetpointCall
<1>10. CASE legionella_press(t) \/ release_press(t)
  BY <1>1, <1>10, ButtonCall DEF legionella_press, release_press
<1>11. ASSUME NEW ambient \in BOOLEAN, NEW on \in BOOLEAN, switch_turn(t, ambient, on)
       PROVE  \E op, o : Asked(t, op, o)
  BY <1>11, SwitchCall DEF switch_turn
<1> QED
  BY <1>1, <1>2, <1>3, <1>4, <1>5, <1>6, <1>7, <1>8, <1>9, <1>10, <1>11 DEF UseControl

-----------------------------------------------------------------------------
(* What the steps change. *)

\* A task between two writes or in the queue of the lock.
Busy == {"waiting", "writing"}

\* A call reaches the job and the place of its task only, and with read-only mode on
\* not even these.
LEMMA CallFrame ==
  ASSUME TypeOK, NEW t \in Tasks, NEW op, NEW o, CallWrite(t, op, o)
  PROVE  /\ machine' = machine /\ data' = data /\ calls' # calls
         /\ pc[t] = "idle"
         /\ \A u \in Tasks : u # t => job'[u] = job[u] /\ pc'[u] = pc[u]
         /\ \/ job'[t] = job[t] /\ pc'[t] = pc[t]
            \/ job'[t].op = op /\ job'[t].steps = o.steps /\ pc'[t] \in Busy
<1>1. /\ machine' = machine /\ data' = data /\ pc[t] = "idle"
      /\ calls' = calls + 1 /\ calls \in Nat
  BY MaxCallsAssumption DEF CallWrite, TypeOK, machineVars, dataVars
<1>2. \/ job' = job /\ pc' = pc
      \/ /\ job' = [job EXCEPT ![t] = [op |-> op, best_effort |-> o.best_effort,
                                       steps |-> o.steps, done |-> 0, failed |-> ~o.valid]]
         /\ pc' = [pc EXCEPT ![t] = IF Free THEN "writing" ELSE "waiting"]
  BY DEF CallWrite
<1> QED
  BY <1>1, <1>2 DEF TypeOK, Busy

\* One write leaves what the job sends as it is.
LEMMA WriteFrame ==
  ASSUME TypeOK, NEW t \in Tasks, NEW raised, OneWriteDone(t, raised)
  PROVE  /\ calls' = calls /\ data' = data /\ pc' = pc
         /\ \A u \in Tasks : job'[u].steps = job[u].steps /\ job'[u].op = job[u].op
BY DEF OneWriteDone, TypeOK, Jobs, dataVars

\* A step of the coordinator other than a call makes no task busy and changes no job,
\* except that it may end one.  The machine changes by the next write of a job.
LEMMA UnderneathFrame ==
  ASSUME IInv, Underneath
  PROVE  /\ calls' = calls
         /\ \A u \in Tasks :
              \/ job'[u].steps = << >>
              \/ /\ job'[u].steps = job[u].steps /\ job'[u].op = job[u].op
                 /\ pc'[u] \in Busy \/ pc[u] \notin Busy
         /\ \A u \in Tasks : pc'[u] # "idle" => pc[u] # "idle"
         /\ \/ machine' = machine
            \/ \E t \in Tasks : InJob(t) /\ machine' = AfterWrite(machine, NextWrite(t))
<1>1. ASSUME NEW t \in Tasks, WriteAcknowledged(t) \/ AnswerLost(t) \/ WriteFails(t)
      PROVE  /\ calls' = calls /\ pc' = pc
             /\ \A u \in Tasks : job'[u].steps = job[u].steps /\ job'[u].op = job[u].op
             /\ \/ machine' = machine
                \/ InJob(t) /\ machine' = AfterWrite(machine, NextWrite(t))
  BY <1>1, WriteFrame DEF WriteAcknowledged, AnswerLost, WriteFails, IInv
<1>2. ASSUME NEW t \in Tasks, WriteRaises(t) \/ WriteRefreshes(t) \/ WriteReturns(t)
      PROVE  /\ calls' = calls /\ machine' = machine
             /\ \A u \in Tasks : u # t => job'[u] = job[u] /\ pc'[u] = pc[u]
             /\ job'[t].steps = << >> /\ pc[t] # "idle"
  <2>1. /\ calls' = calls /\ machine' = machine /\ pc[t] = "writing"
        /\ job' = [job EXCEPT ![t] = NoJob]
        /\ \A u \in Tasks : u # t => pc'[u] = pc[u]
    BY <1>2 DEF WriteRaises, WriteRefreshes, WriteReturns, Returns, machineVars, IInv, TypeOK
  <2> QED
    BY <2>1, JobTypes DEF NoJob, IInv
<1>3. ASSUME NEW t \in Tasks, AcquireForWrite(t)
      PROVE  /\ calls' = calls /\ machine' = machine /\ job' = job
             /\ \A u \in Tasks : u # t => pc'[u] = pc[u]
             /\ pc[t] = "waiting" /\ pc'[t] = "writing"
  <2>1. queue \in Seq(Procs) /\ queue # << >> /\ queue[1] = t
    BY <1>3, QueueTail DEF AcquireForWrite, IInv, LockInv, QueueInv
  <2>2. pc[t] = "waiting"
    BY <2>1, LenProperties, EmptySeq DEF IInv, LockInv, QueueInv
  <2> QED
    BY <1>3, <2>2 DEF AcquireForWrite, machineVars, IInv, TypeOK
<1>4. ASSUME NEW t \in Tasks, ReadRegisterEnds(t)
      PROVE  /\ calls' = calls /\ machine' = machine /\ job' = job
             /\ \A u \in Tasks : u # t => pc'[u] = pc[u]
             /\ pc[t] = "direct" /\ pc'[t] = "idle"
  BY <1>4 DEF ReadRegisterEnds, machineVars, IInv, TypeOK
<1>5. ASSUME RefreshStep
      PROVE  /\ calls' = calls /\ machine' = machine /\ job' = job
             /\ \A u \in Tasks : pc'[u] = pc[u] \/ (pc[u] = "refreshing" /\ pc'[u] = "idle")
  <2>1. CASE EndRefresh
    <3>1. /\ calls' = calls /\ machine' = machine /\ job' = job
          /\ IF cause \in Tasks THEN pc' = [pc EXCEPT ![cause] = "idle"] ELSE pc' = pc
      BY <2>1 DEF EndRefresh, machineVars
    <3>2. cause \in Tasks => pc[cause] = "refreshing"
      BY DEF IInv, RefreshInv
    <3> QED
      BY <3>1, <3>2 DEF IInv, TypeOK
  <2>2. CASE AcquireForPoll \/ ReadStateBlock \/ ReadCallsBlock \/ ReadFails
    BY <2>2 DEF AcquireForPoll, ReadStateBlock, ReadCallsBlock, ReadFails, machineVars, taskVars
  <2> QED
    BY <1>5, <2>1, <2>2 DEF RefreshStep
<1>6. ASSUME ScheduledRefresh \/ CooldownEnds \/ DelayedRefresh \/ async_shutdown \/ OrphanEnds
             \/ \E part \in {"state", "command", "setpoints"} : Reflect(part)
      PROVE  calls' = calls /\ machine' = machine /\ job' = job /\ pc' = pc
  BY <1>6 DEF ScheduledRefresh, CooldownEnds, DelayedRefresh, async_shutdown, OrphanEnds,
     Reflect, machineVars, taskVars
<1>7. CASE \E t \in Tasks : TaskStep(t)
  <2>1. PICK t \in Tasks : TaskStep(t)
    BY <1>7
  <2>2. CASE WriteAcknowledged(t) \/ AnswerLost(t) \/ WriteFails(t)
    BY <1>1, <2>2
  <2>3. CASE WriteRaises(t) \/ WriteRefreshes(t) \/ WriteReturns(t)
    BY <1>2, <2>3
  <2>4. CASE AcquireForWrite(t)
    BY <1>3, <2>4 DEF Busy
  <2>5. CASE ReadRegisterEnds(t)
    BY <1>4, <2>5 DEF Busy
  <2> QED
    BY <2>1, <2>2, <2>3, <2>4, <2>5 DEF TaskStep
<1>8. CASE RefreshStep
  BY <1>5, <1>8 DEF Busy
<1>9. CASE ScheduledRefresh \/ CooldownEnds \/ DelayedRefresh \/ async_shutdown \/ OrphanEnds
           \/ \E part \in {"state", "command", "setpoints"} : Reflect(part)
  BY <1>6, <1>9
<1> QED
  BY <1>7, <1>8, <1>9 DEF Underneath

-----------------------------------------------------------------------------
(* Every step preserves the invariants. *)

\* The coordinator's invariant holds under the entities and services.
LEMMA ControlsNextInv ==
  ASSUME IInv, AskedType, [ControlsNext]_ControlsVars
  PROVE  IInv' /\ AskedType'
<1>1. ASSUME NEW t \in Tasks, UseControl(t)
      PROVE  IInv' /\ AskedType'
  BY <1>1, ControlCall, CallWriteInv DEF Asked
<1>2. CASE Underneath /\ UNCHANGED asked
  <2>1. Next
    BY <1>2 DEF Underneath, Next
  <2> QED
    BY <1>2, <2>1, NextInv DEF AskedType
<1>3. CASE UNCHANGED ControlsVars
  BY <1>3, StutterInv DEF ControlsVars, AskedType
<1> QED
  BY <1>1, <1>2, <1>3 DEF ControlsNext

\* The machine changes only by the next write of the job that holds the lock.
LEMMA MachineStep ==
  ASSUME IInv, AskedType, [ControlsNext]_ControlsVars, machine' # machine
  PROVE  \E t \in Tasks, k \in Nat :
           /\ owner = t /\ InJob(t) /\ k \in 1..Len(job[t].steps)
           /\ job[t].steps \in Seq(SentWrites)
           /\ machine' = AfterWrite(machine, job[t].steps[k])
<1>1. ASSUME NEW t \in Tasks, UseControl(t)
      PROVE  machine' = machine
  BY <1>1, ControlCall, CallFrame DEF Asked, IInv
<1>2. CASE Underneath
  <2>1. PICK t \in Tasks : InJob(t) /\ machine' = AfterWrite(machine, NextWrite(t))
    BY <1>2, UnderneathFrame
  <2>2. /\ owner = t /\ job[t].steps \in Seq(SentWrites) /\ job[t].done \in Nat
        /\ job[t].done + 1 \in 1..Len(job[t].steps)
    BY <2>1, RunningJob
  <2> QED
    BY <2>1, <2>2 DEF NextWrite
<1>3. ASSUME UNCHANGED ControlsVars
      PROVE  machine' = machine
  BY <1>3 DEF ControlsVars, vars, machineVars
<1> QED
  BY <1>1, <1>2, <1>3 DEF ControlsNext

\* A legal setpoint stays one through a legal write.
LEMMA LegalAfter ==
  ASSUME NEW m \in Machines, NEW w \in SentWrites,
         w.reg \in SETPOINTS => w.val \in SETPOINT_RANGES[w.reg],
         NEW a \in MachineSetpoints, m.setpoints[a] \in SETPOINT_RANGES[a]
  PROVE  AfterWrite(m, w).setpoints[a] \in SETPOINT_RANGES[a]
<1>1. MachineSetpoints \subseteq SETPOINTS
  BY DEF MachineSetpoints, SETPOINTS
<1>2. m.setpoints \in [MachineSetpoints -> Nat]
  BY DEF Machines
<1> QED
  BY <1>1, <1>2 DEF AfterWrite

LEMMA LegalNext ==
  ASSUME IInv, AskedType, LegalInv, [ControlsNext]_ControlsVars
  PROVE  LegalInv'
<1>1. \A t \in Tasks : LegalSteps(job'[t].steps)
  <2>1. ASSUME NEW t \in Tasks, UseControl(t), NEW u \in Tasks
        PROVE  LegalSteps(job'[u].steps)
    <3>1. PICK op, o : Asked(t, op, o)
      BY <2>1, ControlCall
    <3>2. CallWrite(t, op, o) /\ LegalSteps(o.steps)
      BY <3>1 DEF Asked
    <3>3. job'[u] = job[u] \/ job'[u].steps = o.steps
      BY <3>2, CallFrame DEF IInv
    <3> QED
      BY <3>2, <3>3 DEF LegalInv
  <2>2. ASSUME Underneath, NEW u \in Tasks
        PROVE  LegalSteps(job'[u].steps)
    <3>1. job'[u].steps = << >> \/ job'[u].steps = job[u].steps
      BY <2>2, UnderneathFrame
    <3> QED
      BY <3>1, NoSteps DEF LegalInv
  <2>3. ASSUME UNCHANGED ControlsVars, NEW u \in Tasks
        PROVE  LegalSteps(job'[u].steps)
    BY <2>3 DEF LegalInv, ControlsVars, vars, taskVars
  <2> QED
    BY <2>1, <2>2, <2>3 DEF ControlsNext
<1>2. OnlyLegalSetpoints'
  <2>1. CASE machine' = machine
    BY <2>1 DEF OnlyLegalSetpoints, LegalInv
  <2>2. CASE machine' # machine
    <3>1. PICK t \in Tasks, k \in Nat :
            /\ k \in 1..Len(job[t].steps) /\ job[t].steps \in Seq(SentWrites)
            /\ machine' = AfterWrite(machine, job[t].steps[k])
      BY <2>2, MachineStep
    <3>2. LegalSteps(job[t].steps)
      BY DEF LegalInv
    <3> DEFINE w == job[t].steps[k]
    <3>3. w \in SentWrites
      BY <3>1, LenProperties
    <3>4. w.reg \in SETPOINTS => w.val \in SETPOINT_RANGES[w.reg]
      BY <3>1, <3>2 DEF LegalSteps
    <3>5. machine' = AfterWrite(machine, w)
      BY <3>1
    <3> HIDE DEF w
    <3>6. machine \in Machines
      BY DEF IInv, TypeOK
    <3> QED
      BY <3>3, <3>4, <3>5, <3>6, LegalAfter DEF OnlyLegalSetpoints, LegalInv
  <2> QED
    BY <2>1, <2>2
<1> QED
  BY <1>1, <1>2 DEF LegalInv

-----------------------------------------------------------------------------
(* What follows. *)

\* The machine is found with setpoints the manufacturer allows.
FoundLegal ==
  \A m \in InitMachines : \A a \in MachineSetpoints : m.setpoints[a] \in SETPOINT_RANGES[a]

\* A machine found with legal setpoints never gets another one, whichever entities and
\* services are used, with any temperature, in any order, and whatever fails: what the
\* water heater does not refuse, validate_setpoint does.
THEOREM SetpointsStayLegal ==
  ASSUME FoundLegal
  PROVE  ControlsSpec => []OnlyLegalSetpoints
<1> DEFINE Inv == IInv /\ AskedType /\ LegalInv
<1>1. ControlsInit => Inv
  <2> SUFFICES ASSUME ControlsInit PROVE Inv
    OBVIOUS
  <2>1. IInv
    BY InitInv DEF ControlsInit
  <2>2. AskedType
    BY DEF ControlsInit, AskedType
  <2>3. \A t \in Tasks : job[t].steps = << >>
    BY DEF ControlsInit, Init, NoJob
  <2>4. OnlyLegalSetpoints
    BY DEF ControlsInit, Init, OnlyLegalSetpoints, FoundLegal
  <2> QED
    BY <2>1, <2>2, <2>3, <2>4, NoSteps DEF LegalInv
<1>2. Inv /\ [ControlsNext]_ControlsVars => Inv'
  BY ControlsNextInv, LegalNext
<1>3. Inv => OnlyLegalSetpoints
  BY DEF LegalInv
<1> QED
  BY <1>1, <1>2, <1>3, PTL DEF ControlsSpec

-----------------------------------------------------------------------------
(* A user who waits for what is shown. *)

PatientNext == ControlsNext /\ (calls' # calls => ShownIsHeld)

\* A write of the job itself leaves the machine with what the job keeps.
LEMMA KeepsAfter ==
  ASSUME NEW m \in Machines, NEW steps \in Seq(SentWrites), NEW k \in 1..Len(steps),
         NEW op, NEW control, Keeps(op, steps, control, m)
  PROVE  Keeps(op, steps, control, AfterWrite(m, steps[k]))
<1> DEFINE w == steps[k]
           n == AfterWrite(m, w)
<1>1. /\ n.state = m.state \/ (w.reg = R_STATE /\ n.state = w.val)
      /\ n.command = m.command \/ (w.reg = R_COMMAND /\ n.command = w.val)
  BY DEF AfterWrite
<1>2. /\ op = "set_conditioning" => decompose(n.state).dhw = decompose(m.state).dhw
      /\ op = "set_dhw_enabled"
           => decompose(n.state).conditioning = decompose(m.state).conditioning
      /\ op = "ambient_switch" => ("DHW" \in n.command <=> "DHW" \in m.command)
      /\ op = "dhw_switch" => ("AMBIENT" \in n.command <=> "AMBIENT" \in m.command)
      /\ op = "set_setpoint" => n.state = m.state
  BY <1>1 DEF Keeps
<1> HIDE DEF n
<1>3. op = "set_setpoint" => InForce(n) = InForce(m)
  BY <1>2 DEF InForce
<1>4. Keeps(op, steps, control, n)
  BY <1>2, <1>3 DEF Keeps
<1> QED
  BY <1>4 DEF n

\* What is kept of the state and the command of a machine is kept of the machine.
LEMMA KeepsShown ==
  ASSUME NEW m, NEW op, NEW steps, NEW control, Keeps(op, steps, control, Readable(m))
  PROVE  Keeps(op, steps, control, m)
<1>1. Readable(m).state = m.state /\ Readable(m).command = m.command
  BY DEF Readable
<1>2. InForce(Readable(m)) = InForce(m)
  BY <1>1 DEF InForce
<1> QED
  BY <1>1, <1>2 DEF Keeps

LEMMA PatientNextInv ==
  ASSUME IInv, AskedType, PatientInv, [PatientNext]_ControlsVars
  PROVE  PatientInv'
<1>1. ASSUME NEW t \in Tasks, UseControl(t), calls' # calls => ShownIsHeld
      PROVE  PatientInv'
  <2>1. PICK op, o : Asked(t, op, o)
    BY <1>1, ControlCall
  <2>2. /\ CallWrite(t, op, o) /\ Keeps(op, o.steps, asked'[t], data)
        /\ \A u \in Tasks : u # t => asked'[u] = asked[u]
    BY <1>1, <2>1, ControlCall DEF Asked
  <2>3. /\ machine' = machine /\ calls' # calls
        /\ \A u \in Tasks : u # t => job'[u] = job[u] /\ pc'[u] = pc[u]
        /\ \/ job'[t] = job[t] /\ pc'[t] = pc[t]
           \/ job'[t].op = op /\ job'[t].steps = o.steps /\ pc'[t] \in Busy
    BY <2>2, CallFrame DEF IInv
  <2>4. data = Readable(machine) /\ \A u \in Tasks : pc[u] = "idle"
    BY <1>1, <2>3 DEF ShownIsHeld
  <2>5. \A u \in Tasks : job[u].steps = << >>
    BY <2>4 DEF PatientInv
  <2>6. Keeps(op, o.steps, asked'[t], machine)
    BY <2>2, <2>4, KeepsShown
  <2>7. \A u, v \in Tasks : pc'[u] # "idle" /\ pc'[v] # "idle" => u = v
    BY <2>3, <2>4
  <2>8. \A u \in Tasks : pc'[u] \notin {"waiting", "writing"} => job'[u].steps = << >>
    BY <2>3, <2>5 DEF Busy
  <2>9. ASSUME NEW u \in Tasks
        PROVE  Keeps(job'[u].op, job'[u].steps, asked'[u], machine')
    <3>1. CASE job'[u].steps = << >>
      BY <3>1, NoSteps
    <3>2. CASE job'[u].steps # << >>
      <4>1. u = t /\ job'[t].op = op /\ job'[t].steps = o.steps
        BY <2>3, <2>5, <3>2
      <4> QED
        BY <2>3, <2>6, <4>1
    <3> QED
      BY <3>1, <3>2
  <2> QED
    BY <2>7, <2>8, <2>9 DEF PatientInv
<1>2. CASE Underneath /\ UNCHANGED asked
  <2>1. /\ \A u \in Tasks :
             \/ job'[u].steps = << >>
             \/ /\ job'[u].steps = job[u].steps /\ job'[u].op = job[u].op
                /\ pc'[u] \in Busy \/ pc[u] \notin Busy
        /\ \A u \in Tasks : pc'[u] # "idle" => pc[u] # "idle"
    BY <1>2, UnderneathFrame
  <2>2. \A u, v \in Tasks : pc'[u] # "idle" /\ pc'[v] # "idle" => u = v
    BY <2>1 DEF PatientInv
  <2>3. \A u \in Tasks : pc'[u] \notin {"waiting", "writing"} => job'[u].steps = << >>
    BY <2>1 DEF PatientInv, Busy
  <2>4. ASSUME NEW u \in Tasks
        PROVE  Keeps(job'[u].op, job'[u].steps, asked'[u], machine')
    <3>1. CASE job'[u].steps = << >>
      BY <3>1, NoSteps
    <3>2. CASE job'[u].steps # << >>
      <4>1. /\ job'[u].steps = job[u].steps /\ job'[u].op = job[u].op /\ asked'[u] = asked[u]
            /\ job[u].steps # << >>
        BY <1>2, <2>1, <3>2
      <4>2. Keeps(job[u].op, job[u].steps, asked[u], machine) /\ pc[u] # "idle"
        BY <4>1 DEF PatientInv
      <4>3. CASE machine' = machine
        BY <4>1, <4>2, <4>3
      <4>4. CASE machine' # machine
        <5>1. PICK t \in Tasks, k \in Nat :
                /\ InJob(t) /\ k \in 1..Len(job[t].steps) /\ job[t].steps \in Seq(SentWrites)
                /\ machine' = AfterWrite(machine, job[t].steps[k])
          BY <1>2, <4>4, MachineStep DEF ControlsNext
        <5>2. t = u
          BY <4>2, <5>1 DEF InJob, PatientInv
        <5>3. machine \in Machines
          BY DEF IInv, TypeOK
        <5>4. Keeps(job[u].op, job[u].steps, asked[u], machine')
          BY <4>2, <5>1, <5>2, <5>3, KeepsAfter
        <5> QED
          BY <4>1, <5>4
      <4> QED
        BY <4>3, <4>4
    <3> QED
      BY <3>1, <3>2
  <2> QED
    BY <2>2, <2>3, <2>4 DEF PatientInv
<1>3. CASE UNCHANGED ControlsVars
  BY <1>3 DEF PatientInv, ControlsVars, vars, taskVars, machineVars
<1> QED
  BY <1>1, <1>2, <1>3 DEF PatientNext, ControlsNext

\* All that holds of a user who waits.
PInv == IInv /\ AskedType /\ PatientInv

THEOREM PatientInvariance == PatientControlsSpec => []PInv
<1>1. ControlsInit => PInv
  <2> SUFFICES ASSUME ControlsInit PROVE PInv
    OBVIOUS
  <2>1. IInv
    BY InitInv DEF ControlsInit
  <2>2. AskedType
    BY DEF ControlsInit, AskedType
  <2>3. \A t \in Tasks : job[t].steps = << >> /\ pc[t] = "idle"
    BY DEF ControlsInit, Init, NoJob
  <2> QED
    BY <2>1, <2>2, <2>3, NoSteps DEF PInv, PatientInv
<1>2. PInv /\ [PatientNext]_ControlsVars => PInv'
  <2>1. [PatientNext]_ControlsVars => [ControlsNext]_ControlsVars
    BY DEF PatientNext
  <2> QED
    BY <2>1, ControlsNextInv, PatientNextInv DEF PInv
<1>3. PatientControlsSpec => ControlsInit /\ [][PatientNext]_ControlsVars
  BY DEF PatientControlsSpec, PatientNext
<1> QED
  BY <1>1, <1>2, <1>3, PTL

\* A step that changes the machine sends a write of the owner's job, which leaves alone
\* what it should.
LEMMA PatientStep ==
  ASSUME PInv, [PatientNext]_ControlsVars, machine' # machine, NEW t \in Tasks, owner = t
  PROVE  \E w \in SentWrites :
           /\ machine' = AfterWrite(machine, w)
           /\ Keeps(job[t].op, << w >>, asked[t], machine)
<1>1. [ControlsNext]_ControlsVars
  BY DEF PatientNext
<1>2. PICK k \in Nat :
        /\ k \in 1..Len(job[t].steps) /\ job[t].steps \in Seq(SentWrites)
        /\ machine' = AfterWrite(machine, job[t].steps[k])
  BY <1>1, MachineStep DEF PInv
<1> DEFINE w == job[t].steps[k]
<1>3. w \in SentWrites
  BY <1>2, LenProperties
<1>4. Keeps(job[t].op, job[t].steps, asked[t], machine)
  BY DEF PInv, PatientInv
<1>5. Len(<< w >>) = 1 /\ << w >>[1] = w
  OBVIOUS
<1>6. Keeps(job[t].op, << w >>, asked[t], machine)
  BY <1>2, <1>4, <1>5 DEF Keeps
<1>7. machine \in Machines
  BY DEF PInv, IInv, TypeOK
<1> QED
  BY <1>2, <1>3, <1>6, <1>7

\* What keeping means of a single write, in terms of the machine after it.
LEMMA WriteKeeps ==
  ASSUME NEW m, NEW w, NEW op, NEW control, Keeps(op, << w >>, control, m)
  PROVE  LET n == AfterWrite(m, w)
         IN  /\ op = "set_conditioning" => decompose(n.state).dhw = decompose(m.state).dhw
             /\ op = "set_dhw_enabled"
                  => decompose(n.state).conditioning = decompose(m.state).conditioning
             /\ op = "ambient_switch" => ("DHW" \in n.command <=> "DHW" \in m.command)
             /\ op = "dhw_switch" => ("AMBIENT" \in n.command <=> "AMBIENT" \in m.command)
             /\ op = "set_setpoint" /\ control = "climate" /\ w.reg \in SETPOINTS
                  => w.reg \in InForce(m)
<1> DEFINE s == << w >>
           n == AfterWrite(m, w)
<1>1. /\ n.state = m.state \/ (w.reg = R_STATE /\ n.state = w.val)
      /\ n.command = m.command \/ (w.reg = R_COMMAND /\ n.command = w.val)
  BY DEF AfterWrite
<1>2. 1 \in 1..Len(s) /\ s[1] = w
  OBVIOUS
<1> HIDE DEF s, n
<1>3. Keeps(op, s, control, m)
  BY DEF s
<1>4. /\ op = "set_conditioning" => decompose(n.state).dhw = decompose(m.state).dhw
      /\ op = "set_dhw_enabled"
           => decompose(n.state).conditioning = decompose(m.state).conditioning
      /\ op = "ambient_switch" => ("DHW" \in n.command <=> "DHW" \in m.command)
      /\ op = "dhw_switch" => ("AMBIENT" \in n.command <=> "AMBIENT" \in m.command)
      /\ op = "set_setpoint" /\ control = "climate" /\ w.reg \in SETPOINTS
           => w.reg \in InForce(m)
  BY <1>1, <1>2, <1>3 DEF Keeps
<1> QED
  BY <1>4 DEF n

\* The climate and the water heater entity each write their half of the state and leave
\* the machine the other one, also when writes fail or lose their answers.
THEOREM EachOwnsAHalf == PatientControlsSpec => HalvesPreserved
<1> DEFINE A ==
      \A t \in Tasks :
        /\ Writing(t, "set_conditioning")
             => decompose(machine'.state).dhw = decompose(machine.state).dhw
        /\ Writing(t, "set_dhw_enabled")
             => decompose(machine'.state).conditioning = decompose(machine.state).conditioning
<1>1. PInv /\ [PatientNext]_ControlsVars => [A]_machine
  <2> SUFFICES ASSUME PInv, [PatientNext]_ControlsVars, machine' # machine PROVE A
    OBVIOUS
  <2>1. ASSUME NEW t \in Tasks, owner = t
        PROVE  /\ job[t].op = "set_conditioning"
                    => decompose(machine'.state).dhw = decompose(machine.state).dhw
               /\ job[t].op = "set_dhw_enabled"
                    => decompose(machine'.state).conditioning
                         = decompose(machine.state).conditioning
    BY <2>1, PatientStep, WriteKeeps
  <2> QED
    BY <2>1 DEF Writing
<1>2. PatientControlsSpec => ControlsInit /\ [][PatientNext]_ControlsVars
  BY DEF PatientControlsSpec, PatientNext
<1> QED
  BY <1>1, <1>2, PatientInvariance, PTL DEF HalvesPreserved

\* Each call switch leaves the machine the other call.
THEOREM EachSwitchesItsCall == PatientControlsSpec => CallsPreserved
<1> DEFINE A ==
      \A t \in Tasks :
        /\ Writing(t, "ambient_switch")
             => ("DHW" \in machine'.command <=> "DHW" \in machine.command)
        /\ Writing(t, "dhw_switch")
             => ("AMBIENT" \in machine'.command <=> "AMBIENT" \in machine.command)
<1>1. PInv /\ [PatientNext]_ControlsVars => [A]_machine
  <2> SUFFICES ASSUME PInv, [PatientNext]_ControlsVars, machine' # machine PROVE A
    OBVIOUS
  <2>1. ASSUME NEW t \in Tasks, owner = t
        PROVE  /\ job[t].op = "ambient_switch"
                    => ("DHW" \in machine'.command <=> "DHW" \in machine.command)
               /\ job[t].op = "dhw_switch"
                    => ("AMBIENT" \in machine'.command <=> "AMBIENT" \in machine.command)
    <3>1. PICK w \in SentWrites : /\ machine' = AfterWrite(machine, w)
                                  /\ Keeps(job[t].op, << w >>, asked[t], machine)
      BY <2>1, PatientStep
    <3> QED
      BY <3>1, WriteKeeps
  <2> QED
    BY <2>1 DEF Writing
<1>2. PatientControlsSpec => ControlsInit /\ [][PatientNext]_ControlsVars
  BY DEF PatientControlsSpec, PatientNext
<1> QED
  BY <1>1, <1>2, PatientInvariance, PTL DEF CallsPreserved

\* A temperature set on the climate entity changes no setpoint but the one the machine
\* regulates to when the write reaches it.
THEOREM ClimateFollowsTheMode == PatientControlsSpec => TargetFollowsTheMode
<1> DEFINE A ==
      \A t \in Tasks : \A a \in MachineSetpoints :
        /\ owner = t /\ asked[t] = "climate" /\ job[t].op = "set_setpoint"
        /\ machine'.setpoints[a] # machine.setpoints[a]
        => a \in InForce(machine)
<1>1. PInv /\ [PatientNext]_ControlsVars => [A]_machine
  <2> SUFFICES ASSUME PInv, [PatientNext]_ControlsVars, machine' # machine,
                      NEW t \in Tasks, NEW a \in MachineSetpoints,
                      owner = t, asked[t] = "climate", job[t].op = "set_setpoint",
                      machine'.setpoints[a] # machine.setpoints[a]
               PROVE  a \in InForce(machine)
    OBVIOUS
  <2>1. PICK w \in SentWrites : /\ machine' = AfterWrite(machine, w)
                                /\ Keeps(job[t].op, << w >>, asked[t], machine)
    BY PatientStep
  <2>2. machine.setpoints \in [MachineSetpoints -> Nat]
    BY DEF PInv, IInv, TypeOK, Machines
  <2>3. w.reg = a
    BY <2>1, <2>2 DEF AfterWrite
  <2>4. a \in SETPOINTS
    BY DEF MachineSetpoints, SETPOINTS
  <2> QED
    BY <2>1, <2>3, <2>4, WriteKeeps
<1>2. PatientControlsSpec => ControlsInit /\ [][PatientNext]_ControlsVars
  BY DEF PatientControlsSpec, PatientNext
<1> QED
  BY <1>1, <1>2, PatientInvariance, PTL DEF TargetFollowsTheMode
=============================================================================
