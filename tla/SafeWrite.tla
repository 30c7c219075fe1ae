----------------------------- MODULE SafeWrite ------------------------------
(***************************************************************************)
(* The composed write operations (safe_write.py).  An operation is the     *)
(* sequence of single-register writes it sends, in order.  The two bit     *)
(* fields, 7201 (enables) and 7202 (commands), are sets of bit names.      *)
(***************************************************************************)
EXTENDS Naturals, Sequences, States

R_STATE          == 7200
R_ENABLE         == 7201
R_COMMAND        == 7202
R_SET_COOLING    == 7203
R_SET_HEATING    == 7204
R_SET_DHW        == 7205
R_SET_DHW_HEATER == 7208

VALID_STATES == {0, 1, 2, 4, 5, 6}

\* Raw units, degrees x 10.
SETPOINTS == {R_SET_COOLING, R_SET_HEATING, R_SET_DHW, R_SET_DHW_HEATER}
SETPOINT_RANGES == [a \in SETPOINTS |->
                      CASE a = R_SET_COOLING    -> 50..230
                        [] a = R_SET_HEATING    -> 250..550
                        [] a = R_SET_DHW        -> 250..550
                        [] a = R_SET_DHW_HEATER -> 0..800]

\* The bits of the two fields that carry a name in the source.
ENABLE_BITS  == {"STATE", "SETPOINT", "SECOND_SETPOINT", "AMBIENT_CALL",
                 "DHW_CALL", "LEGIONELLA"}
COMMAND_BITS == {"SECOND_SETPOINT", "AMBIENT", "DHW", "LEGIONELLA",
                 "FORCED_PURGE", "INHIBIT_DHW"}

\* The command bits the write layer ever sets.
CallBits == {"AMBIENT", "DHW", "LEGIONELLA"}

BASE_ENABLE == {"STATE", "SETPOINT"}

enable_mask(ambient, dhw, legionella) ==
  BASE_ENABLE \cup (IF ambient    THEN {"AMBIENT_CALL"} ELSE {})
              \cup (IF dhw        THEN {"DHW_CALL"}     ELSE {})
              \cup (IF legionella THEN {"LEGIONELLA"}   ELSE {})

\* Mutant: a call that is not raised is inhibited as well.
command_mask_inhibits(ambient, dhw, legionella) ==
  (IF ambient THEN {"AMBIENT"} ELSE {}) \cup
  (IF dhw     THEN {"DHW"}     ELSE {"INHIBIT_DHW"})

command_mask(ambient, dhw, legionella) ==
  (IF ambient    THEN {"AMBIENT"}    ELSE {}) \cup
  (IF dhw        THEN {"DHW"}        ELSE {}) \cup
  (IF legionella THEN {"LEGIONELLA"} ELSE {})

-----------------------------------------------------------------------------
Write(register, value) == [reg |-> register, val |-> value]

\* An operation: "valid" is the verdict of the validation that runs before the
\* first write, "steps" the writes, and "best_effort" says whether a failed
\* write stops the ones that follow.
Operation(valid, steps) ==
  [valid |-> valid, best_effort |-> FALSE, steps |-> IF valid THEN steps ELSE << >>]

validate_state(state) == state \in VALID_STATES

\* Mutant: the range is left to the entities.
validate_setpoint_unbounded(address, raw) == address \in SETPOINTS

validate_setpoint(address, raw) ==
  address \in SETPOINTS /\ raw \in SETPOINT_RANGES[address]

apply_state(state) ==
  Operation(validate_state(state),
            << Write(R_ENABLE, BASE_ENABLE), Write(R_STATE, state) >>)

apply_calls(ambient, dhw) ==
  Operation(TRUE, << Write(R_ENABLE, enable_mask(ambient, dhw, FALSE)),
                     Write(R_COMMAND, command_mask(ambient, dhw, FALSE)) >>)

\* Mutant: the enables go out after the values they enable.
apply_state_and_calls_enable_last(state, ambient, dhw) ==
  Operation(validate_state(state),
            << Write(R_STATE, state),
               Write(R_COMMAND, command_mask(ambient, dhw, FALSE)),
               Write(R_ENABLE, enable_mask(ambient, dhw, FALSE)) >>)

apply_state_and_calls(state, ambient, dhw) ==
  Operation(validate_state(state),
            << Write(R_ENABLE, enable_mask(ambient, dhw, FALSE)),
               Write(R_STATE, state),
               Write(R_COMMAND, command_mask(ambient, dhw, FALSE)) >>)

apply_setpoint(address, raw) ==
  Operation(validate_setpoint(address, raw),
            << Write(R_ENABLE, BASE_ENABLE), Write(address, raw) >>)

start_legionella ==
  Operation(TRUE, << Write(R_ENABLE, enable_mask(FALSE, FALSE, TRUE)),
                     Write(R_COMMAND, command_mask(FALSE, FALSE, TRUE)) >>)

\* Clears 7202, 7200 and 7201 and reports the failures only at the end.
release ==
  [valid |-> TRUE, best_effort |-> TRUE,
   steps |-> << Write(R_COMMAND, {}), Write(R_STATE, 0), Write(R_ENABLE, {}) >>]

\* The writes an operation can send.
SentWrites ==
  [reg : {R_ENABLE}, val : SUBSET ENABLE_BITS] \cup
  [reg : {R_COMMAND}, val : SUBSET CallBits] \cup
  [reg : {R_STATE}, val : VALID_STATES] \cup
  [reg : SETPOINTS, val : Nat]
=============================================================================
