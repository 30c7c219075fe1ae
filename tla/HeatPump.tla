------------------------------ MODULE HeatPump ------------------------------
(***************************************************************************)
(* The register file of the machine as the repository's simulator answers  *)
(* it (scripts/modbus_simulator.py, class HeatPump).  A machine is a       *)
(* record of the four things a master can write.                           *)
(***************************************************************************)
EXTENDS SafeWrite

\* The setpoint registers the machine keeps; a write to any other unmapped
\* register is accepted and ignored.
MachineSetpoints == {R_SET_COOLING, R_SET_HEATING, R_SET_DHW}

Machines == [state : VALID_STATES, enable : SUBSET ENABLE_BITS,
             command : SUBSET COMMAND_BITS, setpoints : [MachineSetpoints -> Nat]]

\* The machine after one acknowledged write.  A state or a setpoint whose
\* enable bit is missing is acknowledged and dropped.
AfterWrite(m, w) ==
  [state     |-> IF w.reg = R_STATE /\ "STATE" \in m.enable /\ w.val \in VALID_STATES
                   THEN w.val ELSE m.state,
   enable    |-> IF w.reg = R_ENABLE THEN w.val ELSE m.enable,
   command   |-> IF w.reg = R_COMMAND THEN w.val ELSE m.command,
   setpoints |-> IF w.reg \in MachineSetpoints /\ "SETPOINT" \in m.enable
                   THEN [m.setpoints EXCEPT ![w.reg] = w.val] ELSE m.setpoints]

\* An illegal state is answered with a Modbus exception, not acknowledged.
Refused(m, w) ==
  w.reg = R_STATE /\ "STATE" \in m.enable /\ w.val \notin VALID_STATES

\* What a master reads back: registers 200, 7202 and 7203-7205.
Readable(m) == [state |-> m.state, command |-> m.command, setpoints |-> m.setpoints]
=============================================================================
