----------------------------- MODULE Registers ------------------------------
(***************************************************************************)
(* The register map (registers.py): what a poll must fetch, how a word     *)
(* becomes a measurement and the limits of the derived values.             *)
(***************************************************************************)
EXTENDS Integers

MAX_GAP == 16
MAX_BLOCK == 64

\* One contiguous read.
ReadBlock(start, count) == [start |-> start, count |-> count]
end(block) == block.start + block.count - 1
contains(block, address) == block.start <= address /\ address <= end(block)

\* A register: its address, and whether the sentinel filter applies.  Values are
\* kept in hundredths of the unit: "unit" is 100 times the scale.
Temperature(address) == [address |-> address, unit |-> 10, sentinel |-> TRUE]
Pressure(address) == [address |-> address, unit |-> 1, sentinel |-> TRUE]
Plain(address, sentinel) == [address |-> address, unit |-> 100, sentinel |-> sentinel]

READ_REGISTERS ==
  [machine_state |-> Plain(200, FALSE),
   water_inlet |-> Temperature(400), water_outlet |-> Temperature(401),
   dhw_tank |-> Temperature(405), high_pressure |-> Pressure(406),
   low_pressure |-> Pressure(414), suction_temp |-> Temperature(422),
   outdoor |-> Temperature(428), discharge_temp |-> Temperature(433),
   flow_rate |-> Plain(444, TRUE), evaporation_temp |-> Temperature(253),
   condensation_temp |-> Temperature(254), compressor_hours |-> Plain(305, TRUE),
   fan |-> Temperature(7000), circulator |-> Temperature(7001),
   cooling_setpoint |-> Temperature(7203), heating_setpoint |-> Temperature(7204),
   dhw_setpoint |-> Temperature(7205)]

ALARM_FIRST_REGISTER == 950
ALARM_REGISTERS == {950, 951, 952}
DEFROST_REGISTER == 7214
DEFROST_BIT_REQUESTED == 13
DEFROST_BIT_RUNNING == 14
LEGIONELLA_REGISTER == 7216
LEGIONELLA_BIT_RUNNING == 5
LEGIONELLA_BIT_FAILED == 6
COMMAND_REGISTER == 7202

\* In J/(kg K).
WATER_HEAT_CAPACITY == 4186

STATUS_REGISTERS ==
  ALARM_REGISTERS \cup {COMMAND_REGISTER, DEFROST_REGISTER, LEGIONELLA_REGISTER}

REQUIRED_ADDRESSES ==
  {READ_REGISTERS[key].address : key \in DOMAIN READ_REGISTERS} \cup STATUS_REGISTERS
=============================================================================
