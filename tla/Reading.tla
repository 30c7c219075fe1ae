------------------------------ MODULE Reading -------------------------------
(***************************************************************************)
(* One poll, MaxaCoordinator._read_all (coordinator.py): the blocks that   *)
(* the planner made at import are read one transaction after the other,    *)
(* while the machine goes on changing, and the words are turned into the   *)
(* data of the entities.  The part of it that remembers earlier polls is   *)
(* in Telemetry.                                                           *)
(***************************************************************************)
EXTENDS Alarms, BlockPlanner, Sequences

CONSTANTS
  None,        \* Python's None
  Memories,    \* the register contents the machine can show: address -> word
  MaxChanges,  \* bound on how often the machine changes during the poll
  MaxDropped   \* bound on how many registers the one short reply of a poll lacks

\* Registers hold words of sixteen bits.
Words == {w \in Nat : w <= 65535}

ASSUME ReadingAssumption ==
  /\ None \notin Int
  /\ MaxDropped \in Nat
  /\ \A m \in Memories : \A a \in DOMAIN m : m[a] \in Words

VARIABLES
  memory,   \* what the registers hold now
  moments,  \* every content they held since the poll began
  next,     \* the block to read, 0 before the poll
  raw,      \* address -> value, of the blocks read so far
  data,     \* the result, None until the poll has ended
  short     \* some reply lacked registers

PollVars == << memory, moments, next, raw, data, short >>

\* The values that mean "probe absent, faulty or not configured".
SENTINELS == {32766, 32767, -32768, -32767, -32640, 65535}

\* Mutant: the words stay unsigned.
Signed_unsigned(word) == word

\* read_holding hands its words out signed.
Signed(word) == IF word > 32767 THEN word - 65536 ELSE word

\* "& 0xFFFF"
Unsigned(value) == value % 65536

\* raw.get(address, 0) & 0xFFFF
Word(r, address) == IF address \in DOMAIN r THEN Unsigned(r[address]) ELSE 0

\* Mutant: the words are decoded as they arrive, signed.
AlarmWords_signed(r) ==
  [i \in 0 .. 2 |-> LET a == ALARM_FIRST_REGISTER + i
                    IN IF a \in DOMAIN r THEN r[a] ELSE 0]

AlarmWords(r) == [i \in 0 .. 2 |-> Word(r, ALARM_FIRST_REGISTER + i)]

\* A declared register, in hundredths of its unit, None when it did not answer or
\* answered a sentinel.
Measured(r, key) ==
  LET reg == READ_REGISTERS[key]
  IN IF reg.address \notin DOMAIN r THEN None
     ELSE IF reg.sentinel /\ r[reg.address] \in SENTINELS THEN None
     ELSE r[reg.address] * reg.unit

DeltaT(inlet, outlet) == IF inlet # None /\ outlet # None THEN outlet - inlet ELSE None

\* flow / 60 * 4.186 * delta t, rounded to hundredths of a kilowatt.  The product is
\* taken in two parts, to stay within TLC's integers.
Power(flow, delta_t) ==
  LET product == (flow \div 100) * (delta_t \div 10)
  IN (product \div 6000) * WATER_HEAT_CAPACITY
     + ((product % 6000) * WATER_HEAT_CAPACITY + 3000) \div 6000

ThermalPower(flow, delta_t) ==
  IF flow # None /\ delta_t # None
    THEN IF flow > 0 THEN Power(flow, delta_t) ELSE None
    ELSE None

\* What the poll returns, but for what it remembers of earlier polls.
ReadAll(r) ==
  LET delta_t == DeltaT(Measured(r, "water_inlet"), Measured(r, "water_outlet"))
  IN [registers         |-> [key \in DOMAIN READ_REGISTERS |-> Measured(r, key)],
      alarm_registers   |-> AlarmWords(r),
      active_alarms     |-> decode(AlarmWords(r)),
      alarm_count       |-> count(AlarmWords(r)),
      defrost_requested |-> BitSet(Word(r, DEFROST_REGISTER), DEFROST_BIT_REQUESTED),
      defrost_running   |-> BitSet(Word(r, DEFROST_REGISTER), DEFROST_BIT_RUNNING),
      legionella_running |-> BitSet(Word(r, LEGIONELLA_REGISTER), LEGIONELLA_BIT_RUNNING),
      legionella_failed |-> BitSet(Word(r, LEGIONELLA_REGISTER), LEGIONELLA_BIT_FAILED),
      command           |-> Word(r, COMMAND_REGISTER),
      delta_t           |-> delta_t,
      thermal_power     |-> ThermalPower(Measured(r, "flow_rate"), delta_t)]

-----------------------------------------------------------------------------
\* The call made at import.
RealCall == [addresses |-> REQUIRED_ADDRESSES, max_gap |-> MAX_GAP, max_block |-> MAX_BLOCK]

\* The plan, in the order of the addresses.
READ_BLOCKS ==
  [i \in 1 .. Cardinality(blocks) |->
     CHOOSE b \in blocks : Cardinality({c \in blocks : c.start < b.start}) = i - 1]

\* Mutant: the flow meter is read apart from the probes.
Plan_meter_apart ==
  SubSeq(READ_BLOCKS, 1, 3) \o << ReadBlock(400, 44), ReadBlock(444, 1) >>
    \o SubSeq(READ_BLOCKS, 5, Len(READ_BLOCKS))

Plan == READ_BLOCKS

PollInit == /\ Init
            /\ memory = << >> /\ moments = {}
            /\ next = 0 /\ raw = << >> /\ data = None
            /\ short = FALSE

BeginPoll == /\ pc = "done" /\ args = RealCall /\ next = 0
             /\ memory' \in Memories
             /\ moments' = {memory'}
             /\ next' = 1
             /\ UNCHANGED << vars, raw, data, short >>

Polling == next >= 1 /\ next <= Len(Plan)

\* read_holding of the next block.  The machine answers an unmapped address with
\* zero; a reply may carry fewer registers than were asked for.
Fetch(block, kept) ==
  [offset \in 0 .. kept - 1 |->
     LET address == block.start + offset
     IN Signed(IF address \in DOMAIN memory THEN memory[address] ELSE 0)]

ReadNextBlock ==
  /\ Polling
  /\ \E dropped \in 0 .. MaxDropped :
       LET block == Plan[next]
           kept  == block.count - dropped
       IN /\ kept >= 0 /\ (dropped > 0 => ~ short)
          /\ raw' = [a \in DOMAIN raw \cup (block.start .. block.start + kept - 1) |->
                       IF a \in DOMAIN raw THEN raw[a] ELSE Fetch(block, kept)[a - block.start]]
          /\ short' = (short \/ dropped > 0)
  /\ next' = next + 1
  /\ UNCHANGED << vars, memory, moments, data >>

\* All blocks are in: the dictionary is built.
Derive == /\ next > 0 /\ next = Len(Plan) + 1
          /\ data = None
          /\ data' = ReadAll(raw)
          /\ UNCHANGED << vars, memory, moments, next, raw, short >>

\* The transaction failed in all its attempts: the poll raises.
BlockFails == /\ Polling
              /\ next' = Len(Plan) + 2
              /\ UNCHANGED << vars, memory, moments, raw, data, short >>

\* The machine does not wait for the poll.
MachineChanges == /\ Polling
                  /\ Cardinality(moments) <= MaxChanges
                  /\ memory' \in Memories
                  /\ moments' = moments \cup {memory'}
                  /\ UNCHANGED << vars, next, raw, data, short >>

PollNext == \/ Next /\ UNCHANGED PollVars
            \/ BeginPoll \/ ReadNextBlock \/ Derive \/ BlockFails \/ MachineChanges

PollSpec == PollInit /\ [][PollNext]_<< vars, PollVars >>

-----------------------------------------------------------------------------
\* No set of legal reads of the same addresses is smaller than the plan
\* (registers.py:111 "into as few transactions as possible").  The plans of the real
\* map are too many to be enumerated.
FewestTransactions == pc = "done" /\ args # RealCall => NoneSmaller
=============================================================================
