-------------------------- MODULE CoordinatorProofs -------------------------
(***************************************************************************)
(* Proofs about Coordinator for every set of tasks, operations, inputs and *)
(* initial machines.                                                       *)
(***************************************************************************)
EXTENDS CoordinatorProps, SequenceTheorems, TLAPS

USE DEF Places, Holding, Phases

-----------------------------------------------------------------------------
(* The inductive invariant. *)

\* The queue holds each waiter once, and only waiters.
QueueInv(q, where, phase) ==
  /\ q \in Seq(Procs)
  /\ \A i \in 1..Len(q) : /\ q[i] \in Tasks => where[q[i]] = "waiting"
                          /\ q[i] = Poller => phase = "waiting"
  /\ \A i, j \in 1..Len(q) : q[i] = q[j] => i = j

\* Who holds the lock is known from where everyone is.
LockInv ==
  /\ \A t \in Tasks : pc[t] = "writing" <=> owner = t
  /\ refresh \in Holding <=> owner = Poller
  /\ QueueInv(queue, pc, refresh)

\* At most one refresh is under way, and the task that awaits it does nothing else.  A
\* cancelled poll is on the bus only after unload, when no other was begun since.
RefreshInv ==
  /\ cause \in Tasks => pc[cause] = "refreshing" /\ refresh # "idle"
  /\ debouncer # "ready" => refresh = "idle"
  /\ orphan => ~loaded /\ refresh = "idle"

\* The enables come first in a write sequence and cover every write after them,
\* and no register is written twice.
SafeSequence(steps) ==
  \A i \in 1..Len(steps) :
    /\ IF i = 1 THEN steps[1].reg = R_ENABLE
                ELSE /\ steps[i].reg # R_ENABLE
                     /\ EnablesNeeded(steps[i]) \subseteq steps[1].val
    /\ \A j \in 1..Len(steps) : steps[i].reg = steps[j].reg => i = j

\* What a job has written so far is in effect at the machine, until it fails.
WrittenInEffect(j, m) == \A i \in 1..j.done : InEffect(m, j.steps[i])

JobInv ==
  \A t \in Tasks :
    /\ job[t].done <= Len(job[t].steps)
    /\ pc[t] = "waiting" => job[t].done = 0
    /\ ~job[t].best_effort => SafeSequence(job[t].steps)
    /\ pc[t] = "writing" /\ ~job[t].best_effort /\ ~job[t].failed
         => WrittenInEffect(job[t], machine)

IInv == TypeOK /\ LockInv /\ RefreshInv /\ EveryTimerHasHandle /\ JobInv

-----------------------------------------------------------------------------
(* The write operations. *)

\* What every operation of SafeWrite hands to _write.
WellFormed(o) ==
  /\ o.valid \in BOOLEAN /\ o.best_effort \in BOOLEAN
  /\ o.steps \in Seq(SentWrites)
  /\ ~o.best_effort => SafeSequence(o.steps)

\* A sequence of two sent writes, the first to the enable register.
LEMMA TwoWrites ==
  ASSUME NEW mask \in SUBSET ENABLE_BITS, NEW w \in SentWrites,
         w.reg # R_ENABLE, EnablesNeeded(w) \subseteq mask
  PROVE  /\ << Write(R_ENABLE, mask), w >> \in Seq(SentWrites)
         /\ SafeSequence(<< Write(R_ENABLE, mask), w >>)
<1>1. Write(R_ENABLE, mask) \in SentWrites
  BY DEF Write, SentWrites
<1>2. << Write(R_ENABLE, mask), w >> \in Seq(SentWrites)
  BY <1>1
<1>3. Write(R_ENABLE, mask).reg = R_ENABLE /\ Write(R_ENABLE, mask).val = mask
  BY DEF Write
<1> DEFINE s == << Write(R_ENABLE, mask), w >>
<1>4. Len(s) = 2 /\ s[1] = Write(R_ENABLE, mask) /\ s[2] = w
  OBVIOUS
<1> HIDE DEF s
<1>5. SafeSequence(s)
  BY <1>3, <1>4 DEF SafeSequence
<1> QED
  BY <1>2, <1>5 DEF s

\* The same for three.
LEMMA ThreeWrites ==
  ASSUME NEW mask \in SUBSET ENABLE_BITS, NEW v \in SentWrites, NEW w \in SentWrites,
         v.reg # R_ENABLE, EnablesNeeded(v) \subseteq mask,
         w.reg # R_ENABLE, EnablesNeeded(w) \subseteq mask, v.reg # w.reg
  PROVE  /\ << Write(R_ENABLE, mask), v, w >> \in Seq(SentWrites)
         /\ SafeSequence(<< Write(R_ENABLE, mask), v, w >>)
<1>1. Write(R_ENABLE, mask) \in SentWrites
  BY DEF Write, SentWrites
<1>2. << Write(R_ENABLE, mask), v, w >> \in Seq(SentWrites)
  BY <1>1
<1>3. Write(R_ENABLE, mask).reg = R_ENABLE /\ Write(R_ENABLE, mask).val = mask
  BY DEF Write
<1> DEFINE s == << Write(R_ENABLE, mask), v, w >>
<1>4. Len(s) = 3 /\ s[1] = Write(R_ENABLE, mask) /\ s[2] = v /\ s[3] = w
  OBVIOUS
<1> HIDE DEF s
<1>5. SafeSequence(s)
  BY <1>3, <1>4 DEF SafeSequence
<1> QED
  BY <1>2, <1>5 DEF s

\* Every mask the write layer builds is a legal one, and the enable mask covers
\* the command mask built from the same arguments.
LEMMA Masks ==
  ASSUME NEW a \in BOOLEAN, NEW d \in BOOLEAN, NEW l \in BOOLEAN
  PROVE  /\ enable_mask(a, d, l) \subseteq ENABLE_BITS
         /\ command_mask(a, d, l) \subseteq CallBits
         /\ EnablesNeeded(Write(R_COMMAND, command_mask(a, d, l))) \subseteq enable_mask(a, d, l)
         /\ BASE_ENABLE \subseteq enable_mask(a, d, l)
<1>1. enable_mask(a, d, l) \subseteq ENABLE_BITS
  BY DEF enable_mask, BASE_ENABLE, ENABLE_BITS
<1>2. command_mask(a, d, l) \subseteq CallBits
  BY DEF command_mask, CallBits
<1>3. ASSUME NEW enable \in EnablesNeeded(Write(R_COMMAND, command_mask(a, d, l)))
      PROVE  enable \in enable_mask(a, d, l)
  <2>1. PICK bit \in command_mask(a, d, l) : << bit, enable >> \in CallEnables
    BY DEF EnablesNeeded, Write, R_COMMAND, R_STATE, SETPOINTS,
       R_SET_COOLING, R_SET_HEATING, R_SET_DHW, R_SET_DHW_HEATER
  <2> QED
    BY <2>1 DEF command_mask, enable_mask, CallEnables
<1>5. BASE_ENABLE \subseteq enable_mask(a, d, l)
  BY DEF enable_mask
<1> QED
  BY <1>1, <1>2, <1>3, <1>5

\* A write to the command register is a sent write.
LEMMA CommandWrite ==
  ASSUME NEW a \in BOOLEAN, NEW d \in BOOLEAN, NEW l \in BOOLEAN
  PROVE  LET w == Write(R_COMMAND, command_mask(a, d, l))
         IN  w \in SentWrites /\ w.reg # R_ENABLE
<1>1. command_mask(a, d, l) \in SUBSET CallBits
  BY Masks
<1> QED
  BY <1>1 DEF Write, SentWrites, R_COMMAND, R_ENABLE

\* A write of a legal state is a sent write that the base mask enables.
LEMMA StateWrite ==
  ASSUME NEW state \in VALID_STATES
  PROVE  LET w == Write(R_STATE, state)
         IN  /\ w \in SentWrites /\ w.reg # R_ENABLE
             /\ EnablesNeeded(w) \subseteq BASE_ENABLE
BY DEF Write, SentWrites, EnablesNeeded, BASE_ENABLE, SETPOINTS, R_STATE, R_ENABLE, R_COMMAND,
   R_SET_COOLING, R_SET_HEATING, R_SET_DHW, R_SET_DHW_HEATER

\* Writing the packed state is well formed.
LEMMA ApplyState ==
  ASSUME NEW state
  PROVE  WellFormed(apply_state(state))
<1>1. CASE validate_state(state)
  <2>1. BASE_ENABLE \in SUBSET ENABLE_BITS
    BY DEF BASE_ENABLE, ENABLE_BITS
  <2> QED
    BY <1>1, <2>1, StateWrite, TwoWrites
    DEF WellFormed, apply_state, Operation, validate_state
<1>2. CASE ~validate_state(state)
  BY <1>2 DEF WellFormed, apply_state, Operation, validate_state, SafeSequence
<1> QED
  BY <1>1, <1>2

\* So is writing the command register from the calls for air and hot water.
LEMMA ApplyCalls ==
  ASSUME NEW a \in BOOLEAN, NEW d \in BOOLEAN
  PROVE  WellFormed(apply_calls(a, d))
BY Masks, CommandWrite, TwoWrites DEF WellFormed, apply_calls, Operation

\* So is writing the state and then the calls under one command mask.
LEMMA ApplyStateAndCalls ==
  ASSUME NEW state, NEW a \in BOOLEAN, NEW d \in BOOLEAN
  PROVE  WellFormed(apply_state_and_calls(state, a, d))
<1>1. CASE validate_state(state)
  <2> DEFINE v == Write(R_STATE, state)
             w == Write(R_COMMAND, command_mask(a, d, FALSE))
             mask == enable_mask(a, d, FALSE)
  <2>1. mask \in SUBSET ENABLE_BITS /\ EnablesNeeded(w) \subseteq mask
    BY Masks
  <2>2. v \in SentWrites /\ v.reg # R_ENABLE /\ EnablesNeeded(v) \subseteq mask
    BY <1>1, StateWrite, Masks DEF validate_state
  <2>3. w \in SentWrites /\ w.reg # R_ENABLE /\ v.reg # w.reg
    <3>1. v.reg = R_STATE /\ w.reg = R_COMMAND /\ R_STATE # R_COMMAND
      BY DEF Write, R_STATE, R_COMMAND
    <3> QED
      BY <3>1, CommandWrite
  <2>4. /\ << Write(R_ENABLE, mask), v, w >> \in Seq(SentWrites)
        /\ SafeSequence(<< Write(R_ENABLE, mask), v, w >>)
    <3> HIDE DEF v, w, mask
    <3> QED
      BY <2>1, <2>2, <2>3, ThreeWrites
  <2> QED
    BY <1>1, <2>4 DEF WellFormed, apply_state_and_calls, Operation, validate_state
<1>2. CASE ~validate_state(state)
  BY <1>2 DEF WellFormed, apply_state_and_calls, Operation, validate_state, SafeSequence
<1> QED
  BY <1>1, <1>2

\* So is a setpoint write, under the base enable mask.
LEMMA ApplySetpoint ==
  ASSUME NEW address, NEW raw \in Nat
  PROVE  WellFormed(apply_setpoint(address, raw))
<1>1. CASE validate_setpoint(address, raw)
  <2> DEFINE w == Write(address, raw)
  <2>1. /\ w \in SentWrites /\ w.reg # R_ENABLE
        /\ EnablesNeeded(w) \subseteq BASE_ENABLE
    BY <1>1 DEF validate_setpoint, Write, SentWrites, EnablesNeeded, BASE_ENABLE, SETPOINTS,
       R_ENABLE, R_STATE, R_COMMAND, R_SET_COOLING, R_SET_HEATING, R_SET_DHW, R_SET_DHW_HEATER
  <2>2. BASE_ENABLE \in SUBSET ENABLE_BITS
    BY DEF BASE_ENABLE, ENABLE_BITS
  <2>3. /\ << Write(R_ENABLE, BASE_ENABLE), w >> \in Seq(SentWrites)
        /\ SafeSequence(<< Write(R_ENABLE, BASE_ENABLE), w >>)
    <3> HIDE DEF w
    <3> QED
      BY <2>1, <2>2, TwoWrites
  <2> QED
    BY <1>1, <2>3 DEF WellFormed, apply_setpoint, Operation, validate_setpoint
<1>2. CASE ~validate_setpoint(address, raw)
  BY <1>2 DEF WellFormed, apply_setpoint, Operation, validate_setpoint, SafeSequence
<1> QED
  BY <1>1, <1>2

\* So is the legionella cycle.
LEMMA StartLegionella == WellFormed(start_legionella)
BY Masks, CommandWrite, TwoWrites DEF WellFormed, start_legionella, Operation

\* So is giving the machine back, which clears the enable register last.
LEMMA Release == WellFormed(release)
<1>1. /\ Write(R_COMMAND, {}) \in SentWrites
      /\ Write(R_STATE, 0) \in SentWrites
      /\ Write(R_ENABLE, {}) \in SentWrites
  BY DEF Write, SentWrites, VALID_STATES
<1> QED
  BY <1>1 DEF WellFormed, release

\* The packed state stays a legal one through both halves' setters.
LEMMA SettersLegal ==
  ASSUME NEW s, NEW c \in Conditionings, NEW d \in BOOLEAN
  PROVE  /\ decompose(s).conditioning \in Conditionings /\ decompose(s).dhw \in BOOLEAN
         /\ with_conditioning(s, c) \in VALID_STATES
         /\ with_dhw(s, d) \in VALID_STATES
<1>1. decompose(s).conditioning \in Conditionings /\ decompose(s).dhw \in BOOLEAN
  BY DEF decompose, REVERSE, LegalStates, Conditionings
<1>2. ASSUME NEW cc \in Conditionings, NEW dd \in BOOLEAN
      PROVE  compose(cc, dd) \in VALID_STATES
  BY DEF compose, TABLE, Conditionings, VALID_STATES
<1> QED
  BY <1>1, <1>2 DEF with_conditioning, with_dhw

-----------------------------------------------------------------------------
(* The machine. *)

\* A write of this integration leaves a well-typed machine whose command register
\* holds no bit it does not know.
LEMMA AfterWriteType ==
  ASSUME NEW m \in Machines, m.command \subseteq CallBits, NEW w \in SentWrites
  PROVE  /\ AfterWrite(m, w) \in Machines
         /\ AfterWrite(m, w).command \subseteq CallBits
<1> USE DEF AfterWrite, Machines, MachineSetpoints, R_STATE, R_ENABLE, R_COMMAND,
            R_SET_COOLING, R_SET_HEATING, R_SET_DHW, R_SET_DHW_HEATER, SETPOINTS
<1>1. CallBits \subseteq COMMAND_BITS
  BY DEF CallBits, COMMAND_BITS
<1>2. CASE w \in [reg : {R_ENABLE}, val : SUBSET ENABLE_BITS]
  BY <1>2
<1>3. CASE w \in [reg : {R_COMMAND}, val : SUBSET CallBits]
  BY <1>1, <1>3
<1>4. CASE w \in [reg : {R_STATE}, val : VALID_STATES]
  BY <1>4
<1>5. CASE w \in [reg : SETPOINTS, val : Nat]
  BY <1>5
<1> QED
  BY <1>2, <1>3, <1>4, <1>5 DEF SentWrites

\* A write whose enable bits the machine has takes effect ...
LEMMA TakesEffect ==
  ASSUME NEW m \in Machines, NEW w \in SentWrites,
         EnablesNeeded(w) \subseteq m.enable \/ w.reg = R_ENABLE
  PROVE  InEffect(AfterWrite(m, w), w)
<1> USE DEF AfterWrite, InEffect, Machines, MachineSetpoints, R_STATE, R_ENABLE, R_COMMAND,
            R_SET_COOLING, R_SET_HEATING, R_SET_DHW, R_SET_DHW_HEATER, SETPOINTS
<1>1. CASE w \in [reg : {R_ENABLE}, val : SUBSET ENABLE_BITS]
  BY <1>1
<1>2. CASE w \in [reg : {R_COMMAND}, val : SUBSET CallBits]
  BY <1>2
<1>3. CASE w \in [reg : {R_STATE}, val : VALID_STATES]
  <2>1. "STATE" \in EnablesNeeded(w)
    BY <1>3 DEF EnablesNeeded, ENABLE_BITS
  <2> QED
    BY <1>3, <2>1
<1>4. CASE w \in [reg : SETPOINTS, val : Nat]
  <2>1. "SETPOINT" \in EnablesNeeded(w)
    BY <1>4 DEF EnablesNeeded, ENABLE_BITS
  <2> QED
    BY <1>4, <2>1
<1> QED
  BY <1>1, <1>2, <1>3, <1>4 DEF SentWrites

\* ... and leaves every other register as it is.
LEMMA OthersStayInEffect ==
  ASSUME NEW m \in Machines, NEW w \in SentWrites, NEW v \in SentWrites,
         v.reg # w.reg, InEffect(m, v)
  PROVE  InEffect(AfterWrite(m, w), v)
BY DEF AfterWrite, InEffect, Machines

\* What the machine shows is a reading of the right type.
LEMMA ReadableType ==
  ASSUME NEW m \in Machines, m.command \subseteq CallBits
  PROVE  Readable(m) \in Readings
BY DEF Readable, Readings, Machines

-----------------------------------------------------------------------------
(* The queue of the lock. *)

\* A queue without repetitions stays one when a newcomer joins at its end ...
LEMMA QueueAppend ==
  ASSUME NEW q \in Seq(Procs), NEW p \in Procs
  PROVE  /\ Append(q, p) \in Seq(Procs)
         /\ Len(Append(q, p)) = Len(q) + 1
         /\ Len(q) \in Nat
         /\ \A i \in 1..Len(q) : Append(q, p)[i] = q[i]
         /\ Append(q, p)[Len(q) + 1] = p
BY AppendProperties, LenProperties

\* ... and when its head leaves.
LEMMA QueueTail ==
  ASSUME NEW q \in Seq(Procs), q # << >>
  PROVE  /\ Tail(q) \in Seq(Procs)
         /\ Len(q) \in Nat /\ Len(q) > 0
         /\ Len(Tail(q)) = Len(q) - 1
         /\ \A i \in 1..Len(Tail(q)) : Tail(q)[i] = q[i + 1]
         /\ Head(q) = q[1] /\ q[1] \in Procs
BY HeadTailProperties, LenProperties, EmptySeq

\* A new waiter that was not waiting joins the queue.
LEMMA TaskJoins ==
  ASSUME QueueInv(queue, pc, refresh), NEW t \in Tasks,
         pc \in [Tasks -> Places],
         pc[t] # "waiting"
  PROVE  QueueInv(Append(queue, t), [pc EXCEPT ![t] = "waiting"], refresh)
<1>1. t \in Procs /\ t # Poller
  BY TasksAssumption DEF Procs
<1>2. \A i \in 1..Len(queue) : queue[i] # t
  BY DEF QueueInv
<1> QED
  BY <1>1, <1>2, QueueAppend DEF QueueInv

\* The refresh joins the queue if it is not in it.
LEMMA PollerJoins ==
  ASSUME QueueInv(queue, pc, refresh), refresh # "waiting"
  PROVE  QueueInv(Append(queue, Poller), pc, "waiting")
<1>1. Poller \in Procs /\ Poller \notin Tasks
  BY TasksAssumption DEF Procs
<1>2. \A i \in 1..Len(queue) : queue[i] # Poller
  BY DEF QueueInv
<1> QED
  BY <1>1, <1>2, QueueAppend DEF QueueInv

\* The first waiter leaves the queue; nobody else in it is that waiter.
LEMMA HeadLeaves ==
  ASSUME QueueInv(queue, pc, refresh), queue # << >>
  PROVE  /\ QueueInv(Tail(queue), pc, refresh)
         /\ \A i \in 1..Len(Tail(queue)) : Tail(queue)[i] # Head(queue)
BY QueueTail DEF QueueInv

\* A task that was not waiting and still is not does not disturb the queue.
LEMMA OthersWait ==
  ASSUME QueueInv(queue, pc, refresh), NEW t \in Tasks, NEW where,
         pc \in [Tasks -> Places],
         pc[t] # "waiting"
  PROVE  QueueInv(queue, [pc EXCEPT ![t] = where], refresh)
BY DEF QueueInv

\* The same for the refresh.
LEMMA PollerElsewhere ==
  ASSUME QueueInv(queue, pc, refresh), refresh # "waiting", NEW phase
  PROVE  QueueInv(queue, pc, phase)
BY DEF QueueInv

\* A queue that one of its waiters leaves.
LEMMA QueueLoses ==
  ASSUME NEW q \in Seq(Procs), NEW k \in 1..Len(q), NEW r,
         r = SubSeq(q, 1, k - 1) \o SubSeq(q, k + 1, Len(q))
  PROVE  /\ r \in Seq(Procs)
         /\ Len(q) \in Nat /\ Len(r) = Len(q) - 1
         /\ \A i \in 1..Len(r) : r[i] = q[IF i < k THEN i ELSE i + 1]
<1> DEFINE n == Len(q)
           front == SubSeq(q, 1, k - 1)
           back == SubSeq(q, k + 1, n)
<1>1. n \in Nat /\ k \in 1..n /\ \A i \in 1..n : q[i] \in Procs
  BY LenProperties
<1>2. /\ front \in Seq(Procs) /\ Len(front) = k - 1
      /\ \A i \in 1..(k - 1) : front[i] = q[i]
  BY <1>1, SubSeqProperties
<1>3. /\ back \in Seq(Procs) /\ Len(back) = n - k
      /\ \A i \in 1..(n - k) : back[i] = q[k + i]
  BY <1>1, SubSeqProperties
<1>4. r = front \o back
  OBVIOUS
<1> HIDE DEF n, front, back
<1> DEFINE c == front \o back
<1>5. /\ c \in Seq(Procs)
      /\ Len(c) = Len(front) + Len(back)
      /\ \A i \in 1 .. Len(front) + Len(back) :
           c[i] = IF i <= Len(front) THEN front[i] ELSE back[i - Len(front)]
  BY <1>2, <1>3, ConcatProperties
<1>6. r = c
  BY <1>4
<1> HIDE DEF c
<1>7. Len(c) = n - 1
  BY ONLY <1>1, <1>2, <1>3, <1>5, k \in 1..Len(q)
<1>8. ASSUME NEW i \in 1..(n - 1)
      PROVE  r[i] = q[IF i < k THEN i ELSE i + 1]
  <2>1. c[i] = IF i <= k - 1 THEN front[i] ELSE back[i - (k - 1)]
    BY <1>1, <1>2, <1>3, <1>5
  <2>2. CASE i < k
    <3>1. i \in 1..(k - 1) /\ c[i] = front[i]
      BY <1>1, <2>1, <2>2
    <3> QED
      BY <1>2, <1>6, <2>2, <3>1
  <2>3. CASE ~(i < k)
    <3>1. i - (k - 1) \in 1..(n - k) /\ k + (i - (k - 1)) = i + 1
      BY <1>1, <2>3
    <3>2. c[i] = back[i - (k - 1)]
      BY <1>1, <2>1, <2>3
    <3>3. back[i - (k - 1)] = q[k + (i - (k - 1))]
      BY <1>3, <3>1
    <3> QED
      BY <1>6, <2>3, <3>1, <3>2, <3>3
  <2> QED
    BY <2>2, <2>3
<1> QED
  BY <1>1, <1>5, <1>6, <1>7, <1>8 DEF n

\* A waiting refresh is cancelled: nobody else loses its place.
LEMMA PollerLeaves ==
  ASSUME QueueInv(queue, pc, refresh), LeavesQueue(Poller)
  PROVE  QueueInv(queue', pc, "idle")
<1>1. queue \in Seq(Procs) /\ DOMAIN queue = 1..Len(queue)
  BY LenProperties DEF QueueInv
<1>2. PICK k \in 1..Len(queue) :
        /\ queue[k] = Poller
        /\ queue' = SubSeq(queue, 1, k - 1) \o SubSeq(queue, k + 1, Len(queue))
  BY <1>1 DEF LeavesQueue
<1>3. /\ queue' \in Seq(Procs)
      /\ Len(queue) \in Nat /\ Len(queue') = Len(queue) - 1
      /\ \A i \in 1..Len(queue') : queue'[i] = queue[IF i < k THEN i ELSE i + 1]
  BY <1>1, <1>2, QueueLoses
<1> DEFINE from(i) == IF i < k THEN i ELSE i + 1
<1>4. \A i \in 1..Len(queue') : from(i) \in 1..Len(queue) /\ from(i) # k
  BY <1>3
<1>5. \A i, j \in 1..Len(queue') : from(i) = from(j) => i = j
  BY <1>3
<1>6. \A i \in 1..Len(queue') : queue'[i] = queue[from(i)]
  BY <1>3
<1> HIDE DEF from
<1>7. queue[k] = Poller /\ \A i, j \in 1..Len(queue) : queue[i] = queue[j] => i = j
  BY <1>2 DEF QueueInv
<1>8. ASSUME NEW i \in 1..Len(queue')
      PROVE  queue'[i] # Poller /\ (queue'[i] \in Tasks => pc[queue'[i]] = "waiting")
  <2>1. from(i) \in 1..Len(queue) /\ from(i) # k /\ queue'[i] = queue[from(i)]
    BY <1>4, <1>6
  <2>2. queue[from(i)] \in Tasks => pc[queue[from(i)]] = "waiting"
    BY <2>1 DEF QueueInv
  <2> QED
    BY <1>7, <2>1, <2>2
<1>9. \A i, j \in 1..Len(queue') : queue'[i] = queue'[j] => i = j
  BY <1>4, <1>5, <1>6, <1>7
<1> QED
  BY <1>3, <1>8, <1>9 DEF QueueInv

-----------------------------------------------------------------------------
(* Each action preserves the invariant. *)

\* The invariant holds of every coordinator that has done its first refresh.
THEOREM InitInv == Init => IInv
<1> SUFFICES ASSUME Init PROVE IInv
  OBVIOUS
<1>1. machine \in Machines /\ machine.command \subseteq CallBits
  BY InputsAssumption DEF Init
<1>2. shown \in Readings /\ data \in Readings /\ reading \in Readings
  BY <1>1, ReadableType DEF Init
<1>3. NoJob \in Jobs
  BY DEF NoJob, Jobs
<1>4. TypeOK
  <2>1. queue \in Seq(Procs) /\ owner \in Procs \cup {Nobody}
    BY DEF Init
  <2>2. pc \in [Tasks -> Places]
    BY DEF Init
  <2>3. job \in [Tasks -> Jobs]
    BY <1>3 DEF Init
  <2>4. calls \in 0..MaxCalls
    BY MaxCallsAssumption DEF Init
  <2> QED
    BY <1>1, <1>2, <2>1, <2>2, <2>3, <2>4 DEF Init, TypeOK
<1>5. LockInv
  BY TasksAssumption DEF Init, LockInv, QueueInv, Poller, Nobody
<1>6. RefreshInv /\ EveryTimerHasHandle
  BY TasksAssumption DEF Init, RefreshInv, EveryTimerHasHandle
<1>7. JobInv
  BY DEF Init, JobInv, NoJob, SafeSequence
<1> QED
  BY <1>4, <1>5, <1>6, <1>7 DEF IInv

\* A call that must write takes the lock or queues up behind its holder.
LEMMA CallWriteInv ==
  ASSUME IInv, NEW t \in Tasks, NEW op, NEW o, WellFormed(o), CallWrite(t, op, o)
  PROVE  IInv'
<1> USE DEF IInv
<1>1. CASE read_only
  BY <1>1, MaxCallsAssumption DEF CallWrite, TypeOK, LockInv, RefreshInv, EveryTimerHasHandle,
     JobInv, machineVars, dataVars, lockVars, taskVars, refreshVars, timerVars, entryVars
<1>2. CASE ~read_only
  <2> DEFINE j == [op |-> op, best_effort |-> o.best_effort, steps |-> o.steps, done |-> 0,
                   failed |-> ~o.valid]
             there == IF Free THEN "writing" ELSE "waiting"
  <2>1. /\ job' = [job EXCEPT ![t] = j]
        /\ pc' = [pc EXCEPT ![t] = there]
        /\ TakeOrWait(t, owner)
        /\ pc[t] = "idle" /\ calls < MaxCalls /\ calls' = calls + 1
        /\ UNCHANGED << machine, shown, data, reading, last_update_success, refresh, cause,
                        debouncer, timers, pending, read_only, loaded, orphan >>
    BY <1>2 DEF CallWrite, machineVars, dataVars, refreshVars, timerVars, entryVars
  <2>2. op \in OpNames
    BY OpsAssumption DEF CallWrite
  <2>3. j \in Jobs
    BY <2>2 DEF Jobs, WellFormed
  <2>4. j.done = 0 /\ j.steps = o.steps /\ j.best_effort = o.best_effort
    OBVIOUS
  <2>5. there \in {"writing", "waiting"} /\ (there = "writing" <=> Free)
    OBVIOUS
  <2> HIDE DEF j, there
  <2>6. t \in Procs /\ t # Poller /\ t # Nobody /\ Nobody # Poller
    BY TasksAssumption DEF Procs, Nobody, Poller
  <2>7. TypeOK'
    <3>1. owner' \in Procs \cup {Nobody} /\ queue' \in Seq(Procs)
      BY <2>1, <2>6, QueueAppend DEF TakeOrWait, TypeOK
    <3>2. calls' \in 0..MaxCalls
      BY <2>1, MaxCallsAssumption DEF TypeOK
    <3> QED
      BY <2>1, <2>3, <2>5, <3>1, <3>2 DEF TypeOK
  <2>8. LockInv'
    <3>1. QueueInv(queue, pc, refresh) /\ pc \in [Tasks -> Places]
      BY DEF LockInv, TypeOK
    <3>2. CASE Free
      <4>1. owner' = t /\ queue' = queue /\ owner = Nobody /\ there = "writing"
        BY <2>1, <2>5, <3>2 DEF TakeOrWait, Free
      <4>2. QueueInv(queue', pc', refresh')
        BY <2>1, <3>1, <4>1, OthersWait
      <4>3. \A u \in Tasks : pc'[u] = "writing" <=> owner' = u
        BY <2>1, <2>6, <3>1, <4>1, TasksAssumption DEF LockInv
      <4>4. refresh' \in Holding <=> owner' = Poller
        BY <2>1, <2>6, <4>1 DEF LockInv
      <4> QED
        BY <4>2, <4>3, <4>4 DEF LockInv
    <3>3. CASE ~Free
      <4>1. owner' = owner /\ queue' = Append(queue, t) /\ there = "waiting"
        BY <2>1, <2>5, <3>3 DEF TakeOrWait, Free
      <4>2. QueueInv(queue', pc', refresh')
        BY <2>1, <3>1, <4>1, TaskJoins
      <4>3. \A u \in Tasks : pc'[u] = "writing" <=> owner' = u
        BY <2>1, <3>1, <4>1 DEF LockInv
      <4>4. refresh' \in Holding <=> owner' = Poller
        BY <2>1, <4>1 DEF LockInv
      <4> QED
        BY <4>2, <4>3, <4>4 DEF LockInv
    <3> QED
      BY <3>2, <3>3
  <2>9. RefreshInv' /\ EveryTimerHasHandle'
    BY <2>1 DEF RefreshInv, EveryTimerHasHandle, TypeOK
  <2>10. JobInv'
    <3>1. /\ job'[t] = j /\ Len(j.steps) \in Nat
          /\ \A u \in Tasks : u # t => job'[u] = job[u] /\ pc'[u] = pc[u]
      BY <2>1, <2>3, LenProperties DEF TypeOK, Jobs
    <3>2. ~j.best_effort => SafeSequence(j.steps)
      BY <2>4 DEF WellFormed
    <3>3. WrittenInEffect(j, machine)
      BY <2>4 DEF WrittenInEffect
    <3> QED
      BY <2>1, <2>4, <3>1, <3>2, <3>3 DEF JobInv
  <2> QED
    BY <2>7, <2>8, <2>9, <2>10
<1> QED
  BY <1>1, <1>2

\* Every call of an entity or service preserves the invariant.
LEMMA MakeCallInv ==
  ASSUME IInv, NEW t \in Tasks, MakeCall(t)
  PROVE  IInv'
<1>1. CASE \E state \in StateInputs : async_set_state(t, state)
  BY <1>1, ApplyState, CallWriteInv DEF async_set_state
<1>2. CASE \E on \in BOOLEAN : TurnAmbientSwitch(t, on)
  <2>1. dhw_call \in BOOLEAN
    BY DEF dhw_call
  <2> QED
    BY <1>2, <2>1, ApplyCalls, CallWriteInv DEF TurnAmbientSwitch
<1>3. CASE \E on \in BOOLEAN : TurnDhwSwitch(t, on)
  <2>1. ambient_call \in BOOLEAN
    BY DEF ambient_call
  <2> QED
    BY <1>3, <2>1, ApplyCalls, CallWriteInv DEF TurnDhwSwitch
<1>4. CASE \E mode \in Conditionings : async_set_conditioning(t, mode)
  <2>1. PICK mode \in Conditionings : async_set_conditioning(t, mode)
    BY <1>4
  <2> DEFINE state == with_conditioning(data.state, mode)
             call == decompose(state).dhw /\ dhw_call
             ambient == mode # "off"
  <2>2. call \in BOOLEAN /\ ambient \in BOOLEAN
    BY SettersLegal
  <2>3. CallWrite(t, "set_conditioning", apply_state_and_calls(state, ambient, call))
    BY <2>1 DEF async_set_conditioning
  <2> HIDE DEF state, call, ambient
  <2> QED
    BY <2>2, <2>3, ApplyStateAndCalls, CallWriteInv
<1>5. CASE \E enabled \in BOOLEAN : async_set_dhw_enabled(t, enabled)
  <2>1. PICK enabled \in BOOLEAN : async_set_dhw_enabled(t, enabled)
    BY <1>5
  <2> DEFINE state == with_dhw(data.state, enabled)
             call == decompose(state).conditioning # "off" /\ ambient_call
  <2>2. call \in BOOLEAN
    OBVIOUS
  <2>3. CallWrite(t, "set_dhw_enabled", apply_state_and_calls(state, call, enabled))
    BY <2>1 DEF async_set_dhw_enabled
  <2> HIDE DEF state, call
  <2> QED
    BY <2>1, <2>2, <2>3, ApplyStateAndCalls, CallWriteInv
<1>6. CASE \E input \in SetpointInputs : async_set_setpoint(t, input[1], input[2])
  <2>1. PICK input \in SetpointInputs : async_set_setpoint(t, input[1], input[2])
    BY <1>6
  <2>2. input[2] \in Nat
    BY InputsAssumption
  <2> QED
    BY <2>1, <2>2, ApplySetpoint, CallWriteInv DEF async_set_setpoint
<1>7. CASE async_start_legionella(t)
  BY <1>7, StartLegionella, CallWriteInv DEF async_start_legionella
<1>8. CASE async_release(t)
  BY <1>8, Release, CallWriteInv DEF async_release
<1> QED
  BY <1>1, <1>2, <1>3, <1>4, <1>5, <1>6, <1>7, <1>8 DEF MakeCall

\* The three outcomes of one write of a job: the machine ends as it was or as the
\* write makes it, and in the second case the job may or may not learn of it.
LEMMA OneWriteInv ==
  ASSUME IInv, NEW t \in Tasks, NEW raised \in BOOLEAN, InJob(t), OneWriteDone(t, raised),
         \/ machine' = AfterWrite(machine, NextWrite(t))
         \/ machine' = machine /\ raised
  PROVE  IInv'
<1> USE DEF IInv
<1> DEFINE w == NextWrite(t)
<1>1. /\ pc[t] = "writing" /\ job[t].done # Len(job[t].steps)
      /\ job[t].failed => job[t].best_effort
  BY DEF InJob, JobOver
<1>2. /\ job' = [job EXCEPT ![t] = [job[t] EXCEPT !.done = job[t].done + 1,
                                                 !.failed = job[t].failed \/ raised]]
      /\ UNCHANGED << shown, data, reading, last_update_success, owner, queue, pc, refresh,
                      cause, debouncer, timers, pending, read_only, loaded, orphan, calls >>
  BY DEF OneWriteDone, dataVars, lockVars, refreshVars, timerVars, entryVars, TypeOK
<1>3. /\ job[t] \in Jobs /\ job[t].steps \in Seq(SentWrites) /\ job[t].done \in Nat
      /\ Len(job[t].steps) \in Nat /\ job[t].done + 1 \in 1..Len(job[t].steps)
  BY <1>1, LenProperties DEF TypeOK, JobInv, Jobs
<1>4. w = job[t].steps[job[t].done + 1] /\ w \in SentWrites
  BY <1>3, ElementOfSeq DEF NextWrite
<1> HIDE DEF w
<1>5. /\ machine' \in Machines /\ machine'.command \subseteq CallBits
      /\ \/ machine' = AfterWrite(machine, w)
         \/ machine' = machine /\ raised
  BY <1>4, AfterWriteType DEF TypeOK, w
<1>6. /\ job'[t] \in Jobs /\ job'[t].done = job[t].done + 1
      /\ job'[t].steps = job[t].steps /\ job'[t].best_effort = job[t].best_effort
      /\ job'[t].failed = (job[t].failed \/ raised)
      /\ job' \in [Tasks -> Jobs]
      /\ \A u \in Tasks : u # t => job'[u] = job[u]
  <2> DEFINE now == job[t].failed \/ raised
  <2>1. now \in BOOLEAN
    OBVIOUS
  <2>2. job' = [job EXCEPT ![t] = [job[t] EXCEPT !.done = job[t].done + 1, !.failed = now]]
    BY <1>2
  <2> HIDE DEF now
  <2>3. job'[t] = [job[t] EXCEPT !.done = job[t].done + 1, !.failed = now]
        /\ \A u \in Tasks : u # t => job'[u] = job[u]
    BY <2>2 DEF TypeOK
  <2>4. /\ job'[t] \in Jobs /\ job'[t].done = job[t].done + 1
        /\ job'[t].steps = job[t].steps /\ job'[t].best_effort = job[t].best_effort
        /\ job'[t].failed = now
    <3> DEFINE j == job[t]
    <3>1. /\ j \in [op : OpNames \cup {"none"}, best_effort : BOOLEAN, steps : Seq(SentWrites),
                    done : Nat, failed : BOOLEAN]
          /\ job'[t] = [j EXCEPT !.done = j.done + 1, !.failed = now]
      BY <1>3, <2>3 DEF Jobs
    <3> HIDE DEF j
    <3>2. job'[t] = [op |-> j.op, best_effort |-> j.best_effort, steps |-> j.steps,
                     done |-> j.done + 1, failed |-> now]
      BY <3>1
    <3>3. /\ job'[t].done = j.done + 1 /\ job'[t].steps = j.steps
          /\ job'[t].best_effort = j.best_effort /\ job'[t].failed = now
      BY <3>2
    <3>4. job'[t] \in Jobs
      BY <2>1, <3>1, <3>2 DEF Jobs
    <3> QED
      BY <3>3, <3>4 DEF j
  <2>5. job' \in [Tasks -> Jobs]
    BY <2>2, <2>3, <2>4 DEF TypeOK
  <2> QED
    BY <2>3, <2>4, <2>5 DEF now
<1>7. TypeOK'
  BY <1>2, <1>5, <1>6 DEF TypeOK
<1>8. LockInv' /\ RefreshInv' /\ EveryTimerHasHandle'
  BY <1>2 DEF LockInv, RefreshInv, EveryTimerHasHandle
<1>9. JobInv'
  <2>1. job'[t].done <= Len(job'[t].steps)
    BY <1>3, <1>6
  <2>2. ~job'[t].best_effort => SafeSequence(job'[t].steps)
    BY <1>6 DEF JobInv
  <2>3. ASSUME ~job'[t].best_effort, ~job'[t].failed
        PROVE  WrittenInEffect(job'[t], machine')
    <3>1. machine' = AfterWrite(machine, w) /\ ~job[t].failed /\ ~job[t].best_effort
      BY <1>5, <1>6, <2>3
    <3>2. SafeSequence(job[t].steps) /\ WrittenInEffect(job[t], machine)
      BY <1>1, <3>1 DEF JobInv
    <3> DEFINE n == job[t].done
               steps == job[t].steps
    <3>3. n \in Nat /\ n + 1 \in 1..Len(steps) /\ w = steps[n + 1] /\ steps \in Seq(SentWrites)
      BY <1>3, <1>4
    <3>4. n > 0 => machine.enable = steps[1].val
      BY <3>2, <3>3 DEF SafeSequence, WrittenInEffect, InEffect
    <3>5. EnablesNeeded(w) \subseteq machine.enable \/ w.reg = R_ENABLE
      BY <3>2, <3>3, <3>4 DEF SafeSequence
    <3>6. InEffect(machine', w)
      BY <1>4, <3>1, <3>5, TakesEffect DEF TypeOK
    <3>7. ASSUME NEW i \in 1..n
          PROVE  InEffect(machine', steps[i])
      <4>1. steps[i].reg # w.reg /\ InEffect(machine, steps[i])
        BY <3>2, <3>3 DEF SafeSequence, WrittenInEffect
      <4>2. steps[i] \in SentWrites
        BY <3>3, ElementOfSeq
      <4> QED
        BY <1>4, <3>1, <4>1, <4>2, OthersStayInEffect DEF TypeOK
    <3> HIDE DEF n, steps
    <3>8. \A i \in 1..(n + 1) : InEffect(machine', steps[i])
      BY <3>3, <3>6, <3>7
    <3> QED
      BY <1>6, <3>8 DEF WrittenInEffect, n, steps
  <2>4. \A u \in Tasks : u # t => pc'[u] # "writing"
    BY <1>1, <1>2 DEF LockInv
  <2>5. pc'[t] = "writing"
    BY <1>1, <1>2
  <2> HIDE DEF SafeSequence
  <2> QED
    BY <1>2, <1>6, <2>1, <2>2, <2>3, <2>4, <2>5 DEF JobInv
<1> QED
  BY <1>7, <1>8, <1>9

\* Sending one write preserves it, whether answered, lost or refused.
LEMMA WriteInv ==
  ASSUME IInv, NEW t \in Tasks, WriteAcknowledged(t) \/ AnswerLost(t) \/ WriteFails(t)
  PROVE  IInv'
BY OneWriteInv DEF WriteAcknowledged, AnswerLost, WriteFails

\* A lock holder that leaves, or a task that returns, keeps everyone in place.
LEMMA JobTypes ==
  ASSUME TypeOK, NEW t \in Tasks
  PROVE  /\ NoJob \in Jobs
         /\ [job EXCEPT ![t] = NoJob] \in [Tasks -> Jobs]
         /\ [job EXCEPT ![t] = NoJob][t] = NoJob
         /\ \A u \in Tasks : u # t => [job EXCEPT ![t] = NoJob][u] = job[u]
<1>1. NoJob \in Jobs
  BY DEF NoJob, Jobs
<1> QED
  BY <1>1 DEF TypeOK

\* A task whose job is reset and that leaves "writing" keeps JobInv.
LEMMA JobReset ==
  ASSUME IInv, NEW t \in Tasks, job' = [job EXCEPT ![t] = NoJob],
         UNCHANGED machine, pc'[t] # "writing",
         \A u \in Tasks : u # t => pc'[u] = pc[u]
  PROVE  JobInv'
<1>1. /\ NoJob.done = 0 /\ Len(NoJob.steps) = 0
  BY DEF NoJob
<1>2. /\ job'[t] = NoJob
      /\ \A u \in Tasks : u # t => job'[u] = job[u]
  BY JobTypes DEF IInv
<1>3. SafeSequence(NoJob.steps)
  BY <1>1 DEF SafeSequence
<1> HIDE DEF SafeSequence
<1> QED
  BY <1>1, <1>2, <1>3 DEF IInv, JobInv

\* A job that failed lets go of the lock and raises.
LEMMA WriteRaisesInv ==
  ASSUME IInv, NEW t \in Tasks, WriteRaises(t)
  PROVE  IInv'
<1> USE DEF IInv
<1>1. /\ pc[t] = "writing" /\ owner' = Nobody
      /\ pc' = [pc EXCEPT ![t] = "idle"] /\ job' = [job EXCEPT ![t] = NoJob]
      /\ UNCHANGED << machine, shown, data, reading, last_update_success, queue, refresh, cause,
                      debouncer, timers, pending, read_only, loaded, orphan, calls >>
  BY DEF WriteRaises, Returns, machineVars, dataVars, refreshVars, timerVars, entryVars
<1>2. TypeOK'
  BY <1>1, JobTypes DEF TypeOK
<1>3. LockInv'
  <2>1. QueueInv(queue, [pc EXCEPT ![t] = "idle"], refresh)
    BY <1>1, OthersWait DEF LockInv, TypeOK
  <2>2. owner = t /\ t # Poller /\ Nobody # Poller /\ Nobody \notin Tasks
    BY <1>1, TasksAssumption DEF LockInv, Nobody, Poller
  <2> QED
    BY <1>1, <2>1, <2>2 DEF LockInv, TypeOK
<1>4. RefreshInv' /\ EveryTimerHasHandle'
  BY <1>1 DEF RefreshInv, EveryTimerHasHandle, TypeOK
<1>5. JobInv'
  BY <1>1, JobReset DEF TypeOK
<1> QED
  BY <1>2, <1>3, <1>4, <1>5

\* The start of a refresh, whoever asked for it.
LEMMA StartRefreshLock ==
  ASSUME TypeOK, RefreshInv, QueueInv(queue, pc, refresh), refresh = "idle",
         NEW by \in Tasks \cup {Schedule, Timer}, NEW holder \in Procs \cup {Nobody},
         holder # Poller, StartRefresh(by, holder)
  PROVE  /\ owner' \in Procs \cup {Nobody} /\ refresh' \in Phases /\ refresh' # "idle"
         /\ cause' = by /\ debouncer' = "ready"
         /\ QueueInv(queue', pc, refresh')
         /\ refresh' \in Holding <=> owner' = Poller
         /\ \A t \in Tasks : owner' = t <=> holder = t
<1>1. Poller \in Procs /\ Poller \notin Tasks /\ Nobody \notin Tasks /\ Nobody # Poller
  BY TasksAssumption DEF Procs, Nobody, Poller
<1>2. /\ cause' = by /\ debouncer' = "ready" /\ TakeOrWait(Poller, holder)
      /\ refresh' = IF holder = Nobody /\ queue = << >> THEN "state" ELSE "waiting"
  BY DEF StartRefresh
<1>3. CASE holder = Nobody /\ queue = << >>
  <2>1. owner' = Poller /\ queue' = queue /\ refresh' = "state"
    BY <1>2, <1>3 DEF TakeOrWait
  <2>2. QueueInv(queue, pc, "state")
    BY PollerElsewhere
  <2> QED
    BY <1>1, <1>2, <1>3, <2>1, <2>2
<1>4. CASE ~(holder = Nobody /\ queue = << >>)
  <2>1. owner' = holder /\ queue' = Append(queue, Poller) /\ refresh' = "waiting"
    BY <1>2, <1>4 DEF TakeOrWait
  <2>2. QueueInv(Append(queue, Poller), pc, "waiting")
    BY PollerJoins
  <2> QED
    BY <1>1, <1>2, <2>1, <2>2
<1> QED
  BY <1>3, <1>4

\* A job that succeeded lets go of the lock and asks for a refresh.
LEMMA WriteRefreshesInv ==
  ASSUME IInv, NEW t \in Tasks, WriteRefreshes(t)
  PROVE  IInv'
<1> USE DEF IInv
<1>1. /\ pc[t] = "writing" /\ refresh = "idle" /\ loaded /\ StartRefresh(t, Nobody)
      /\ pc' = [pc EXCEPT ![t] = "refreshing"] /\ job' = [job EXCEPT ![t] = NoJob]
      /\ UNCHANGED << machine, shown, data, reading, last_update_success,
                      timers, pending, read_only, loaded, orphan, calls >>
  BY DEF WriteRefreshes, RunsNow, machineVars, dataVars, timerVars, entryVars
<1>2. owner = t /\ t # Poller /\ Nobody # Poller /\ Nobody \notin Tasks
  BY <1>1, TasksAssumption DEF LockInv, Nobody, Poller
<1>3. /\ owner' \in Procs \cup {Nobody} /\ refresh' \in Phases /\ refresh' # "idle"
      /\ cause' = t /\ debouncer' = "ready"
      /\ QueueInv(queue', pc, refresh')
      /\ refresh' \in Holding <=> owner' = Poller
      /\ \A u \in Tasks : owner' # u
  BY <1>1, <1>2, StartRefreshLock DEF LockInv
<1>4. queue' \in Seq(Procs) /\ QueueInv(queue', pc', refresh')
  BY <1>1, <1>3 DEF QueueInv, TypeOK
<1>5. TypeOK'
  BY <1>1, <1>3, <1>4, JobTypes DEF TypeOK
<1>6. LockInv'
  <2>1. \A u \in Tasks : pc'[u] # "writing"
    BY <1>1, <1>2 DEF LockInv, TypeOK
  <2> QED
    BY <1>3, <1>4, <2>1 DEF LockInv
<1>7. RefreshInv' /\ EveryTimerHasHandle'
  BY <1>1, <1>3 DEF RefreshInv, EveryTimerHasHandle, TypeOK
<1>8. JobInv'
  BY <1>1, JobReset DEF TypeOK
<1> QED
  BY <1>5, <1>6, <1>7, <1>8

\* Arming the delayed refresh leaves exactly one timer, the one with the handle.
LEMMA RearmOne ==
  ASSUME EveryTimerHasHandle, RearmTimer
  PROVE  timers' = 1 /\ pending' = TRUE
BY DEF EveryTimerHasHandle, RearmTimer

\* A job whose request for a refresh is absorbed arms the delayed one and returns.
LEMMA WriteReturnsInv ==
  ASSUME IInv, NEW t \in Tasks, WriteReturns(t)
  PROVE  IInv'
<1> USE DEF IInv
<1>1. /\ pc[t] = "writing" /\ owner' = Nobody
      /\ pc' = [pc EXCEPT ![t] = "idle"] /\ job' = [job EXCEPT ![t] = NoJob]
      /\ timers' = 1 /\ pending' = TRUE
      /\ debouncer' = IF loaded /\ debouncer = "cooling" THEN "again" ELSE debouncer
      /\ UNCHANGED << machine, shown, data, reading, last_update_success, queue, refresh, cause,
                      read_only, loaded, orphan, calls >>
  BY RearmOne DEF WriteReturns, AbsorbRequest, Returns, machineVars, dataVars, entryVars
<1>2. TypeOK'
  BY <1>1, JobTypes DEF TypeOK
<1>3. LockInv'
  <2>1. QueueInv(queue, [pc EXCEPT ![t] = "idle"], refresh)
    BY <1>1, OthersWait DEF LockInv, TypeOK
  <2>2. owner = t /\ t # Poller /\ Nobody # Poller /\ Nobody \notin Tasks
    BY <1>1, TasksAssumption DEF LockInv, Nobody, Poller
  <2> QED
    BY <1>1, <2>1, <2>2 DEF LockInv, TypeOK
<1>4. RefreshInv' /\ EveryTimerHasHandle'
  BY <1>1 DEF RefreshInv, EveryTimerHasHandle, TypeOK
<1>5. JobInv'
  BY <1>1, JobReset DEF TypeOK
<1> QED
  BY <1>2, <1>3, <1>4, <1>5

\* The first waiting task takes the lock, with the writes it was called for.
LEMMA AcquireForWriteInv ==
  ASSUME IInv, NEW t \in Tasks, AcquireForWrite(t)
  PROVE  IInv'
<1> USE DEF IInv
<1>1. /\ owner = Nobody /\ queue # << >> /\ Head(queue) = t
      /\ owner' = t /\ queue' = Tail(queue) /\ pc' = [pc EXCEPT ![t] = "writing"]
      /\ UNCHANGED << machine, shown, data, reading, last_update_success, job, refresh, cause,
                      debouncer, timers, pending, read_only, loaded, orphan, calls >>
  BY DEF AcquireForWrite, machineVars, dataVars, refreshVars, timerVars, entryVars
<1>2. t \in Procs /\ t # Poller /\ t # Nobody /\ Nobody # Poller
  BY TasksAssumption DEF Procs, Nobody, Poller
<1>3. /\ QueueInv(Tail(queue), pc, refresh)
      /\ \A i \in 1..Len(Tail(queue)) : Tail(queue)[i] # t
  BY <1>1, HeadLeaves DEF LockInv
<1>4. pc[t] = "waiting"
  BY <1>1, QueueTail DEF LockInv, QueueInv
<1>5. QueueInv(queue', pc', refresh')
  BY <1>1, <1>3 DEF QueueInv, TypeOK
<1>6. TypeOK'
  BY <1>1, <1>2, <1>5 DEF TypeOK, QueueInv
<1>7. LockInv'
  <2>1. \A u \in Tasks : pc'[u] = "writing" <=> owner' = u
    BY <1>1, <1>2, TasksAssumption DEF LockInv, TypeOK
  <2>2. refresh' \in Holding <=> owner' = Poller
    BY <1>1, <1>2 DEF LockInv
  <2> QED
    BY <1>5, <2>1, <2>2 DEF LockInv
<1>8. RefreshInv' /\ EveryTimerHasHandle'
  BY <1>1, <1>4 DEF RefreshInv, EveryTimerHasHandle, TypeOK
<1>9. JobInv'
  <2>1. WrittenInEffect(job[t], machine)
    BY <1>4 DEF WrittenInEffect, JobInv
  <2> QED
    BY <1>1, <2>1 DEF JobInv, TypeOK
<1> QED
  BY <1>6, <1>7, <1>8, <1>9

\* The waiting poll takes the lock at its turn and begins to read.
LEMMA AcquireForPollInv ==
  ASSUME IInv, AcquireForPoll
  PROVE  IInv'
<1> USE DEF IInv
<1>1. /\ owner = Nobody /\ queue # << >> /\ Head(queue) = Poller
      /\ owner' = Poller /\ queue' = Tail(queue) /\ refresh' = "state"
      /\ UNCHANGED << machine, shown, data, reading, last_update_success, pc, job, cause,
                      debouncer, timers, pending, read_only, loaded, orphan, calls >>
  BY DEF AcquireForPoll, machineVars, dataVars, taskVars, timerVars, entryVars
<1>2. Poller \in Procs /\ Poller \notin Tasks /\ Nobody \notin Tasks /\ Nobody # Poller
  BY TasksAssumption DEF Procs, Nobody, Poller
<1>3. /\ QueueInv(Tail(queue), pc, refresh)
      /\ \A i \in 1..Len(Tail(queue)) : Tail(queue)[i] # Poller
  BY <1>1, HeadLeaves DEF LockInv
<1>4. refresh = "waiting"
  BY <1>1, QueueTail DEF LockInv, QueueInv
<1>5. QueueInv(queue', pc', refresh')
  BY <1>1, <1>3 DEF QueueInv, TypeOK
<1>6. TypeOK'
  BY <1>1, <1>2, <1>5 DEF TypeOK, QueueInv
<1>7. LockInv'
  BY <1>1, <1>2, <1>5 DEF LockInv
<1>8. RefreshInv' /\ EveryTimerHasHandle'
  BY <1>1, <1>4 DEF RefreshInv, EveryTimerHasHandle
<1>9. JobInv'
  BY <1>1 DEF JobInv
<1> QED
  BY <1>6, <1>7, <1>8, <1>9

\* A step of the poll's executor job: only what is read and where the poll is
\* change, and the poll keeps the lock.
LEMMA ReadStepInv ==
  ASSUME IInv, refresh \in Holding, refresh' \in Holding, reading' \in Readings,
         UNCHANGED << machine, shown, data, last_update_success, owner, queue, pc, job, cause,
                      debouncer, timers, pending, read_only, loaded, orphan, calls >>
  PROVE  IInv'
<1> USE DEF IInv
<1>1. TypeOK'
  BY DEF TypeOK
<1>2. QueueInv(queue, pc, refresh')
  BY PollerElsewhere DEF LockInv
<1>3. LockInv' /\ RefreshInv' /\ EveryTimerHasHandle' /\ JobInv'
  BY <1>2 DEF LockInv, RefreshInv, EveryTimerHasHandle, JobInv
<1> QED
  BY <1>1, <1>3

\* The steps of a reading change neither the lock nor any job.
LEMMA ReadInv ==
  ASSUME IInv, ReadStateBlock \/ ReadCallsBlock \/ ReadFails
  PROVE  IInv'
<1> USE DEF IInv, machineVars, lockVars, taskVars, timerVars, entryVars
<1>1. shown \in Readings /\ data \in Readings /\ reading \in Readings
  BY DEF TypeOK
<1>2. CASE ReadStateBlock
  <2>1. reading' \in Readings
    BY <1>1, <1>2 DEF ReadStateBlock, Readings
  <2> QED
    BY <1>2, <2>1, ReadStepInv DEF ReadStateBlock
<1>3. CASE ReadCallsBlock
  <2>1. reading' \in Readings
    BY <1>1, <1>3 DEF ReadCallsBlock, Readings
  <2> QED
    BY <1>3, <2>1, ReadStepInv DEF ReadCallsBlock
<1>4. CASE ReadFails
  BY <1>1, <1>4, ReadStepInv DEF ReadFails
<1> QED
  BY <1>2, <1>3, <1>4

\* The end of a refresh frees the lock and releases the call behind it.
LEMMA EndRefreshInv ==
  ASSUME IInv, EndRefresh
  PROVE  IInv'
<1> USE DEF IInv
<1>1. /\ refresh \in {"read", "failed"} /\ refresh' = "idle" /\ owner' = Nobody /\ cause' = Nobody
      /\ data' = IF refresh = "read" THEN reading ELSE data
      /\ last_update_success' = (refresh = "read")
      /\ debouncer' \in {"cooling", "ready"}
      /\ UNCHANGED << machine, shown, reading, queue, job, read_only, loaded, orphan, calls >>
  BY DEF EndRefresh, machineVars, entryVars
<1>2. \/ cause \in Tasks /\ pc' = [pc EXCEPT ![cause] = "idle"] /\ timers' = 1 /\ pending' = TRUE
      \/ UNCHANGED << pc, timers, pending >>
  BY RearmOne DEF EndRefresh, timerVars
<1>3. Nobody \notin Tasks /\ Nobody # Poller /\ owner = Poller /\ Poller \notin Tasks
  BY <1>1, TasksAssumption DEF LockInv, Nobody, Poller
<1>4. pc' \in [Tasks -> Places] /\ timers' \in Nat /\ pending' \in BOOLEAN
  <2>1. pc \in [Tasks -> Places] /\ timers \in Nat /\ pending \in BOOLEAN
    BY DEF TypeOK
  <2>2. CASE cause \in Tasks /\ pc' = [pc EXCEPT ![cause] = "idle"] /\ timers' = 1 /\ pending' = TRUE
    BY <2>1, <2>2
  <2>3. CASE UNCHANGED << pc, timers, pending >>
    BY <2>1, <2>3
  <2> QED
    BY <1>2, <2>2, <2>3
<1>5. TypeOK'
  BY <1>1, <1>4 DEF TypeOK
<1>6. \A u \in Tasks : /\ pc'[u] # "writing" /\ pc[u] # "writing"
                       /\ pc'[u] = "waiting" <=> pc[u] = "waiting"
  BY <1>2, <1>3 DEF LockInv, RefreshInv, TypeOK
<1>7. QueueInv(queue', pc', refresh')
  BY <1>1, <1>6 DEF LockInv, QueueInv
<1>8. LockInv'
  BY <1>1, <1>3, <1>6, <1>7 DEF LockInv
<1>9. RefreshInv' /\ EveryTimerHasHandle'
  BY <1>1, <1>2, <1>3 DEF RefreshInv, EveryTimerHasHandle
<1>10. JobInv'
  BY <1>1, <1>6 DEF JobInv
<1> QED
  BY <1>5, <1>8, <1>9, <1>10

\* A refresh started by the schedule or a timer.
LEMMA OwnRefreshInv ==
  ASSUME IInv, loaded, refresh = "idle", NEW by \in {Schedule, Timer}, StartRefresh(by, owner),
         EveryTimerHasHandle', timers' \in Nat, pending' \in BOOLEAN,
         UNCHANGED << machine, shown, data, reading, last_update_success, pc, job,
                      read_only, loaded, orphan, calls >>
  PROVE  IInv'
<1> USE DEF IInv
<1>1. owner # Poller /\ owner \in Procs \cup {Nobody}
  BY DEF LockInv, TypeOK
<1>2. /\ owner' \in Procs \cup {Nobody} /\ refresh' \in Phases /\ refresh' # "idle"
      /\ cause' = by /\ debouncer' = "ready"
      /\ QueueInv(queue', pc, refresh')
      /\ refresh' \in Holding <=> owner' = Poller
      /\ \A t \in Tasks : owner' = t <=> owner = t
  BY <1>1, StartRefreshLock DEF LockInv
<1>3. by \notin Tasks
  BY TasksAssumption
<1>4. TypeOK'
  BY <1>2 DEF TypeOK, QueueInv
<1>5. LockInv' /\ RefreshInv' /\ JobInv'
  BY <1>2, <1>3 DEF LockInv, RefreshInv, JobInv
<1> QED
  BY <1>4, <1>5

\* The scheduled refresh starts a poll.
LEMMA ScheduledRefreshInv ==
  ASSUME IInv, ScheduledRefresh
  PROVE  IInv'
BY OwnRefreshInv DEF ScheduledRefresh, IInv, TypeOK, EveryTimerHasHandle, machineVars, dataVars,
   taskVars, timerVars, entryVars

\* The end of the debouncer's cooldown starts the poll that was held back.
LEMMA CooldownEndsInv ==
  ASSUME IInv, CooldownEnds
  PROVE  IInv'
<1> USE DEF IInv, machineVars, dataVars, lockVars, taskVars, timerVars, entryVars
<1>1. refresh = "idle" /\ loaded
  BY DEF CooldownEnds, RefreshInv
<1>2. CASE debouncer = "again"
  <2>1. /\ StartRefresh(Timer, owner)
        /\ UNCHANGED << machine, shown, data, reading, last_update_success, pc, job,
                        timers, pending, read_only, loaded, orphan, calls >>
    BY <1>2 DEF CooldownEnds
  <2>2. EveryTimerHasHandle' /\ timers' \in Nat /\ pending' \in BOOLEAN
    BY <2>1 DEF TypeOK, EveryTimerHasHandle
  <2> QED
    BY <1>1, <2>1, <2>2, OwnRefreshInv
<1>3. CASE debouncer # "again"
  <2>1. /\ debouncer' = "ready"
        /\ UNCHANGED << machine, shown, data, reading, last_update_success, owner, queue, pc, job,
                        refresh, cause, timers, pending, read_only, loaded, orphan, calls >>
    BY <1>3 DEF CooldownEnds
  <2> QED
    BY <2>1 DEF TypeOK, LockInv, RefreshInv, EveryTimerHasHandle, JobInv
<1> QED
  BY <1>2, <1>3

\* The delayed refresh fires and gives up its handle.
LEMMA DelayedRefreshInv ==
  ASSUME IInv, DelayedRefresh
  PROVE  IInv'
<1> USE DEF IInv, machineVars, dataVars, lockVars, taskVars, entryVars
<1>1. timers' = 0 /\ pending' = FALSE /\ EveryTimerHasHandle'
  BY DEF DelayedRefresh, EveryTimerHasHandle
<1>2. UNCHANGED << machine, shown, data, reading, last_update_success, pc, job,
                   read_only, loaded, orphan, calls >>
  BY DEF DelayedRefresh
<1>3. CASE RunsNow /\ StartRefresh(Timer, owner)
  <2>1. refresh = "idle" /\ loaded /\ timers' \in Nat /\ pending' \in BOOLEAN
    BY <1>1, <1>3 DEF RunsNow
  <2> QED
    BY <1>1, <1>2, <1>3, <2>1, OwnRefreshInv
<1>4. CASE AbsorbRequest /\ UNCHANGED lockVars
  <2>1. /\ debouncer' = IF loaded /\ debouncer = "cooling" THEN "again" ELSE debouncer
        /\ UNCHANGED << refresh, cause, owner, queue >>
    BY <1>4 DEF AbsorbRequest
  <2>2. TypeOK'
    BY <1>1, <1>2, <2>1 DEF TypeOK
  <2>3. LockInv' /\ RefreshInv' /\ JobInv'
    BY <1>2, <2>1 DEF LockInv, RefreshInv, JobInv
  <2> QED
    BY <1>1, <2>2, <2>3
<1> QED
  BY <1>3, <1>4 DEF DelayedRefresh

\* Unloading cancels the one timer and a scheduled poll, and leaves the jobs alone.
LEMMA ShutdownInv ==
  ASSUME IInv, async_shutdown
  PROVE  IInv'
<1> USE DEF IInv, machineVars, lockVars, taskVars
<1>1. timers' = 0 /\ pending' = FALSE /\ EveryTimerHasHandle'
  BY DEF async_shutdown, CancelPendingRefresh, EveryTimerHasHandle
<1>2. /\ loaded /\ loaded' = FALSE /\ debouncer' = "ready" /\ CancelScheduledRefresh
      /\ UNCHANGED << machine, shown, data, last_update_success, pc, job, read_only, calls >>
  BY DEF async_shutdown
<1>3. ~orphan /\ QueueInv(queue, pc, refresh)
  BY <1>2 DEF RefreshInv, LockInv
<1>4. JobInv'
  BY <1>2 DEF JobInv
<1>5. CASE cause = Schedule
  <2>1. /\ orphan' = (refresh \in {"state", "calls"})
        /\ owner' = IF owner = Poller THEN Nobody ELSE owner
        /\ IF refresh = "waiting" THEN LeavesQueue(Poller) ELSE queue' = queue
        /\ refresh' = "idle" /\ cause' = Nobody /\ reading' = data
    BY <1>2, <1>5 DEF CancelScheduledRefresh
  <2>2. Poller \notin Tasks /\ Nobody \notin Tasks /\ Nobody # Poller
    BY TasksAssumption DEF Nobody, Poller
  <2>3. QueueInv(queue', pc, "idle")
    BY <1>3, <2>1, PollerLeaves, PollerElsewhere
  <2>4. TypeOK'
    <3>1. queue' \in Seq(Procs)
      BY <2>3 DEF QueueInv
    <3>2. orphan' \in BOOLEAN
      BY <2>1
    <3> QED
      BY <1>1, <1>2, <2>1, <3>1, <3>2 DEF TypeOK
  <2>5. LockInv'
    BY <1>2, <2>1, <2>2, <2>3 DEF LockInv
  <2>6. RefreshInv'
    BY <1>2, <2>1, <2>2 DEF RefreshInv
  <2> QED
    BY <1>1, <1>4, <2>4, <2>5, <2>6
<1>6. CASE cause # Schedule
  <2>1. UNCHANGED << orphan, owner, queue, refresh, cause, reading >>
    BY <1>2, <1>6 DEF CancelScheduledRefresh
  <2> QED
    BY <1>1, <1>2, <1>3, <1>4, <2>1 DEF TypeOK, LockInv, RefreshInv
<1> QED
  BY <1>5, <1>6

\* The end of a cancelled poll's thread changes nothing else.
LEMMA OrphanEndsInv ==
  ASSUME IInv, OrphanEnds
  PROVE  IInv'
BY DEF OrphanEnds, IInv, TypeOK, LockInv, RefreshInv, EveryTimerHasHandle, JobInv, machineVars,
   dataVars, lockVars, taskVars, refreshVars, timerVars

\* The machine's panel catching up touches only what it shows.
LEMMA ReflectInv ==
  ASSUME IInv, NEW part \in {"state", "command", "setpoints"}, Reflect(part)
  PROVE  IInv'
<1> USE DEF IInv, dataVars, lockVars, taskVars, refreshVars, timerVars, entryVars
<1>1. Readable(machine) \in Readings
  BY ReadableType DEF TypeOK
<1>2. shown' \in Readings
  BY <1>1 DEF Reflect, TypeOK, Readings
<1> QED
  BY <1>2 DEF Reflect, TypeOK, LockInv, RefreshInv, EveryTimerHasHandle, JobInv

\* The direct read of a register takes no lock and sends no write.
LEMMA ReadRegisterInv ==
  ASSUME IInv, NEW t \in Tasks, ReadRegister(t) \/ ReadRegisterEnds(t)
  PROVE  IInv'
<1> USE DEF IInv
<1>1. /\ \/ pc[t] = "idle" /\ pc' = [pc EXCEPT ![t] = "direct"] /\ calls < MaxCalls /\ calls' = calls + 1
         \/ pc[t] = "direct" /\ pc' = [pc EXCEPT ![t] = "idle"] /\ calls' = calls
      /\ UNCHANGED << machine, shown, data, reading, last_update_success, owner, queue, job,
                      refresh, cause, debouncer, timers, pending, read_only, loaded, orphan >>
  BY DEF ReadRegister, ReadRegisterEnds, machineVars, dataVars, lockVars, refreshVars, timerVars,
     entryVars
<1>2. TypeOK'
  BY <1>1, MaxCallsAssumption DEF TypeOK
<1>3. QueueInv(queue', pc', refresh')
  BY <1>1, OthersWait DEF LockInv, TypeOK
<1>4. LockInv'
  BY <1>1, <1>3 DEF LockInv, TypeOK
<1>5. RefreshInv' /\ EveryTimerHasHandle'
  BY <1>1 DEF RefreshInv, EveryTimerHasHandle, TypeOK
<1>6. JobInv'
  BY <1>1 DEF JobInv, TypeOK
<1> QED
  BY <1>2, <1>4, <1>5, <1>6

\* A step that changes nothing preserves it.
LEMMA StutterInv ==
  ASSUME IInv, UNCHANGED vars
  PROVE  IInv'
BY DEF IInv, TypeOK, LockInv, QueueInv, RefreshInv, EveryTimerHasHandle, JobInv, vars, machineVars,
   dataVars, lockVars, taskVars, refreshVars, timerVars, entryVars

\* Every step, of any task, timer, poll or of the machine, preserves it.
THEOREM NextInv == IInv /\ [Next]_vars => IInv'
<1> SUFFICES ASSUME IInv, [Next]_vars PROVE IInv'
  OBVIOUS
<1>1. CASE \E t \in Tasks : MakeCall(t) \/ ReadRegister(t) \/ TaskStep(t)
  BY <1>1, MakeCallInv, ReadRegisterInv, AcquireForWriteInv, WriteInv, WriteRaisesInv,
     WriteRefreshesInv, WriteReturnsInv DEF TaskStep
<1>2. CASE RefreshStep
  BY <1>2, AcquireForPollInv, ReadInv, EndRefreshInv DEF RefreshStep
<1>3. CASE ScheduledRefresh \/ CooldownEnds \/ DelayedRefresh \/ async_shutdown \/ OrphanEnds
  BY <1>3, ScheduledRefreshInv, CooldownEndsInv, DelayedRefreshInv, ShutdownInv, OrphanEndsInv
<1>4. CASE \E part \in {"state", "command", "setpoints"} : Reflect(part)
  BY <1>4, ReflectInv
<1>5. CASE UNCHANGED vars
  BY <1>5, StutterInv
<1> QED
  BY <1>1, <1>2, <1>3, <1>4, <1>5 DEF Next

\* The inductive invariant holds throughout.
THEOREM Invariance == Spec => []IInv
BY InitInv, NextInv, PTL DEF Spec

-----------------------------------------------------------------------------
(* What follows. *)

\* Types: in particular no illegal state ever reaches register 7200 and no unknown
\* bit register 7202, whatever is called, in whatever order, and whatever fails.
THEOREM TypeCorrect == Spec => []TypeOK
<1>1. IInv => TypeOK
  BY DEF IInv
<1> QED
  BY <1>1, Invariance, PTL

\* The handle kept in _pending_refresh always cancels every timer there is.
THEOREM TimersHaveHandles == Spec => []EveryTimerHasHandle
<1>1. IInv => EveryTimerHasHandle
  BY DEF IInv
<1> QED
  BY <1>1, Invariance, PTL

\* A job that is not best effort and still has a write to send has not failed,
\* and what it wrote is in effect.
LEMMA RunningJob ==
  ASSUME IInv, NEW t \in Tasks, InJob(t)
  PROVE  /\ owner = t /\ job[t] \in Jobs /\ job[t].steps \in Seq(SentWrites)
         /\ Len(job[t].steps) \in Nat /\ job[t].done \in Nat
         /\ job[t].done + 1 \in 1..Len(job[t].steps)
         /\ ~job[t].best_effort => /\ SafeSequence(job[t].steps)
                                  /\ WrittenInEffect(job[t], machine)
<1>1. pc[t] = "writing" /\ job[t].done # Len(job[t].steps)
      /\ (job[t].failed => job[t].best_effort)
  BY DEF InJob, JobOver
<1>2. /\ job[t] \in Jobs /\ job[t].steps \in Seq(SentWrites) /\ job[t].done \in Nat
      /\ Len(job[t].steps) \in Nat /\ job[t].done + 1 \in 1..Len(job[t].steps)
  BY <1>1, LenProperties DEF IInv, TypeOK, JobInv, Jobs
<1> QED
  BY <1>1, <1>2 DEF IInv, LockInv, JobInv

\* The enable bits the next write needs are still set at the machine when it is
\* sent: no poll, call, failure or shutdown takes them away in between.
THEOREM EnablesAreHeld == Spec => []EnablesHeld
<1>1. IInv => EnablesHeld
  <2> SUFFICES ASSUME IInv, NEW t \in Tasks, InJob(t), ~job[t].best_effort, job[t].done > 0
               PROVE  EnablesNeeded(NextWrite(t)) \subseteq machine.enable
    BY DEF EnablesHeld
  <2> DEFINE steps == job[t].steps
             n == job[t].done
  <2>1. /\ n \in Nat /\ n > 0 /\ Len(steps) \in Nat /\ n + 1 \in 1..Len(steps)
        /\ SafeSequence(steps) /\ InEffect(machine, steps[1])
    BY RunningJob DEF WrittenInEffect
  <2>2. NextWrite(t) = steps[n + 1]
    BY DEF NextWrite
  <2> HIDE DEF steps, n
  <2>3. machine.enable = steps[1].val /\ EnablesNeeded(steps[n + 1]) \subseteq steps[1].val
    BY <2>1 DEF SafeSequence, InEffect
  <2> QED
    BY <2>2, <2>3
<1> QED
  BY <1>1, Invariance, PTL

\* A call that ends without an error, release apart, has every value it sent in
\* effect at the machine when it lets go of the lock.
THEOREM SuccessIsInEffect == Spec => []SuccessMeansInEffect
<1>1. IInv => SuccessMeansInEffect
  <2> SUFFICES ASSUME IInv, NEW t \in Tasks, pc[t] = "writing", JobOver(t),
                      ~job[t].failed, ~job[t].best_effort
               PROVE  \A i \in DOMAIN job[t].steps : InEffect(machine, job[t].steps[i])
    BY DEF SuccessMeansInEffect
  <2>1. job[t].steps \in Seq(SentWrites) /\ job[t].done = Len(job[t].steps)
    BY DEF JobOver, IInv, TypeOK, Jobs
  <2>2. WrittenInEffect(job[t], machine)
    BY DEF IInv, JobInv
  <2> QED
    BY <2>1, <2>2, LenProperties DEF WrittenInEffect
<1> QED
  BY <1>1, Invariance, PTL

\* Whoever is on the bus with the lock holds it.
LEMMA OwnerIsOnBus ==
  ASSUME IInv, NEW y \in WithLock
  PROVE  owner = y
<1>1. \/ y \in Tasks /\ InJob(y)
      \/ y = Poller /\ refresh \in {"state", "calls"}
  BY DEF WithLock
<1>2. CASE y \in Tasks /\ InJob(y)
  BY <1>2 DEF InJob, IInv, LockInv
<1>3. CASE y = Poller /\ refresh \in {"state", "calls"}
  BY <1>3 DEF IInv, LockInv
<1> QED
  BY <1>1, <1>2, <1>3

\* For any number of concurrent calls, read_register among them, and through an unload:
\* of two parties on the bus at once one reads without the lock, and the thread of a
\* cancelled poll is there only after unload and beside no other poll.
THEOREM OneMaster == Spec => []OneMasterButAside
<1>1. IInv => OneMasterButAside
  <2> SUFFICES ASSUME IInv PROVE OneMasterButAside
    OBVIOUS
  <2>1. Poller \notin Tasks
    BY TasksAssumption
  <2>2. \A p, q \in OnBus \ Aside : p = q
    <3>1. OnBus \ Aside \subseteq WithLock
      BY DEF OnBus
    <3> QED
      BY <3>1, OwnerIsOnBus
  <2>3. Poller \in Aside => orphan
    BY <2>1 DEF Aside
  <2>4. orphan => ~loaded /\ refresh = "idle"
    BY DEF IInv, RefreshInv
  <2>5. Poller \in WithLock => refresh \in {"state", "calls"}
    BY <2>1 DEF WithLock
  <2> QED
    BY <2>2, <2>3, <2>4, <2>5 DEF OneMasterButAside
<1> QED
  BY <1>1, Invariance, PTL

-----------------------------------------------------------------------------
(* The coordinator implements SerialBus: each of its steps is a step of the
   abstract bus or leaves it alone. *)

\* The abstract bus as seen from where the tasks and the poll are.
BusFacts ==
  /\ \A t \in Tasks : InJob(t) =>
       /\ BusUser = t
       /\ BusTodo = SubSeq(job[t].steps, job[t].done + 1, Len(job[t].steps))
  /\ refresh \in {"state", "calls"} => BusUser = Poller /\ BusTodo = << >>
  /\ (\A t \in Tasks : ~InJob(t)) /\ refresh \notin {"state", "calls"}
       => BusUser = Nobody /\ BusTodo = << >>

\* What the refinement uses of the inductive invariant follows from it.
LEMMA BusFactsHold == IInv => BusFacts
<1> SUFFICES ASSUME IInv PROVE BusFacts
  OBVIOUS
<1>1. Poller \notin Tasks /\ Nobody \notin Tasks /\ Nobody # Poller
  BY TasksAssumption DEF Nobody, Poller
<1>2. ASSUME NEW x \in WithLock PROVE WithLock = {x}
  BY OwnerIsOnBus
<1>3. ASSUME NEW x \in WithLock PROVE BusUser = x
  BY <1>2, <1>3 DEF BusUser
<1>4. ASSUME NEW t \in Tasks, InJob(t)
      PROVE  /\ BusUser = t
             /\ BusTodo = SubSeq(job[t].steps, job[t].done + 1, Len(job[t].steps))
  <2>1. t \in WithLock
    BY <1>4 DEF WithLock
  <2> QED
    BY <1>3, <2>1 DEF BusTodo
<1>5. ASSUME refresh \in {"state", "calls"} PROVE BusUser = Poller /\ BusTodo = << >>
  <2>1. Poller \in WithLock
    BY <1>5 DEF WithLock
  <2> QED
    BY <1>1, <1>3, <2>1 DEF BusTodo
<1>6. ASSUME \A t \in Tasks : ~InJob(t), refresh \notin {"state", "calls"}
      PROVE  BusUser = Nobody /\ BusTodo = << >>
  <2>1. WithLock = {}
    BY <1>6 DEF WithLock
  <2> QED
    BY <1>1, <2>1 DEF BusUser, BusTodo
<1> QED
  BY <1>4, <1>5, <1>6 DEF BusFacts

\* The first state is an idle bus.
LEMMA InitRefines == Init => Bus!BusInit
<1> SUFFICES ASSUME Init PROVE Bus!BusInit
  OBVIOUS
<1>1. IInv
  BY InitInv
<1>2. BusUser = Nobody /\ BusTodo = << >>
  BY <1>1, BusFactsHold DEF BusFacts, InJob, Init
<1>3. machine \in Machines
  BY <1>1 DEF IInv, TypeOK
<1>4. Aside = {} /\ loaded = TRUE
  BY DEF Aside, Init
<1> QED
  BY <1>2, <1>3, <1>4 DEF Bus!BusInit

-----------------------------------------------------------------------------
(* Every step is a step of the bus or leaves it alone. *)

BusStep == [Bus!BusNext]_(Bus!busVars)

\* A job with a write to send has the rest of its sequence as its plan.
LEMMA PlanOfJob ==
  ASSUME NEW s \in Seq(SentWrites), NEW n \in Nat, n + 1 \in 1..Len(s)
  PROVE  /\ SubSeq(s, n + 1, Len(s)) \in Seq(SentWrites)
         /\ SubSeq(s, n + 1, Len(s)) # << >>
         /\ Head(SubSeq(s, n + 1, Len(s))) = s[n + 1]
         /\ Tail(SubSeq(s, n + 1, Len(s))) = SubSeq(s, n + 2, Len(s))
<1> DEFINE m == Len(s)
           rest == SubSeq(s, n + 1, m)
           after == SubSeq(s, n + 2, m)
<1>1. m \in Nat /\ \A i \in 1..m : s[i] \in SentWrites
  BY LenProperties
<1>2. /\ rest \in Seq(SentWrites)
      /\ Len(rest) = m - n
      /\ \A i \in 1..(m - n) : rest[i] = s[n + i]
  BY <1>1, SubSeqProperties
<1>3. /\ after \in Seq(SentWrites)
      /\ Len(after) = m - n - 1
      /\ \A i \in 1..(m - n - 1) : after[i] = s[n + 1 + i]
  BY <1>1, SubSeqProperties
<1> HIDE DEF m, rest, after
<1>4. rest # << >> /\ m - n >= 1
  BY <1>1, <1>2, EmptySeq DEF m
<1>5. /\ Tail(rest) \in Seq(SentWrites)
      /\ Len(Tail(rest)) = m - n - 1
      /\ \A i \in 1..(m - n - 1) : Tail(rest)[i] = s[n + 1 + i]
  BY <1>1, <1>2, <1>4, HeadTailProperties
<1>6. Tail(rest) = after
  BY <1>3, <1>5, SeqEqual
<1>7. Head(rest) = s[n + 1]
  BY <1>1, <1>2, <1>4
<1> QED
  BY <1>2, <1>4, <1>6, <1>7 DEF rest, after, m

\* In every state that satisfies the invariant, primed or not, a job with a write to
\* send has one.
PlanInv ==
  \A t \in Tasks : InJob(t) => /\ job[t].steps \in Seq(SentWrites) /\ job[t].done \in Nat
                              /\ job[t].done + 1 \in 1..Len(job[t].steps)

\* Every plan the mapping shows is one the bus allows.
LEMMA PlansHold == IInv => PlanInv
BY RunningJob DEF IInv, PlanInv

\* The user of the bus and its plan stay.
LEMMA SameUser ==
  ASSUME IInv, IInv',
         \A t \in Tasks : (InJob(t)' <=> InJob(t)) /\ (InJob(t) => job'[t] = job[t]),
         refresh' \in {"state", "calls"} <=> refresh \in {"state", "calls"}
  PROVE  BusUser' = BusUser /\ BusTodo' = BusTodo
<1>1. BusFacts /\ BusFacts'
  BY BusFactsHold, PTL
<1>2. CASE \E t \in Tasks : InJob(t)
  <2>1. PICK t \in Tasks : InJob(t)
    BY <1>2
  <2>2. InJob(t)' /\ job'[t] = job[t]
    BY <2>1
  <2>3. BusUser = t /\ BusUser' = t
    BY <1>1, <2>1, <2>2 DEF BusFacts
  <2>4. BusTodo' = BusTodo
    <3>1. BusTodo = SubSeq(job[t].steps, job[t].done + 1, Len(job[t].steps))
      BY <1>1, <2>1 DEF BusFacts
    <3>2. BusTodo' = SubSeq(job'[t].steps, job'[t].done + 1, Len(job'[t].steps))
      BY <1>1, <2>2 DEF BusFacts
    <3> QED
      BY <2>2, <3>1, <3>2
  <2> QED
    BY <2>3, <2>4
<1>3. CASE refresh \in {"state", "calls"}
  BY <1>1, <1>3 DEF BusFacts
<1>4. CASE (\A t \in Tasks : ~InJob(t)) /\ refresh \notin {"state", "calls"}
  BY <1>1, <1>4 DEF BusFacts
<1> QED
  BY <1>2, <1>3, <1>4

\* Nothing the bus can see changes.
LEMMA Unseen ==
  ASSUME IInv, IInv', machine' = machine, Aside' = Aside, loaded' = loaded,
         \A t \in Tasks : (InJob(t)' <=> InJob(t)) /\ (InJob(t) => job'[t] = job[t]),
         refresh' \in {"state", "calls"} <=> refresh \in {"state", "calls"}
  PROVE  BusStep
BY SameUser DEF BusStep, Bus!busVars

\* Who reads aside is known from where the tasks are and from orphan.
LEMMA SameAside ==
  ASSUME \A t \in Tasks : pc'[t] = "direct" <=> pc[t] = "direct", orphan' = orphan
  PROVE  Aside' = Aside
BY DEF Aside

\* Nobody was on the bus: the step lets someone in, or nobody.
LEMMA Enters ==
  ASSUME IInv, IInv', machine' = machine, Aside' = Aside, loaded' = loaded,
         \A t \in Tasks : ~InJob(t), refresh \notin {"state", "calls"}
  PROVE  BusStep
<1>1. BusFacts /\ BusFacts'
  BY BusFactsHold, PTL
<1>2. BusUser = Nobody /\ BusTodo = << >>
  BY <1>1 DEF BusFacts
<1>3. CASE \E t \in Tasks : InJob(t)'
  <2>1. PICK t \in Tasks : InJob(t)'
    BY <1>3
  <2>2. /\ BusUser' = t
        /\ BusTodo' = SubSeq(job'[t].steps, job'[t].done + 1, Len(job'[t].steps))
    BY <1>1, <2>1 DEF BusFacts
  <2>3. /\ job'[t].steps \in Seq(SentWrites) /\ job'[t].done \in Nat
        /\ job'[t].done + 1 \in 1..Len(job'[t].steps)
    <3>1. PlanInv'
      BY PlansHold, PTL
    <3> QED
      BY <2>1, <3>1 DEF PlanInv
  <2>4. BusTodo' \in Seq(SentWrites) /\ BusTodo' # << >>
    BY <2>2, <2>3, PlanOfJob
  <2>5. t \notin Aside
    <3>1. pc'[t] # "direct" /\ t # Poller
      BY <2>1, TasksAssumption DEF InJob
    <3> QED
      BY <3>1 DEF Aside
  <2>6. Bus!TakeToWrite(t)
    BY <1>2, <2>2, <2>4, <2>5 DEF Bus!TakeToWrite, Bus!Plans
  <2> QED
    BY <2>1, <2>6 DEF BusStep, Bus!BusNext
<1>4. CASE refresh' \in {"state", "calls"}
  <2>1. Poller \notin Aside
    <3>1. ~orphan' /\ Poller \notin Tasks
      BY <1>4, TasksAssumption DEF IInv, RefreshInv
    <3> QED
      BY <3>1 DEF Aside
  <2>2. Bus!TakeToRead(Poller)
    BY <1>1, <1>2, <1>4, <2>1 DEF BusFacts, Bus!TakeToRead
  <2> QED
    BY <2>2 DEF BusStep, Bus!BusNext
<1>5. CASE (\A t \in Tasks : ~InJob(t)') /\ refresh' \notin {"state", "calls"}
  BY <1>1, <1>2, <1>5 DEF BusFacts, BusStep, Bus!busVars
<1> QED
  BY <1>3, <1>4, <1>5

-----------------------------------------------------------------------------
(* The actions. *)

\* While the lock is free nobody is on the bus.
LEMMA FreeBus ==
  ASSUME IInv, owner = Nobody
  PROVE  (\A t \in Tasks : ~InJob(t)) /\ refresh \notin {"state", "calls"}
<1>1. Poller # Nobody /\ Nobody \notin Tasks
  BY TasksAssumption DEF Nobody, Poller
<1> QED
  BY <1>1 DEF IInv, LockInv, InJob

\* While a task without a write to send holds it, neither.
LEMMA IdleBus ==
  ASSUME IInv, NEW t \in Tasks, pc[t] = "writing", ~InJob(t)
  PROVE  (\A u \in Tasks : ~InJob(u)) /\ refresh \notin {"state", "calls"}
<1>1. owner = t /\ t # Poller
  BY TasksAssumption DEF IInv, LockInv
<1> QED
  BY <1>1 DEF IInv, LockInv, InJob

\* A call takes the free lock or queues up unseen.
LEMMA CallWriteStep ==
  ASSUME IInv, IInv', NEW t \in Tasks, NEW op, NEW o, CallWrite(t, op, o)
  PROVE  BusStep
<1>1. machine' = machine /\ refresh' = refresh /\ loaded' = loaded /\ pc[t] = "idle"
  BY DEF CallWrite, machineVars, refreshVars, entryVars
<1>4. Aside' = Aside
  <2>1. /\ orphan' = orphan
        /\ \/ pc' = pc
           \/ \E where \in {"writing", "waiting"} : pc' = [pc EXCEPT ![t] = where]
    BY DEF CallWrite, entryVars
  <2>2. \A u \in Tasks : pc'[u] = "direct" <=> pc[u] = "direct"
    BY <1>1, <2>1 DEF IInv, TypeOK
  <2> QED
    BY <2>1, <2>2, SameAside
<1>2. CASE Free
  BY <1>1, <1>2, <1>4, FreeBus, Enters DEF Free
<1>3. CASE ~Free
  <2>1. pc'[t] # "writing"
    BY <1>1, <1>3 DEF CallWrite, IInv, TypeOK
  <2>2. \A u \in Tasks : u # t => pc'[u] = pc[u] /\ job'[u] = job[u]
    BY DEF CallWrite, IInv, TypeOK
  <2>3. \A u \in Tasks : (InJob(u)' <=> InJob(u)) /\ (InJob(u) => job'[u] = job[u])
    BY <1>1, <2>1, <2>2 DEF InJob, JobOver
  <2> QED
    BY <1>1, <1>4, <2>3, Unseen
<1> QED
  BY <1>2, <1>3

\* Any call of an entity or service is a step of the bus or a stutter.
LEMMA MakeCallStep ==
  ASSUME IInv, IInv', NEW t \in Tasks, MakeCall(t)
  PROVE  BusStep
BY CallWriteStep DEF MakeCall, async_set_state, TurnAmbientSwitch, TurnDhwSwitch,
   async_set_conditioning, async_set_dhw_enabled, async_set_setpoint, async_start_legionella,
   async_release

\* One write of a job: sent, and applied or not; the plan gets shorter or is dropped.
LEMMA OneWriteStep ==
  ASSUME IInv, IInv', NEW t \in Tasks, NEW raised \in BOOLEAN, InJob(t),
         OneWriteDone(t, raised),
         machine' \in {machine, AfterWrite(machine, NextWrite(t))}
  PROVE  BusStep
<1> DEFINE s == job[t].steps
           n == job[t].done
<1>1. /\ s \in Seq(SentWrites) /\ n \in Nat /\ n + 1 \in 1..Len(s)
  BY PlansHold DEF PlanInv
<1>2. BusFacts /\ BusFacts'
  BY BusFactsHold, PTL
<1>3. BusUser = t /\ BusTodo = SubSeq(s, n + 1, Len(s))
  BY <1>2 DEF BusFacts
<1>4. job'[t].steps = s /\ job'[t].done = n + 1
  BY DEF OneWriteDone, IInv, TypeOK, Jobs
<1>5. pc' = pc /\ refresh' = refresh /\ owner' = owner /\ pc[t] = "writing"
  BY DEF OneWriteDone, InJob, refreshVars, lockVars
<1>10. Aside' = Aside /\ loaded' = loaded
  BY <1>5, SameAside DEF OneWriteDone, entryVars
<1>6. NextWrite(t) = s[n + 1]
  BY DEF NextWrite
<1>7. BusTodo # << >> /\ Head(BusTodo) = NextWrite(t) /\ Tail(BusTodo) = SubSeq(s, n + 2, Len(s))
  <2> HIDE DEF s, n
  <2> QED
    BY <1>1, <1>3, <1>6, PlanOfJob
<1>8. CASE InJob(t)'
  <2>1. BusUser' = t /\ BusTodo' = SubSeq(s, n + 2, Len(s))
    <3>1. BusUser' = t
      BY <1>2, <1>8 DEF BusFacts
    <3>2. BusTodo' = SubSeq(job'[t].steps, job'[t].done + 1, Len(job'[t].steps))
      BY <1>2, <1>8 DEF BusFacts
    <3>3. (n + 1) + 1 = n + 2
      BY <1>1
    <3> HIDE DEF s, n
    <3> QED
      BY <1>4, <3>1, <3>2, <3>3
  <2>2. PlanInv'
    BY PlansHold, PTL
  <2>3. BusTodo' # << >>
    <3>1. /\ job'[t].steps \in Seq(SentWrites) /\ job'[t].done \in Nat
          /\ job'[t].done + 1 \in 1..Len(job'[t].steps)
      BY <1>8, <2>2 DEF PlanInv
    <3> QED
      BY <1>1, <1>4, <2>1, <3>1, PlanOfJob
  <2>4. Bus!Send
    BY <1>3, <1>7, <1>10, <2>1, <2>3 DEF Bus!Send
  <2> QED
    BY <2>4 DEF BusStep, Bus!BusNext
<1>9. CASE ~InJob(t)'
  <2>1. (\A u \in Tasks : ~InJob(u)') /\ refresh' \notin {"state", "calls"}
    <3>1. \A u \in Tasks : u # t => pc'[u] # "writing"
      BY <1>5 DEF IInv, LockInv
    <3>2. refresh \notin {"state", "calls"}
      BY <1>5, TasksAssumption DEF IInv, LockInv
    <3> QED
      BY <1>5, <1>9, <3>1, <3>2 DEF InJob
  <2>2. BusUser' = Nobody /\ BusTodo' = << >>
    BY <1>2, <2>1 DEF BusFacts
  <2>3. Bus!Send
    BY <1>3, <1>7, <1>10, <2>2 DEF Bus!Send
  <2> QED
    BY <2>3 DEF BusStep, Bus!BusNext
<1> QED
  BY <1>8, <1>9

\* The steps of a task's job.
LEMMA TaskStepStep ==
  ASSUME IInv, IInv', NEW t \in Tasks, TaskStep(t)
  PROVE  BusStep
<1>1. ASSUME machine' = machine, loaded' = loaded, orphan' = orphan,
             NEW where \in Places \ {"direct"}, pc' = [pc EXCEPT ![t] = where], pc[t] # "direct",
             \A u \in Tasks : ~InJob(u), refresh \notin {"state", "calls"}
      PROVE  BusStep
  <2>1. \A u \in Tasks : pc'[u] = "direct" <=> pc[u] = "direct"
    BY <1>1 DEF IInv, TypeOK
  <2>2. Aside' = Aside
    BY <1>1, <2>1, SameAside
  <2> QED
    BY <1>1, <2>2, Enters
<1>2. CASE AcquireForWrite(t)
  <2>1. /\ owner = Nobody /\ machine' = machine /\ loaded' = loaded /\ orphan' = orphan
        /\ pc' = [pc EXCEPT ![t] = "writing"]
    BY <1>2 DEF AcquireForWrite, machineVars, entryVars
  <2>2. pc[t] = "waiting"
    BY <1>2, QueueTail DEF AcquireForWrite, IInv, LockInv, QueueInv
  <2> QED
    BY <1>1, <2>1, <2>2, FreeBus
<1>3. CASE WriteAcknowledged(t)
  BY <1>3, OneWriteStep DEF WriteAcknowledged
<1>4. CASE AnswerLost(t)
  BY <1>4, OneWriteStep DEF AnswerLost
<1>5. CASE WriteFails(t)
  BY <1>5, OneWriteStep DEF WriteFails
<1>6. CASE WriteRaises(t) \/ WriteRefreshes(t) \/ WriteReturns(t)
  <2>1. /\ pc[t] = "writing" /\ ~InJob(t)
        /\ machine' = machine /\ loaded' = loaded /\ orphan' = orphan
        /\ \E where \in {"idle", "refreshing"} : pc' = [pc EXCEPT ![t] = where]
    BY <1>6 DEF WriteRaises, WriteRefreshes, WriteReturns, Returns, InJob, machineVars, entryVars
  <2> QED
    BY <1>1, <2>1, IdleBus
<1>7. CASE ReadRegisterEnds(t)
  <2>1. /\ pc[t] = "direct" /\ pc' = [pc EXCEPT ![t] = "idle"]
        /\ UNCHANGED << machine, job, refresh, loaded, orphan >>
    BY <1>7 DEF ReadRegisterEnds, machineVars, refreshVars, entryVars
  <2>2. BusUser' = BusUser /\ BusTodo' = BusTodo
    <3>1. \A u \in Tasks : (InJob(u)' <=> InJob(u)) /\ (InJob(u) => job'[u] = job[u])
      BY <2>1 DEF InJob, JobOver, IInv, TypeOK
    <3> QED
      BY <2>1, <3>1, SameUser
  <2>3. t \in Aside /\ Aside' = Aside \ {t}
    <3>1. t # Poller
      BY TasksAssumption
    <3>2. \A u \in Tasks : pc'[u] = "direct" <=> pc[u] = "direct" /\ u # t
      BY <2>1 DEF IInv, TypeOK
    <3> QED
      BY <2>1, <3>1, <3>2 DEF Aside
  <2>4. Bus!LeaveAside(t)
    BY <2>1, <2>2, <2>3 DEF Bus!LeaveAside
  <2> QED
    BY <2>4 DEF BusStep, Bus!BusNext
<1> QED
  BY <1>2, <1>3, <1>4, <1>5, <1>6, <1>7 DEF TaskStep

\* A direct read begins beside whoever is on the bus.
LEMMA ReadRegisterStep ==
  ASSUME IInv, IInv', NEW t \in Tasks, ReadRegister(t)
  PROVE  BusStep
<1>1. /\ loaded /\ pc[t] = "idle" /\ pc' = [pc EXCEPT ![t] = "direct"]
      /\ UNCHANGED << machine, job, refresh, loaded, orphan >>
  BY DEF ReadRegister, machineVars, refreshVars, entryVars
<1>2. \A u \in Tasks : (InJob(u)' <=> InJob(u)) /\ (InJob(u) => job'[u] = job[u])
  BY <1>1 DEF InJob, JobOver, IInv, TypeOK
<1>3. BusUser' = BusUser /\ BusTodo' = BusTodo
  BY <1>1, <1>2, SameUser
<1>4. Aside' = Aside \cup {t}
  <2>1. \A u \in Tasks : pc'[u] = "direct" <=> pc[u] = "direct" \/ u = t
    BY <1>1 DEF IInv, TypeOK
  <2> QED
    BY <1>1, <2>1 DEF Aside
<1>5. t # BusUser
  <2>1. t # Poller /\ t # Nobody
    BY TasksAssumption DEF Poller, Nobody
  <2>2. ~InJob(t)
    BY <1>1 DEF InJob
  <2>3. BusUser = t => \E u \in Tasks : InJob(u)
    BY <2>1, BusFactsHold DEF BusFacts
  <2> QED
    BY <2>2, <2>3, BusFactsHold DEF BusFacts
<1>6. Bus!ReadAside(t)
  BY <1>1, <1>3, <1>4, <1>5 DEF Bus!ReadAside
<1> QED
  BY <1>6 DEF BusStep, Bus!BusNext

\* The steps of the refresh.
LEMMA RefreshStepStep ==
  ASSUME IInv, IInv', RefreshStep
  PROVE  BusStep
<1>5. Aside' = Aside /\ loaded' = loaded
  <2>1. \A t \in Tasks : pc'[t] = "direct" <=> pc[t] = "direct"
    <3>1. \/ pc' = pc
          \/ cause \in Tasks /\ pc' = [pc EXCEPT ![cause] = "idle"]
      BY DEF RefreshStep, AcquireForPoll, ReadStateBlock, ReadCallsBlock, ReadFails, EndRefresh,
         taskVars
    <3>2. cause \in Tasks => pc[cause] = "refreshing"
      BY DEF IInv, RefreshInv
    <3> QED
      BY <3>1, <3>2 DEF IInv, TypeOK
  <2>2. orphan' = orphan /\ loaded' = loaded
    BY DEF RefreshStep, AcquireForPoll, ReadStateBlock, ReadCallsBlock, ReadFails, EndRefresh,
       entryVars
  <2> QED
    BY <2>1, <2>2, SameAside
<1>1. CASE AcquireForPoll
  BY <1>1, <1>5, FreeBus, Enters DEF AcquireForPoll, machineVars
<1>2. CASE ReadStateBlock
  <2>1. /\ machine' = machine /\ pc' = pc /\ job' = job
        /\ refresh = "state" /\ refresh' = "calls"
    BY <1>2 DEF ReadStateBlock, machineVars, taskVars
  <2>2. \A t \in Tasks : (InJob(t)' <=> InJob(t)) /\ (InJob(t) => job'[t] = job[t])
    BY <2>1 DEF InJob, JobOver
  <2> QED
    BY <1>5, <2>1, <2>2, Unseen
<1>3. CASE ReadCallsBlock \/ ReadFails
  <2>1. /\ refresh \in {"state", "calls"} /\ refresh' \in {"read", "failed"}
        /\ machine' = machine /\ pc' = pc /\ owner' = owner
    BY <1>3 DEF ReadCallsBlock, ReadFails, machineVars, taskVars, lockVars
  <2>2. BusFacts /\ BusFacts'
    BY BusFactsHold, PTL
  <2>3. BusUser = Poller /\ BusTodo = << >>
    BY <2>1, <2>2 DEF BusFacts
  <2>4. owner = Poller /\ Poller \notin Tasks
    BY <2>1, TasksAssumption DEF IInv, LockInv
  <2>5. \A t \in Tasks : ~InJob(t)'
    BY <2>1, <2>4 DEF InJob, IInv, LockInv
  <2>6. BusUser' = Nobody /\ BusTodo' = << >>
    BY <2>1, <2>2, <2>5 DEF BusFacts
  <2>7. Bus!FinishReading
    BY <1>5, <2>1, <2>3, <2>6 DEF Bus!FinishReading
  <2> QED
    BY <2>7 DEF BusStep, Bus!BusNext
<1>4. CASE EndRefresh
  <2>1. refresh \in {"read", "failed"} /\ machine' = machine
    BY <1>4 DEF EndRefresh, machineVars
  <2>2. owner = Poller /\ Poller \notin Tasks
    BY <2>1, TasksAssumption DEF IInv, LockInv
  <2>3. \A t \in Tasks : ~InJob(t)
    BY <2>2 DEF InJob, IInv, LockInv
  <2> QED
    BY <1>5, <2>1, <2>3, Enters
<1> QED
  BY <1>1, <1>2, <1>3, <1>4 DEF RefreshStep

\* A refresh that is asked for takes the free lock, or changes nothing on the bus.
LEMMA RefreshAskedStep ==
  ASSUME IInv, IInv', UNCHANGED << machine, pc, job, loaded, orphan >>,
         owner = Nobody \/ refresh' = refresh \/ (refresh = "idle" /\ refresh' = "waiting")
  PROVE  BusStep
<1>3. Aside' = Aside
  BY DEF Aside
<1>1. CASE owner = Nobody
  BY <1>1, <1>3, FreeBus, Enters
<1>2. CASE owner # Nobody
  <2>1. refresh' \in {"state", "calls"} <=> refresh \in {"state", "calls"}
    BY <1>2
  <2>2. \A t \in Tasks : (InJob(t)' <=> InJob(t)) /\ (InJob(t) => job'[t] = job[t])
    BY DEF InJob, JobOver
  <2> QED
    BY <1>3, <2>1, <2>2, Unseen
<1> QED
  BY <1>1, <1>2

\* Unloading closes the bus, and a poll under way on behalf of the entry is left aside.
LEMMA ShutdownStep ==
  ASSUME IInv, IInv', async_shutdown
  PROVE  BusStep
<1>1. /\ loaded /\ loaded' = FALSE /\ CancelScheduledRefresh
      /\ UNCHANGED << machine, pc, job >>
  BY DEF async_shutdown, machineVars, taskVars
<1>2. loaded = TRUE /\ ~orphan
  BY <1>1 DEF IInv, TypeOK, RefreshInv
<1>3. \A t \in Tasks : (InJob(t)' <=> InJob(t)) /\ (InJob(t) => job'[t] = job[t])
  BY <1>1 DEF InJob, JobOver
<1>4. CASE cause = Schedule /\ refresh \in {"state", "calls"}
  <2>1. orphan' = TRUE /\ refresh' = "idle"
    BY <1>1, <1>4 DEF CancelScheduledRefresh
  <2>2. BusUser = Poller /\ BusTodo = << >>
    BY <1>4, BusFactsHold DEF BusFacts
  <2>3. \A t \in Tasks : ~InJob(t)
    <3>1. owner = Poller /\ Poller \notin Tasks
      BY <1>4, TasksAssumption DEF IInv, LockInv
    <3> QED
      BY <3>1 DEF InJob, IInv, LockInv
  <2>4. BusUser' = Nobody /\ BusTodo' = << >>
    <3>1. BusFacts'
      BY BusFactsHold, PTL
    <3> QED
      BY <1>3, <2>1, <2>3, <3>1 DEF BusFacts
  <2>5. Aside' = Aside \cup {Poller}
    BY <1>1, <1>2, <2>1 DEF Aside
  <2>6. Bus!Close
    BY <1>1, <1>2, <2>2, <2>4, <2>5 DEF Bus!Close
  <2> QED
    BY <2>6 DEF BusStep, Bus!BusNext
<1>5. CASE ~(cause = Schedule /\ refresh \in {"state", "calls"})
  <2>1. ~orphan' /\ (refresh' \in {"state", "calls"} <=> refresh \in {"state", "calls"})
    BY <1>1, <1>2, <1>5 DEF CancelScheduledRefresh
  <2>2. BusUser' = BusUser /\ BusTodo' = BusTodo
    BY <1>3, <2>1, SameUser
  <2>3. Aside' = Aside
    BY <1>1, <1>2, <2>1 DEF Aside
  <2>4. Bus!Close
    BY <1>1, <1>2, <2>2, <2>3 DEF Bus!Close
  <2> QED
    BY <2>4 DEF BusStep, Bus!BusNext
<1> QED
  BY <1>4, <1>5

\* The thread of a cancelled poll leaves the bus.
LEMMA OrphanEndsStep ==
  ASSUME IInv, IInv', OrphanEnds
  PROVE  BusStep
<1>1. orphan /\ orphan' = FALSE /\ UNCHANGED << machine, pc, job, refresh, loaded >>
  BY DEF OrphanEnds, machineVars, taskVars, refreshVars
<1>2. BusUser' = BusUser /\ BusTodo' = BusTodo
  <2>1. \A t \in Tasks : (InJob(t)' <=> InJob(t)) /\ (InJob(t) => job'[t] = job[t])
    BY <1>1 DEF InJob, JobOver
  <2> QED
    BY <1>1, <2>1, SameUser
<1>3. Poller \in Aside /\ Aside' = Aside \ {Poller}
  <2>1. Poller \notin Tasks
    BY TasksAssumption
  <2> QED
    BY <1>1, <2>1 DEF Aside
<1>4. Bus!LeaveAside(Poller)
  BY <1>1, <1>2, <1>3 DEF Bus!LeaveAside
<1> QED
  BY <1>4 DEF BusStep, Bus!BusNext

\* Every step of the coordinator is a step of the bus or a stutter.
LEMMA NextRefines ==
  ASSUME IInv, IInv', [Next]_vars
  PROVE  BusStep
<1>1. CASE \E t \in Tasks : MakeCall(t) \/ ReadRegister(t) \/ TaskStep(t)
  BY <1>1, MakeCallStep, ReadRegisterStep, TaskStepStep
<1>2. CASE ScheduledRefresh \/ CooldownEnds \/ DelayedRefresh
  <2>1. UNCHANGED << machine, pc, job, loaded, orphan >>
    BY <1>2 DEF ScheduledRefresh, CooldownEnds, DelayedRefresh, machineVars, taskVars, entryVars
  <2>2. owner = Nobody \/ refresh' = refresh \/ (refresh = "idle" /\ refresh' = "waiting")
    BY <1>2 DEF ScheduledRefresh, CooldownEnds, DelayedRefresh, StartRefresh, RunsNow, AbsorbRequest,
       IInv, RefreshInv
  <2> QED
    BY <2>1, <2>2, RefreshAskedStep
<1>3. CASE \/ \E part \in {"state", "command", "setpoints"} : Reflect(part)
           \/ UNCHANGED vars
  <2>1. UNCHANGED << machine, pc, job, refresh, loaded, orphan >>
    BY <1>3 DEF Reflect, vars, machineVars, taskVars, refreshVars, entryVars
  <2> QED
    BY <2>1, RefreshAskedStep
<1> QED
  BY <1>1, <1>2, <1>3, RefreshStepStep, ShutdownStep, OrphanEndsStep DEF Next

\* The coordinator implements the serial bus: whatever is called, read_register among it,
\* and whenever the entry is unloaded, the writes of each operation reach the bus in
\* order, at most once, and with no other write or poll under the lock in between.
THEOREM CoordinatorImplementsSerialBus == Spec => ImplementsSerialBus
<1>1. Init => Bus!BusInit
  BY InitRefines
<1>2. IInv /\ IInv' /\ [Next]_vars => [Bus!BusNext]_(Bus!busVars)
  BY NextRefines DEF BusStep
<1> QED
  BY <1>1, <1>2, Invariance, PTL DEF Spec, ImplementsSerialBus, Bus!BusSpec
=============================================================================
