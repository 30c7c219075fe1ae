-------------------------- MODULE CoordinatorProps --------------------------
(***************************************************************************)
(* What the coordinator promises, as formulas over Coordinator's state.    *)
(***************************************************************************)
EXTENDS Coordinator

Jobs == [op : OpNames \cup {"none"}, best_effort : BOOLEAN, steps : Seq(SentWrites),
         done : Nat, failed : BOOLEAN]

Readings == [state : VALID_STATES, command : SUBSET CallBits,
             setpoints : [MachineSetpoints -> Nat]]

\* Where a task and the refresh can be.
Places == {"idle", "waiting", "writing", "refreshing", "direct"}
Holding == {"state", "calls", "read", "failed"}
Phases == {"idle", "waiting"} \cup Holding

\* Types.  They carry two promises of safe_write.py: register 7200 never holds a
\* state the controller refuses (validate_state), and 7202 never holds a bit
\* other than the two calls and anti-legionella, in particular not the forced
\* purge (safe_write.py:55-76).
TypeOK ==
  /\ machine \in Machines /\ machine.command \subseteq CallBits
  /\ shown \in Readings /\ data \in Readings /\ reading \in Readings
  /\ last_update_success \in BOOLEAN
  /\ read_only \in BOOLEAN /\ loaded \in BOOLEAN /\ orphan \in BOOLEAN
  /\ owner \in Procs \cup {Nobody}
  /\ queue \in Seq(Procs)
  /\ pc \in [Tasks -> Places]
  /\ job \in [Tasks -> Jobs]
  /\ refresh \in Phases
  /\ cause \in Tasks \cup {Schedule, Timer, Nobody}
  /\ debouncer \in {"ready", "cooling", "again"}
  /\ timers \in Nat /\ pending \in BOOLEAN
  /\ calls \in 0..MaxCalls

-----------------------------------------------------------------------------
(* One master on the bus. *)

\* Who has a transaction, or a sequence of them, under way: with the lock, and beside it.
WithLock == {t \in Tasks : InJob(t)} \cup (IF refresh \in {"state", "calls"} THEN {Poller} ELSE {})
Aside == {t \in Tasks : pc[t] = "direct"} \cup (IF orphan THEN {Poller} ELSE {})
OnBus == WithLock \cup Aside

\* "One queue, one master, no interleaving with the poll cycle" (coordinator.py:122-123):
\* never are two parties of this integration on the bus at once.
SingleMaster == \A p, q \in OnBus : p = q

\* What of it holds of every operation: two parties are on the bus at once only if one of
\* them reads without the lock, which read_register does (services.py:110), and the
\* thread of a poll cancelled at unload; that one is left behind by no loaded entry and
\* never beside another poll.
OneMasterButAside ==
  /\ \A p, q \in OnBus \ Aside : p = q
  /\ Poller \in Aside => ~loaded /\ Poller \notin WithLock

\* The same, and more, as an abstract specification: who is on the bus with the lock
\* sends the writes of one operation in order with no other write in between.
BusUser == IF WithLock = {} THEN Nobody ELSE CHOOSE p \in WithLock : TRUE
BusTodo == IF BusUser \in Tasks
             THEN SubSeq(job[BusUser].steps, job[BusUser].done + 1, Len(job[BusUser].steps))
             ELSE << >>

Bus == INSTANCE SerialBus WITH Writers <- Tasks, Readers <- {Poller}, Writes <- SentWrites,
                               Effect <- AfterWrite, user <- BusUser, todo <- BusTodo,
                               regs <- machine, aside <- Aside, open <- loaded

\* The coordinator implements the serial bus.
ImplementsSerialBus == Bus!BusSpec

-----------------------------------------------------------------------------
(* Writes take effect. *)

\* The enable bit each written value needs at the machine to have an effect
\* (docs/registers.md, "Write registers").
CallEnables == {<< "AMBIENT", "AMBIENT_CALL" >>, << "DHW", "DHW_CALL" >>,
                << "LEGIONELLA", "LEGIONELLA" >>}

EnablesNeeded(w) ==
  {enable \in ENABLE_BITS :
     \/ w.reg = R_STATE /\ enable = "STATE"
     \/ w.reg \in SETPOINTS /\ enable = "SETPOINT"
     \/ w.reg = R_COMMAND /\ \E bit \in w.val : << bit, enable >> \in CallEnables}

\* "Nothing is written without its enable bit" (docs/registers.md:104): while an
\* operation other than release is between two of its writes, the machine still
\* has the enable bits the next write needs, whatever else is going on.
EnablesHeld ==
  \A t \in Tasks :
    InJob(t) /\ ~job[t].best_effort /\ job[t].done > 0
      => EnablesNeeded(NextWrite(t)) \subseteq machine.enable

\* Does the machine hold the value this write sent?
InEffect(m, w) ==
  /\ w.reg = R_ENABLE => m.enable = w.val
  /\ w.reg = R_COMMAND => m.command = w.val
  /\ w.reg = R_STATE => m.state = w.val
  /\ w.reg \in MachineSetpoints => m.setpoints[w.reg] = w.val

\* An operation whose job ended without an error left every register it wrote at
\* the value it sent, although polls, other calls and failures were interleaved.
SuccessMeansInEffect ==
  \A t \in Tasks :
    pc[t] = "writing" /\ JobOver(t) /\ ~job[t].failed /\ ~job[t].best_effort
      => \A i \in DOMAIN job[t].steps : InEffect(machine, job[t].steps[i])

\* The same of release (safe_write.py:184, "clear 7202, 7200 and 7201").
ReleaseClears ==
  \A t \in Tasks :
    pc[t] = "writing" /\ JobOver(t) /\ ~job[t].failed /\ job[t].op = "release"
      => machine.command = {} /\ machine.state = 0 /\ machine.enable = {}

-----------------------------------------------------------------------------
(* The two halves and the two calls. *)

\* A write by a task's job; the only steps that change the machine.
Writing(t, op) == owner = t /\ job[t].op = op

\* "The climate and water_heater entities each own one half of the packed state
\* register and preserve the other" (README.md:135).  It is claimed of a user who waits
\* for what the entities show; the state is composed from the last reading, so one who
\* does not wait can lose the other half.
HalvesPreserved ==
  [][\A t \in Tasks :
       /\ Writing(t, "set_conditioning")
            => decompose(machine'.state).dhw = decompose(machine.state).dhw
       /\ Writing(t, "set_dhw_enabled")
            => decompose(machine'.state).conditioning = decompose(machine.state).conditioning
    ]_machine

\* "Each switch reads the other's current value and rewrites both" (switch.py:11):
\* turning one call on or off leaves the other call bit as the machine has it.  It
\* holds, too, of a user who waits.
CallsPreserved ==
  [][\A t \in Tasks :
       /\ Writing(t, "ambient_switch") => ("DHW" \in machine'.command <=> "DHW" \in machine.command)
       /\ Writing(t, "dhw_switch") => ("AMBIENT" \in machine'.command <=> "AMBIENT" \in machine.command)
    ]_machine

\* "The command bit must stay at 1 for the whole cycle" (safe_write.py:176): once
\* set, only release takes the anti-legionella bit away.
LegionellaHeld ==
  [][\A t \in Tasks :
       "LEGIONELLA" \in machine.command /\ "LEGIONELLA" \notin machine'.command
         => ~(owner = t /\ job[t].op # "release")]_machine

-----------------------------------------------------------------------------
(* Timers. *)

\* The coordinator can always cancel every delayed refresh it armed: re-arming
\* and firing never leave a timer without a handle (coordinator.py:113-116).
EveryTimerHasHandle == timers = IF pending THEN 1 ELSE 0

-----------------------------------------------------------------------------
(* Liveness.  The event loop and the executor run what is ready, asyncio timers
   fire, the machine shows what it accepted, and the bus does not fail for ever:
   a poll that is tried again and again is answered some time. *)

Fairness ==
  /\ \A t \in Tasks : WF_vars(TaskStep(t))
  /\ WF_vars(RefreshStep) /\ WF_vars(OrphanEnds)
  /\ WF_vars(ScheduledRefresh) /\ WF_vars(CooldownEnds) /\ WF_vars(DelayedRefresh)
  /\ \A part \in {"state", "command", "setpoints"} : WF_vars(Reflect(part))

BusRecovers == SF_vars(ReadStateBlock) /\ SF_vars(ReadCallsBlock)

FairSpec == Spec /\ Fairness /\ BusRecovers

\* No call waits for ever for the lock or for its refresh, whatever fails, polls
\* or is unloaded meanwhile: every caller is free again, time after time.
EveryCallReturns == \A t \in Tasks : []<>(pc[t] = "idle")

\* What the entities show catches up with the machine, although refreshes are
\* deferred, dropped and failed and readings can be torn between two blocks.
DataCatchesUp == <>[]loaded => <>[](data = Readable(machine))

AtRest ==
  /\ \A t \in Tasks : pc[t] = "idle"
  /\ owner = Nobody /\ queue = << >>
  /\ refresh = "idle" /\ timers = 0 /\ ~orphan

\* After shutdown everything under way winds down and nothing starts again.
ComesToRest == <>[]~loaded => <>[]AtRest
=============================================================================
