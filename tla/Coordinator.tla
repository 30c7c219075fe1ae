----------------------------- MODULE Coordinator ----------------------------
(***************************************************************************)
(* The coordinator (coordinator.py): the lock that serialises writes and   *)
(* polls on the bus, the calls that entities and services make, the        *)
(* debounced refresh after a write, the delayed confirming refresh, and    *)
(* shutdown.  The machine's register file is HeatPump; the refresh         *)
(* scheduling of DataUpdateCoordinator is modelled from how the            *)
(* coordinator uses it.                                                    *)
(*                                                                         *)
(* A step is what runs between two suspension points of the event loop, or *)
(* one bus transaction of an executor thread.                              *)
(***************************************************************************)
EXTENDS HeatPump

CONSTANTS
  Tasks,          \* calls that can be in flight at once
  Ops,            \* the operations each caller uses, by name
  StateInputs,    \* arguments of the set_mode service and the select entity
  SetpointInputs, \* <<address, raw>> arguments of the setpoint writes
  InitMachines,   \* the machines the coordinator may find
  MaxCalls        \* bound: calls made in one behaviour

OpNames == {"set_state", "ambient_switch", "dhw_switch", "set_conditioning",
            "set_dhw_enabled", "set_setpoint", "start_legionella", "release",
            "read_register"}

\* Names used next to tasks for the holder of the lock and the cause of a refresh.
Poller == "poller"
Nobody == "nobody"
Schedule == "schedule"
Timer == "timer"

ASSUME OpsAssumption == Ops \in [Tasks -> SUBSET OpNames]
ASSUME TasksAssumption == Tasks \cap {Poller, Nobody, Schedule, Timer} = {}
ASSUME InputsAssumption ==
  /\ StateInputs \subseteq Nat
  /\ SetpointInputs \subseteq Nat \X Nat
  /\ \A m \in InitMachines : m \in Machines /\ m.command \subseteq CallBits
ASSUME MaxCallsAssumption == MaxCalls \in Nat

VARIABLES
  machine,    \* the registers of the heat pump
  shown,      \* what its readable registers show, which lags behind
  data,       \* the last published reading
  reading,    \* the reading being collected, equal to data between polls
  last_update_success,
  read_only,  \* the entry's option, fixed for the life of a coordinator
  loaded,     \* FALSE once async_shutdown has run
  orphan,     \* a cancelled poll's thread is still on the bus
  owner,      \* holder of the asyncio lock
  queue,      \* waiters of the lock, first come first served
  pc,         \* where each task is
  job,        \* the write operation each task carries
  refresh,    \* where the refresh in progress is
  cause,      \* what started it: the schedule, a timer, or the task awaiting it
  debouncer,  \* cooldown of the requested refreshes
  timers,     \* delayed refreshes armed and not yet fired or cancelled
  pending,    \* whether _pending_refresh holds a handle
  calls       \* calls made so far

machineVars == << machine, shown >>
dataVars    == << data, reading, last_update_success >>
lockVars    == << owner, queue >>
taskVars    == << pc, job >>
refreshVars == << refresh, cause, debouncer >>
timerVars   == << timers, pending >>
entryVars   == << read_only, loaded, orphan >>
vars == << machineVars, dataVars, lockVars, taskVars, refreshVars, timerVars,
           entryVars, calls >>

Procs == Tasks \cup {Poller}

NoJob == [op |-> "none", best_effort |-> FALSE, steps |-> << >>, done |-> 0, failed |-> FALSE]

-----------------------------------------------------------------------------
(* The lock. *)

Free == owner = Nobody /\ queue = << >>

\* Acquire at once when nobody holds the lock or waits for it, else queue up.
TakeOrWait(p, holder) ==
  IF holder = Nobody /\ queue = << >>
    THEN owner' = p /\ queue' = queue
    ELSE owner' = holder /\ queue' = Append(queue, p)

\* A waiter is cancelled; those behind it move up.
LeavesQueue(p) ==
  \E place \in DOMAIN queue :
    /\ queue[place] = p
    /\ queue' = SubSeq(queue, 1, place - 1) \o SubSeq(queue, place + 1, Len(queue))

-----------------------------------------------------------------------------
(* The delayed refresh: every call_later timer that can still fire counts in
   timers; pending says whether the coordinator could still cancel one. *)

CancelPendingRefresh ==
  /\ timers' = IF pending THEN timers - 1 ELSE timers
  /\ pending' = FALSE

\* Mutant: the timer armed before is forgotten, not cancelled.
RearmTimer_forgets ==
  /\ timers' = timers + 1
  /\ pending' = TRUE

RearmTimer ==
  /\ timers' = (IF pending THEN timers - 1 ELSE timers) + 1
  /\ pending' = TRUE

-----------------------------------------------------------------------------
(* The refresh. *)

\* Mutant: the poll does not take the lock.
StartRefresh_unlocked(by, holder) ==
  /\ owner' = holder /\ queue' = queue
  /\ refresh' = "state"
  /\ cause' = by
  /\ debouncer' = "ready"

\* DataUpdateCoordinator._async_refresh up to its first suspension: it cancels
\* the debouncer's timer, then waits for the lock.
StartRefresh(by, holder) ==
  /\ TakeOrWait(Poller, holder)
  /\ refresh' = IF holder = Nobody /\ queue = << >> THEN "state" ELSE "waiting"
  /\ cause' = by
  /\ debouncer' = "ready"

\* A requested refresh runs now ...
RunsNow == loaded /\ debouncer = "ready" /\ refresh = "idle"

\* ... or is absorbed: deferred to the end of the cooldown, dropped because one
\* is running, or ignored after shutdown.
AbsorbRequest ==
  /\ ~RunsNow
  /\ debouncer' = IF loaded /\ debouncer = "cooling" THEN "again" ELSE debouncer
  /\ UNCHANGED << refresh, cause >>

ScheduledRefresh ==
  /\ loaded /\ refresh = "idle"
  /\ StartRefresh(Schedule, owner)
  /\ UNCHANGED << machineVars, dataVars, taskVars, timerVars, entryVars, calls >>

\* End of the debouncer's cooldown.
CooldownEnds ==
  /\ loaded /\ debouncer # "ready"
  /\ IF debouncer = "again"
       THEN StartRefresh(Timer, owner)
       ELSE debouncer' = "ready" /\ UNCHANGED << lockVars, refresh, cause >>
  /\ UNCHANGED << machineVars, dataVars, taskVars, timerVars, entryVars, calls >>

\* _read_all, in the executor: the block that holds register 200 comes before
\* the one that holds 7202 to 7205, and the machine may change what it shows in
\* between.
ReadStateBlock ==
  /\ refresh = "state"
  /\ reading' = [reading EXCEPT !.state = shown.state]
  /\ refresh' = "calls"
  /\ UNCHANGED << machineVars, data, last_update_success, lockVars, taskVars, cause,
                  debouncer, timerVars, entryVars, calls >>

\* Mutant: the calls are taken over from the last reading.
ReadCallsBlock_keeps_calls ==
  /\ refresh = "calls"
  /\ reading' = [shown EXCEPT !.state = reading.state, !.command = data.command]
  /\ refresh' = "read"
  /\ UNCHANGED << machineVars, data, last_update_success, lockVars, taskVars, cause,
                  debouncer, timerVars, entryVars, calls >>

ReadCallsBlock ==
  /\ refresh = "calls"
  /\ reading' = [shown EXCEPT !.state = reading.state]
  /\ refresh' = "read"
  /\ UNCHANGED << machineVars, data, last_update_success, lockVars, taskVars, cause,
                  debouncer, timerVars, entryVars, calls >>

\* A block that cannot be read abandons the whole reading.
ReadFails ==
  /\ refresh \in {"state", "calls"}
  /\ reading' = data
  /\ refresh' = "failed"
  /\ UNCHANGED << machineVars, data, last_update_success, lockVars, taskVars, cause,
                  debouncer, timerVars, entryVars, calls >>

\* End of the executor job: the lock is released, a complete reading is
\* published or the failure recorded, a requested refresh starts the cooldown,
\* and the write that awaits this refresh arms its delayed one and returns.
EndRefresh ==
  /\ refresh \in {"read", "failed"}
  /\ data' = IF refresh = "read" THEN reading ELSE data
  /\ last_update_success' = (refresh = "read")
  /\ owner' = Nobody
  /\ refresh' = "idle"
  /\ cause' = Nobody
  /\ debouncer' = IF loaded /\ cause # Schedule THEN "cooling" ELSE "ready"
  /\ IF cause \in Tasks
       THEN RearmTimer /\ pc' = [pc EXCEPT ![cause] = "idle"]
       ELSE UNCHANGED << pc, timerVars >>
  /\ UNCHANGED << machineVars, reading, queue, job, entryVars, calls >>

-----------------------------------------------------------------------------
(* Calls: every write goes through _write. *)

\* _write up to its first suspension.  Read-only mode is refused before the
\* lock is asked for.
CallWrite(t, op, operation) ==
  /\ op \in Ops[t]
  /\ loaded /\ pc[t] = "idle" /\ calls < MaxCalls
  /\ calls' = calls + 1
  /\ IF read_only
       THEN UNCHANGED << job, lockVars, pc >>
       ELSE /\ job' = [job EXCEPT ![t] =
                         [op |-> op, best_effort |-> operation.best_effort,
                          steps |-> operation.steps, done |-> 0,
                          failed |-> ~operation.valid]]
            /\ TakeOrWait(t, owner)
            /\ pc' = [pc EXCEPT ![t] = IF Free THEN "writing" ELSE "waiting"]
  /\ UNCHANGED << machineVars, dataVars, refreshVars, timerVars, entryVars >>

ambient_call == "AMBIENT" \in data.command
dhw_call == "DHW" \in data.command

async_set_state(t, state) == CallWrite(t, "set_state", apply_state(state))

\* Mutant: a toggle drops the other call.
TurnDhwSwitch_alone(t, on) == CallWrite(t, "dhw_switch", apply_calls(FALSE, on))

\* A call switch rewrites both calls, the other one from the last reading.
TurnAmbientSwitch(t, on) == CallWrite(t, "ambient_switch", apply_calls(on, dhw_call))
TurnDhwSwitch(t, on) == CallWrite(t, "dhw_switch", apply_calls(ambient_call, on))

async_set_conditioning(t, mode) ==
  LET state == with_conditioning(data.state, mode)
      dhw   == decompose(state).dhw
  IN  CallWrite(t, "set_conditioning",
                apply_state_and_calls(state, mode # "off", dhw /\ dhw_call))

async_set_dhw_enabled(t, enabled) ==
  LET state        == with_dhw(data.state, enabled)
      conditioning == decompose(state).conditioning
  IN  CallWrite(t, "set_dhw_enabled",
                apply_state_and_calls(state, conditioning # "off" /\ ambient_call, enabled))

async_set_setpoint(t, address, raw) ==
  CallWrite(t, "set_setpoint", apply_setpoint(address, raw))

async_start_legionella(t) == CallWrite(t, "start_legionella", start_legionella)

async_release(t) == CallWrite(t, "release", release)

MakeCall(t) ==
  \/ \E state \in StateInputs : async_set_state(t, state)
  \/ \E on \in BOOLEAN : TurnAmbientSwitch(t, on)
  \/ \E on \in BOOLEAN : TurnDhwSwitch(t, on)
  \/ \E mode \in Conditionings : async_set_conditioning(t, mode)
  \/ \E enabled \in BOOLEAN : async_set_dhw_enabled(t, enabled)
  \/ \E input \in SetpointInputs : async_set_setpoint(t, input[1], input[2])
  \/ async_start_legionella(t)
  \/ async_release(t)

-----------------------------------------------------------------------------
(* The executor job of a write, and what follows it. *)

\* Mutant: a failed write does not stop the sequence.
JobOver_carries_on(t) == job[t].done = Len(job[t].steps)

\* The job is over: all writes tried, or a failure that stops the sequence.
JobOver(t) ==
  \/ job[t].done = Len(job[t].steps)
  \/ job[t].failed /\ ~job[t].best_effort

NextWrite(t) == job[t].steps[job[t].done + 1]

InJob(t) == pc[t] = "writing" /\ ~JobOver(t)

OneWriteDone(t, raised) ==
  /\ job' = [job EXCEPT ![t].done = @ + 1, ![t].failed = @ \/ raised]
  /\ UNCHANGED << shown, dataVars, lockVars, pc, refreshVars, timerVars, entryVars, calls >>

WriteAcknowledged(t) ==
  /\ InJob(t) /\ ~Refused(machine, NextWrite(t))
  /\ machine' = AfterWrite(machine, NextWrite(t))
  /\ OneWriteDone(t, FALSE)

\* Mutant: a write whose answer is lost is sent again.
AnswerLost_resends(t) ==
  /\ InJob(t)
  /\ machine' = AfterWrite(machine, NextWrite(t))
  /\ UNCHANGED << shown, dataVars, lockVars, taskVars, refreshVars, timerVars, entryVars, calls >>

\* The machine applied the write and its answer was lost: to the client that is
\* a timeout, and write_register does not try again.
AnswerLost(t) ==
  /\ InJob(t)
  /\ machine' = AfterWrite(machine, NextWrite(t))
  /\ OneWriteDone(t, TRUE)

\* The write never reached the machine, or the machine refused it.
WriteFails(t) ==
  /\ InJob(t)
  /\ UNCHANGED machine
  /\ OneWriteDone(t, TRUE)

Returns(t) == pc' = [pc EXCEPT ![t] = "idle"] /\ job' = [job EXCEPT ![t] = NoJob]

\* Mutant: an error leaves the lock held.
WriteRaises_keeps_lock(t) ==
  /\ pc[t] = "writing" /\ JobOver(t) /\ job[t].failed
  /\ Returns(t)
  /\ UNCHANGED << machineVars, dataVars, lockVars, refreshVars, timerVars, entryVars, calls >>

\* The job raised: the lock is released and the error leaves _write before the
\* refresh.
WriteRaises(t) ==
  /\ pc[t] = "writing" /\ JobOver(t) /\ job[t].failed
  /\ owner' = Nobody
  /\ Returns(t)
  /\ UNCHANGED << machineVars, dataVars, queue, refreshVars, timerVars, entryVars, calls >>

\* The refresh this write asks for starts, and the write waits for its end.
WriteRefreshes(t) ==
  /\ pc[t] = "writing" /\ JobOver(t) /\ ~job[t].failed
  /\ RunsNow
  /\ StartRefresh(t, Nobody)
  /\ pc' = [pc EXCEPT ![t] = "refreshing"]
  /\ job' = [job EXCEPT ![t] = NoJob]
  /\ UNCHANGED << machineVars, dataVars, timerVars, entryVars, calls >>

\* The request returns at once, and the write arms its delayed refresh.
WriteReturns(t) ==
  /\ pc[t] = "writing" /\ JobOver(t) /\ ~job[t].failed
  /\ AbsorbRequest
  /\ RearmTimer
  /\ owner' = Nobody
  /\ Returns(t)
  /\ UNCHANGED << machineVars, dataVars, queue, entryVars, calls >>

AcquireForWrite(t) ==
  /\ owner = Nobody /\ queue # << >> /\ Head(queue) = t
  /\ owner' = t
  /\ queue' = Tail(queue)
  /\ pc' = [pc EXCEPT ![t] = "writing"]
  /\ UNCHANGED << machineVars, dataVars, job, refreshVars, timerVars, entryVars, calls >>

AcquireForPoll ==
  /\ owner = Nobody /\ queue # << >> /\ Head(queue) = Poller
  /\ owner' = Poller
  /\ queue' = Tail(queue)
  /\ refresh' = "state"
  /\ UNCHANGED << machineVars, dataVars, taskVars, cause, debouncer, timerVars,
                  entryVars, calls >>

-----------------------------------------------------------------------------
(* The read_register service uses the shared client without the lock. *)

ReadRegister(t) ==
  /\ "read_register" \in Ops[t]
  /\ loaded /\ pc[t] = "idle" /\ calls < MaxCalls
  /\ calls' = calls + 1
  /\ pc' = [pc EXCEPT ![t] = "direct"]
  /\ UNCHANGED << machineVars, dataVars, lockVars, job, refreshVars, timerVars, entryVars >>

ReadRegisterEnds(t) ==
  /\ pc[t] = "direct"
  /\ pc' = [pc EXCEPT ![t] = "idle"]
  /\ UNCHANGED << machineVars, dataVars, lockVars, job, refreshVars, timerVars,
                  entryVars, calls >>

-----------------------------------------------------------------------------
(* The delayed refresh, shutdown, and the machine. *)

\* Mutant: a confirming refresh that cannot run is put off once more.
DelayedRefresh_again ==
  /\ timers > 0
  /\ \/ /\ RunsNow /\ StartRefresh(Timer, owner)
        /\ timers' = timers - 1 /\ pending' = FALSE
     \/ AbsorbRequest /\ pending' = TRUE /\ UNCHANGED << timers, lockVars >>
  /\ UNCHANGED << machineVars, dataVars, taskVars, entryVars, calls >>

DelayedRefresh ==
  /\ timers > 0
  /\ timers' = timers - 1
  /\ pending' = FALSE
  /\ \/ RunsNow /\ StartRefresh(Timer, owner)
     \/ AbsorbRequest /\ UNCHANGED lockVars
  /\ UNCHANGED << machineVars, dataVars, taskVars, entryVars, calls >>

\* At unload Home Assistant cancels the tasks the entry owns.  A scheduled refresh is
\* one: it leaves the lock or its queue and publishes nothing, but a reading that has
\* begun goes on in the executor.  The refreshes that a write or a timer asked for, and
\* the writes themselves, belong to no entry and are not cancelled.
CancelScheduledRefresh ==
  IF cause = Schedule
    THEN /\ orphan' = (refresh \in {"state", "calls"})
         /\ owner' = IF owner = Poller THEN Nobody ELSE owner
         /\ IF refresh = "waiting" THEN LeavesQueue(Poller) ELSE queue' = queue
         /\ refresh' = "idle" /\ cause' = Nobody
         /\ reading' = data
    ELSE UNCHANGED << orphan, lockVars, refresh, cause, reading >>

\* The entry is unloaded.
async_shutdown ==
  /\ loaded
  /\ loaded' = FALSE
  /\ CancelPendingRefresh
  /\ debouncer' = "ready"
  /\ CancelScheduledRefresh
  /\ UNCHANGED << machineVars, data, last_update_success, taskVars, read_only, calls >>

\* The last block of the cancelled poll has been read, or one of them failed.
OrphanEnds ==
  /\ orphan
  /\ orphan' = FALSE
  /\ UNCHANGED << machineVars, dataVars, lockVars, taskVars, refreshVars, timerVars, read_only,
                  loaded, calls >>

\* The machine shows a value it accepted, about seven seconds after the write.
Reflect(part) ==
  /\ shown[part] # Readable(machine)[part]
  /\ shown' = [shown EXCEPT ![part] = Readable(machine)[part]]
  /\ UNCHANGED << machine, dataVars, lockVars, taskVars, refreshVars, timerVars,
                  entryVars, calls >>

-----------------------------------------------------------------------------
\* A coordinator that has done its first refresh.
Init ==
  /\ machine \in InitMachines
  /\ shown = Readable(machine)
  /\ data = shown
  /\ reading = data
  /\ last_update_success = TRUE
  /\ read_only \in BOOLEAN
  /\ loaded = TRUE /\ orphan = FALSE
  /\ owner = Nobody /\ queue = << >>
  /\ pc = [t \in Tasks |-> "idle"]
  /\ job = [t \in Tasks |-> NoJob]
  /\ refresh = "idle" /\ cause = Nobody /\ debouncer = "ready"
  /\ timers = 0 /\ pending = FALSE
  /\ calls = 0

TaskStep(t) ==
  \/ AcquireForWrite(t)
  \/ WriteAcknowledged(t) \/ AnswerLost(t) \/ WriteFails(t)
  \/ WriteRaises(t) \/ WriteRefreshes(t) \/ WriteReturns(t)
  \/ ReadRegisterEnds(t)

RefreshStep ==
  AcquireForPoll \/ ReadStateBlock \/ ReadCallsBlock \/ ReadFails \/ EndRefresh

Next ==
  \/ \E t \in Tasks : MakeCall(t) \/ ReadRegister(t) \/ TaskStep(t)
  \/ RefreshStep
  \/ ScheduledRefresh \/ CooldownEnds \/ DelayedRefresh
  \/ async_shutdown \/ OrphanEnds
  \/ \E part \in {"state", "command", "setpoints"} : Reflect(part)

Spec == Init /\ [][Next]_vars
=============================================================================
