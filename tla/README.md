# Verification of hass-maxa-advantix

TLA+ models of the Home Assistant integration for MAXA / Advantix heat pumps
(`src/custom_components/maxa_advantix`), TLC runs on small instances, and TLAPS
proofs for every value of the constants.

## 1. Inventory

`P` is `src/custom_components/maxa_advantix/`.

| Component | State it keeps | Operations | What is hard |
| --- | --- | --- | --- |
| Packed state (`P/states.py`) | none | compose, decompose, set one half | one register, two owners |
| Safe write layer (`P/safe_write.py`) | none; it leaves three registers (7200, 7201, 7202) and the setpoints behind | six composed writes, each a sequence of single writes | order, enable bits, a sequence abandoned halfway, retries |
| Heat pump (`src/scripts/modbus_simulator.py`, `docs/registers.md`) | state, enables, commands, setpoints | read, write | writes acknowledged and ignored; values shown seven seconds late |
| Modbus client (`P/modbus_client.py`) | transaction id, time of the last frame, counters | read with retries, write without | late and lost answers, short replies, counters since startup |
| Coordinator (`P/coordinator.py`) | the lock, the last reading, one delayed refresh, mode-switch history | `_write` and its seven callers, `_async_update_data`, `_delayed_refresh`, `async_shutdown` | asyncio tasks and executor threads interleaved, stale readings, timers against unload |
| Entities (`P/climate.py`, `water_heater.py`, `switch.py`, `select.py`, `number.py`, `button.py`) | none of their own | read the last reading, call the coordinator | read-modify-write over a stale reading |
| Services (`P/services.py`) | none | set_mode, set_dhw_setpoint, start_legionella, release_control, read_register | `read_register` takes no lock |
| Health (`P/health.py`) | repair issues | check after each poll, clear on unload | thresholds, lifetime error rate, a check after the clear |
| Entry life cycle (`P/__init__.py`) | coordinator, platforms | set up, unload, reload on options | two coordinators overlap on one bus |
| Config flow (`P/config_flow.py`) | entries and their unique ids | user, reconfigure, options | check, await, act; dialogs at once |
| Register map, planner (`P/registers.py`) | none; the plan made at import | plan_blocks | limits, the last block, an address in no block or in two |
| Telemetry (`coordinator._read_all`) | circulation start, mode-switch times | derived values of a poll | sentinels and signs, a poll torn by a changing machine, gaps between polls |
| Alarms (`P/alarms.py`) | none | decode, count | missing words |
| Blueprints (`src/blueprints`) | Home Assistant's | five automations | unavailable states between triggers, timers that restart |

How they interact. Entities and services call the coordinator inside the event
loop. A write takes the coordinator's lock, runs one `safe_write` operation in an
executor thread through the shared client, releases the lock, asks for a refresh and
arms a second one eight seconds later. A refresh takes the same lock, reads the
blocks in an executor thread, publishes a reading and runs the health checks.
Unloading the entry shuts the coordinator down; it does not wait for calls and
refreshes under way, and it cancels the scheduled poll, whose thread runs on.

What makes each part correct:

- write layer: no illegal value is ever sent; every value is sent after its enable bit
  and the bit is still there when it arrives; success means the value is in effect;
- lock: one user of the bus at a time, but for the two readers that go round the lock;
  sequences are not interleaved; it is always handed on;
- halves and calls: an operation on one leaves the other alone;
- refresh: what is shown catches up with the machine;
- timers: every timer can be cancelled, and after unload all comes to rest;
- client: an answer is never given to another request, a write is sent once, every
  call ends, the counters lose nothing;
- planner and poll: each address once and in few transactions; what is shown was
  held by the machine; a derived value is of one moment;
- telemetry and health: the rate is that of the last hour, an issue is there exactly
  while its condition holds;
- life cycle: what is unloaded is what was set up, read-only means no controls, a
  service finds the coordinator in charge, the entry comes back;
- config flow: one entry per machine, none lost, none unreached;
- hot water automation: the rest is kept, the run ends, the target stops it, a cold
  tank is heated.

The places where this can go wrong are listed in `PROJECT.json` under `hazards`,
each with the properties that watch it or the reason why none does.

## 2. Modules

| Module | Models |
| --- | --- |
| `States` | `states.py`: pure operators over the six packed states |
| `SafeWrite` | `safe_write.py`: an operation is a record of its validation verdict, its failure policy and the sequence of writes it sends. The two bit fields are sets of bit names |
| `HeatPump` | the register file as the simulator answers it: a state or setpoint write without its enable bit is acknowledged and dropped, an illegal state is refused |
| `Coordinator` | `coordinator.py` with the callers that add state of their own: the call switches and `read_register` |
| `SerialBus` | the abstract specification: one user at a time, writes in order, at most once, with no other write in between, possibly given up; beside the user there may be readers, callers while the integration is open and one reader turned out when it closes |
| `CoordinatorProps` | the properties, the fairness, and the mapping from `Coordinator` to `SerialBus` |
| `CoordinatorProofs` | the inductive invariant, the theorems that follow from it, and the proof that `Coordinator` implements `SerialBus` |
| `Controls`, `ControlsProofs` | the control entities and services on top of the coordinator: which operation each calls, with which register and which limits |
| `Registers` | `registers.py`: the map, its units, flags and limits |
| `BlockPlanner` | `plan_blocks`, one action per iteration |
| `Alarms` | `alarms.py`: bit tests, decoding, counting over the three words |
| `Reading` | one poll (`_read_all`): the blocks of the planner read one after the other, and the data made of them |
| `Entities` | what each entity shows of that data |
| `PollProofs` | the theorems about `BlockPlanner`, `Reading` and `Entities` |
| `Telemetry`, `TelemetryProofs` | what the coordinator remembers from poll to poll, the thrashing issue of `health.py`, and refreshes that outlive an unload |
| `BusHealth` | the client's counters over polls and writes, and the bus issue of `health.py` |
| `ModbusClient`, `ModbusClientProofs` | `modbus_client.py` in several threads, with the gateway and the network |
| `Lifecycle`, `LifecycleProofs` | `__init__.py`: set-up, reload, unload, read-only mode, with the entry's coordinator and the one before |
| `ConfigFlow`, `ConfigFlowProofs` | `config_flow.py`: dialogs, probes, unique ids |
| `DhwHysteresis`, `DhwHysteresisProofs` | the hot water automation with the entity it drives |
| `MC...` | the instances TLC checks |

`Controls` extends `Coordinator`; `Entities` extends `Reading`, which extends
`BlockPlanner` and `Alarms`: the poll reads the blocks the planner made. The others
are joined by what they assume of each other. `Coordinator` takes a read with its
retries for one step and gives a write three outcomes (done, done with the answer lost,
not done): `ModbusClient` has just these (`WrittenAtMostOnce`, `AcknowledgedMeansApplied`).
`Telemetry` takes a reading for one step, `Reading` says what is in it. `Lifecycle`
keeps of a coordinator only its lock, its waiting writes and its read-only flag.

### Coordinator: state and actions

A step is what the event loop runs between two awaits, or one bus transaction of an
executor thread.

| Variables | Code |
| --- | --- |
| `machine`, `shown` | the writable registers, and what the readable ones show of them |
| `data`, `reading`, `last_update_success` | the last published reading, the `raw` dict of the poll under way, the update's outcome |
| `owner`, `queue` | `_lock` (an `asyncio.Lock`: waiters are served in order) |
| `pc`, `job` | where each call is, and the `safe_write` operation it carries |
| `refresh`, `cause`, `debouncer` | the refresh under way, what asked for it, and the debouncer's cooldown |
| `timers`, `pending` | timers of `async_call_later` that can still fire; whether `_pending_refresh` is set |
| `read_only`, `loaded` | the entry's option, and whether `async_shutdown` has run |
| `orphan` | the executor thread of a poll whose task was cancelled still reads |

| Actions | Code |
| --- | --- |
| `async_set_state` ... `async_release`, `TurnAmbientSwitch`, `TurnDhwSwitch` | the callers of `_write`, up to the lock |
| `WriteAcknowledged`, `AnswerLost`, `WriteFails` | one `write_register` in the executor: done; applied by the machine but its answer lost; not applied |
| `WriteRaises` | the job raised: the lock is released and nothing else of `_write` runs |
| `WriteRefreshes`, `WriteReturns` | the job succeeded: the refresh it asks for starts and is awaited, or is absorbed by the debouncer |
| `AcquireForWrite`, `AcquireForPoll` | the first waiter gets the lock |
| `ScheduledRefresh`, `CooldownEnds`, `ReadStateBlock`, `ReadCallsBlock`, `ReadFails`, `EndRefresh` | `DataUpdateCoordinator` around `_async_update_data`, and the blocks of `_read_all` |
| `DelayedRefresh` | the same in the code |
| `async_shutdown` | the same, with what Home Assistant does to the entry's tasks at unload: the scheduled poll leaves the lock or its queue (`CancelScheduledRefresh`), while the thread of a reading that has begun goes on until `OrphanEnds` |
| `ReadRegister`, `ReadRegisterEnds` | the `read_register` service, from the executor call to its result |
| `Reflect` | the machine shows an accepted value, some seconds later |

Abstractions. Of the blocks of a poll only the two that matter to writes are kept: the
one with register 200 and the one with 7202 to 7205. Retries of a read are inside one
step, because a poll holds the lock through them. `DataUpdateCoordinator` and its
`Debouncer` are not in this repository; they are modelled from how the coordinator
uses them: a request runs now, or at the end of the cooldown, or is dropped because a
refresh is running, or is ignored after shutdown. Of the tasks Home Assistant can cancel,
the scheduled poll is modelled, because the entry owns it; a caller that is cancelled
while it waits for a write (a script that is stopped) is not. The initial state is a
coordinator after its first refresh, with a machine found in any of the given states.

### The poll: Registers, BlockPlanner, Reading, Entities

`wanted`, `start`, `previous`, `blocks` are the locals of `plan_blocks`;
`FirstAddress`, `NextAddress` and `LastBlock` the statements before, in and after its
loop. `BeginPoll` starts `_read_all` when the plan of the map is there;
`ReadNextBlock` is one `read_holding`, possibly short, `BlockFails` one that
failed for good, `Derive` the dictionary made at the end; `MachineChanges` happens between
any two blocks. Words are integers and arrive signed; values are integers in hundredths
of their unit. `raw` is the dictionary of the code, with missing keys. `Entities` is
the entities' properties as functions of `data`. What they are measured by, `Meaning`, is
the register map of the documents: the six words of `docs/registers.md:121` mean that
there is no value.

### Telemetry and BusHealth

`circulating_since`, `last_state`, `switch_times`, `mode_switches` are the fields of
those names. A moment is kept as its age, capped where older ages cannot be told apart,
so time is not bounded. `JobDone` is the executor's part of a refresh, `Finish` the event
loop's (the health check and the new data), `JobFails` is `UpdateFailed`. `Unload`
clears the issue and cancels a scheduled refresh; a requested one lives on as `stray`.
`Recent` is `_switches_per_hour`: it pops the oldest times while they are older than the
hour (`Expired`). `switches`, a history, keeps the ages of all the changes seen, which is
what the rate is compared with.
`BusHealth` has one action per poll or write, which adds its transactions and errors.

### ModbusClient

`pc`, `call`, `attempt` per thread; `Send`, `CannotConnect`, `TimesOut`, `ConnectionEnds`,
`Receive` are the ways through one attempt of `_transact`, `AttemptFails` the retry loop
of `read_holding` and the raise of `write_register`. `wire` holds requests the
gateway has not carried out yet, which a client that gave up leaves behind. Each attempt
has a connection of its own, and a reply arrives on that of its request: this, not
the transaction id, is what keeps answers apart. That the counters do not lose an
increment between two threads is CPython's: `+=` on them is taken as one step.

### Lifecycle, ConfigFlow

`Setup` runs `async_setup_entry` to its first await, `FirstRefreshAnswers` to
the second, `Forwarded` to its end; `UnloadEntry` and `Unloaded` are the
two halves of an unload. Home Assistant runs one of them at a time and tries a failed
set-up again. `job`, `waiting`, `orphan` are each coordinator's lock, its queue, and a
thread whose task was cancelled. A dialog is `Open`, submitted (the check of the unique id
and the start of the probe are one step: there is no await between them), and ended by
`ProbeFails`, `CreateEntry` or `UpdateEntry`. What Home Assistant does on creating an
entry (it aborts other flows with the unique id and removes an entry that has it) is
modelled from the version the integration is tested with.

### DhwHysteresis

One tick is a minute with at least one run; a poll comes every `ScanTicks` ticks at the
latest (`MAX_SCAN_INTERVAL`, `const.py:21`). `shown` and `shown_for` are the
state of the water heater entity and its age, on which the conditions of the blueprint
work; `making` is what the machine does. The block conditions and the flow gate are two
flags that change at any time. Polls, calls and the probe may fail at any moment. The
order of the three temperatures is an assumption: the blueprint does not check it.

## 3. Runs

`tlc -config <MC module>_<run>.cfg <MC module>`.

| Run | Asks | Instance |
| --- | --- | --- |
| `bus` | types, who is on the bus beside whom, enables held, success means in effect, timers, `ImplementsSerialBus`; every call returns; the display catches up; unload comes to rest | two callers with six operations between them, `read_register` among these, two calls; 274 471 states |
| `patient` | the other half, the other call, the other mode's setpoint and the ranges are left alone by every control and service | one user, two calls, all controls, a machine heating with hot water or off; 383 969 states |
| `poll` | the plan is complete, legal and least; sensors, derived values, alarms and modes show what the machine held | 1152 small calls and the map; sixteen register contents, one change during the poll, one reply short by up to two; 63 366 states |
| `telemetry` | the flow gate, the rate, and the issue: exact, and gone in the end | settling and window of two ticks, deque of two, three mode changes or any number of pump changes; 140 696 states |
| `client` | current answers, writes once, acknowledged is applied, counters, every call ends | two threads, two calls, two attempts, ids modulo 3, a refused value; 443 188 states |
| `entry` | unload undoes set-up, read-only is kept, services find the right coordinator, the entry comes back | two waiting writes for each of two coordinators; 8 713 states |
| `dialogs` | one entry per machine, none lost, none unreached | three dialogs, endpoints and entries; 162 876 states (with symmetry) |
| `hysteresis` | runs end, rests are kept, the target stops, an emergency starts | four temperatures, rest two and run three ticks, polls up to two apart; 23 992 states |
| `second_master`, `release`, `legionella`, `diluted` | one expected violation each | one caller, one or two calls; the real numbers of `health.py` |

Deadlock is an error in `entry`, `dialogs` and `hysteresis`, which never stop; an
unloaded coordinator at rest, a poll that has ended and calls that are all made have no
step left.

### Bounds

- `MaxCalls` bounds the calls of one behaviour; polls, timers, failures and reflections
  are not bounded. Two callers are enough for one to hold the lock while the other waits
  and the poll waits behind it; two calls are enough for every hazard that is a race
  of two operations or a second call after a first that failed. A patient user has one
  call under way at a time, so `patient` needs one caller. `Ops` gives each caller
  its operations, because their product with every interleaving is what makes the state
  space grow: in `bus` one caller has the air conditioning's switch, the hot water and the
  release, the other the hot water's switch, the air conditioning and `read_register`. The
  other operations are in `patient`, and all of them in the theorems. The inputs are two temperatures, legal for one register each way, and two of the six states.
- `poll`: sets of up to seven addresses meet every gap of zero to two and blocks of one,
  three and five; the memories differ from the simulator's by one thing each (a negative
  probe, three of the sentinels, and 65535 in a probe and in the flow meter, a flow meter at zero,
  a reserved alarm bit, an undocumented state ...).
  One change during a poll makes two moments, which is enough to tear any pair of blocks.
- `telemetry`: either the pump or the mode changes in a behaviour; the fields of the two are
  never read together. Three changes overflow the deque of two.
- `client`: ids modulo 3 wrap with the third transaction; one retry shows what a second
  would; `registers` change at any time.
- `entry`: two coordinators are followed; a third is made only when the older is quiet
  (`Quiet`).
- `hysteresis`: polls at most two ticks apart make the display lag behind by the whole
  interval and by less; the theorems are for every interval.
- `dialogs`: entry ids are used once, so three are created in a behaviour.
- `diluted`: counters are followed to 400 transactions and 35 errors; the violation comes
  before either bound.

### Fairness

`CoordinatorProps!Fairness`: weak fairness on each task's steps, on the refresh, on the
poll schedule, on the debouncer's and the delayed refresh's timers, and on the
machine showing what it accepted: the event loop and the executor run what is ready,
every socket operation has a timeout, and timers fire. None on making calls or on unloading.
`BusRecovers` is strong fairness on a block being read: a bus that fails for ever would
justify no claim about what is shown. `EveryCallReturns` and `ComesToRest` do not rest on
success: a failing bus also ends every job.

`Telemetry`: time goes on, and what has answered is handed out. `IssueClears` itself
assumes that polls go on answering. `ModbusClient`: a thread goes on to connect, and its
socket times out (`settimeout`, `modbus_client.py:122-130`); nothing is assumed of the
gateway. `Lifecycle`: Home Assistant finishes what it began, and a machine that is asked
again and again answers some day (strong fairness of `FirstRefreshAnswers`); none on the
user. `DhwHysteresis`: time, polls and runs go on; a poll succeeds some day, so does a
call that is made again and again, and the failing polls are not always exactly those
before a run.

### Mutants

The operators marked "Mutant" restate one definition with a plausible bug (a poll without
the lock, a sequence that goes on after a failure, a block left out, a retried write, a
platform list worked out anew ...). They are used by nothing else; each breaks the property
it is listed with in `PROJECT.json`.

### What the violations show

- `second_master`: `_write` promises "one queue, one master, no interleaving with the poll
  cycle" (`coordinator.py:122-123`). A write waits for the lock while a scheduled poll reads;
  the entry is unloaded and the poll's task cancelled, which leaves `async with self._lock`
  (`coordinator.py:220`) but does not stop its thread; the write gets the lock and is on the
  bus beside it.
- `release`: when the write of 7200 failed, 7201 is cleared all the same, and a second
  `release` sends 7200 with its enable missing: acknowledged, ignored, and reported as a
  success (`safe_write.py:191-197`).
- `legionella`: every call operation rewrites 7202 without the bit that must stay set for
  the whole cycle (`safe_write.py:149`).
- `diluted`: the error rate is taken over the whole life of the client, so after a long
  healthy run five polls in which every read had to be repeated raise nothing
  (`modbus_client.py:98`).

### Conditions: where the code promises less than its texts

Some properties hold under a condition that is part of their statement or of their run.
Each marks a gap in the code, found while modelling.

- `HalvesPreserved`, `CallsPreserved`, `TargetFollowsTheMode` need the patient user: the
  climate, the water heater and the switches compose their write from a reading taken
  before the lock (`coordinator.py:172`, `:180`, `switch.py:60`, `climate.py:161`). A call
  made before the display has caught up can undo what was just written, or set the other
  mode's temperature.
- One master (`coordinator.py:3-8`, `:122-123`) holds but for two readers beside the lock,
  and `OneMasterButAside` and `SerialBus` say exactly that. One is `read_register`, which
  reaches the client without the lock (`services.py:110`), though `docs/registers.md:131-132`
  says it "goes through the same coordinator and therefore does not create a second master
  on the bus". The other is the thread of a poll cancelled at unload (`second_master`). Both
  only read, so no write comes between the writes of an operation.
- A write that ends after `async_shutdown` arms a timer (`coordinator.py:136`) that
  nothing cancels; `ComesToRest` shows that it fires once into nothing.
- `IssueMatchesData` excepts `strayed`: a refresh that was in flight at unload checks the
  installation when it comes back, and can raise an issue for an entry that is gone
  (`coordinator.py:229`).
- `UniqueEndpoints` and `EntriesAreKept` except `overlapped`: the check of a reconfiguration
  is made before the probe is awaited (`config_flow.py:154`), so a second dialog that
  probes the same endpoint meanwhile makes two entries of one machine, or has the
  reconfigured entry replaced.
- `RunsAreBounded` counts from the last failure: an entity that was unavailable for a
  moment starts its `for` afresh (`dhw_hysteresis.yaml:226`), so polls that fail now and
  then keep a run going beyond its maximum.
- `SensorsShowTheMachine` and `DerivedFromOneMoment` except one absent word. 65535 "means
  probe absent" and "must never reach an entity" (`const.py:56-60`, `docs/registers.md:121-123`),
  but words are signed before they are compared, so it arrives as -1 and passes
  (`coordinator.py:250`): a sensor shows -1 of its unit, and the temperature difference, and
  with it the thermal power, are computed from -0.1 degrees. The other five words are filtered
  as promised. A flow meter that answers 65535 gives no power all the same, because its
  flow is not above zero.
- `AlarmViewsAgree` excepts short replies: a word that was not read counts as no alarm
  (`coordinator.py:260`).
- `RestrictedOnlyAfterSettling` is about polls: a pump that stops and starts between two
  of them is not seen. `BusErrors` is only evaluated after a poll that answered, so a bus
  that is dead raises nothing.
- An option submitted while the entry is being set up waits for the next reload, because
  the listener is registered last (`__init__.py:83-106`); and an option, once set, wins over
  a later choice in the reconfiguration dialog (`__init__.py:63`). `NoControlsWhenReadOnly`
  is therefore about the coordinator's flag, not about the option. A reload does not
  wait for the old coordinator, whose thread can be on the bus beside the new one's.

## 4. Proofs

`tlapm <module>.tla` for the eight modules of theorems. Each assumes only what the
modules it extends assume of their constants, and `SetpointsStayLegal` one hypothesis
named below. Every invariant and every action property of the runs that pass is proved, for
every value of the constants; the inductive invariants were also checked with TLC on the
instances of section 3 (`Complete` of `PollProofs` with the addresses up to 8000 for `Int`,
which TLC does not enumerate).

**CoordinatorProofs.** The inductive invariant `IInv` is the conjunction of

- `TypeOK`;
- `LockInv`: a task is writing exactly if it owns the lock, the refresh is past its
  lock exactly if the poller owns it, and the queue holds only waiters, each once.
  Without the queue's part, a waiter could be woken into a place where it does not wait;
- `RefreshInv`: the task a refresh was started by is waiting for it, the debouncer
  is ready while a refresh runs, and an orphaned thread is of a coordinator that is
  unloaded and has no refresh;
- `EveryTimerHasHandle`;
- `JobInv`: the steps of a job form a `SafeSequence` (the enable write first, covering all
  the others, no register twice), and what a job has written so far is in effect until
  one of its writes fails. `SafeSequence` is what turns "the enables I wrote are still
  there" into "and they are the ones the next write needs".

From it follow `TypeCorrect`, `TimersHaveHandles`, `EnablesAreHeld`, `SuccessIsInEffect`
and `OneMaster`, for every set of operations. `CoordinatorImplementsSerialBus`: the user of
the bus is whoever has the lock with a write to send or a block to read, the plan is the rest
of the job's steps (`BusUser`, `BusTodo`), and those aside are the direct reads and the
orphaned thread. Every step lets someone in when nobody had the lock (`Enters`), sends one
write (`OneWriteStep`), ends a reading, begins or ends a reading beside it, closes the
integration and turns its poll out, or is not seen (`Unseen`).

**ControlsProofs**, for all entities, temperatures and machines. A use of a control is a
call of the coordinator (`ControlCall`), and what lies underneath is unchanged, so `IInv`
holds here too.

- `SetpointsStayLegal` adds that no job sends a setpoint outside its range (`LegalSteps`).
  Its hypothesis `FoundLegal` is that the machine is found with legal setpoints: the
  integration does not repair those it finds.
- `EachOwnsAHalf`, `EachSwitchesItsCall` and `ClimateFollowsTheMode` are about the user who
  waits. Such a user has one call under way, so while a job runs nobody else writes, and
  what the reading showed when the job was composed is what the machine holds. `Keeps` says
  of a job's steps that they leave alone what they should; it survives the job's own
  writes (`KeepsAfter`), and so also a job of which only some writes succeed.

**PollProofs.** The planner, for every set of addresses and all limits: every address
already visited lies in exactly one finished block or between `start` and `previous`;
finished blocks are legal and lie below `start`; every address still wanted lies above
`previous`. `PlanCovers` is `EachAddressOnce`; `PlanIsLegal` is `BlocksAreLegal` and
`EachSplitForced`: no legal read reaches from one block into another. From that,
`PlanIsSmallest`: any other plan needs a read of its own for the first address of each
block, so the blocks can be mapped one to one into it (`OneStartEach`); `PollsAreShort`
carries this over to `FewestTransactions`.

The poll, for every content of the registers, every change between two blocks and every
short reply, with the plan made of the map (`ReadInv`). What has been read came from the
blocks read so far (`FromBlocks`); each block's words are of one moment (`OneMoment`); nothing
is missing without a short reply (`Complete`). The alarm words lie in one block, and
so do the probes and the flow meter: a gap comes before them, and no split within them
can be forced (`RunInOneBlock`). Hence `DerivedIsConsistent` and the first half of
`AlarmsAreConsistent`. `SensorsAreTrue` follows one register through the sign and the
sentinels: signed, the six absent words are sentinels except 65535 (`SignedWord`,
`MeasuredMeans`), which is the exception in both statements. The alarm entities agree because 16-bit words have no bit beyond 15 and no bit
at all only if they are zero (`NoBits`, over the four nibbles), and because the named flags
and the alarms correspond one to one (`AlarmCounts`). `ModesAreConsistent` is a matter of the
table of states.

**TelemetryProofs**, for every window, threshold and length of the deque. `DequeInv`: the
deque holds the newest of the changes seen, in order, except that those beyond its length
and those older than the hour may be missing. So counting it is counting the last hour,
up to its length (`RatesCountTheLastHour`). `CirculatingInv`: when the pump is remembered
to run, some poll of that age saw it running and none since saw anything else
(`FlowIsJudgedWhenSettled`). `IssueMatchesData` is inductive with the types
(`IssueFollowsData`).

**ModbusClientProofs**, for any number of threads, calls, addresses and retries. A call is
run by one thread; a connection name is opened once; what a thread may receive on its
connection is a value its read was shown; a write is pending and not carried out, or
carried out once and pending no more. From these follow `ReadsAreCurrent`,
`WritesAreCarriedOutOnce`, `AcknowledgedIsCarriedOut` and `NoTransactionIsLost`.

**LifecycleProofs**, for every default and any number of waiting writes. To the types and
`NothingLeftBehind` the invariant adds that the platforms chosen at the first answer are
those of the coordinator's flag (`Chosen`) and that a coordinator that refuses writes has
none on the bus or waiting (`Refusing`).

**ConfigFlowProofs**, for any number of dialogs, endpoints and entries. A dialog that
probes has claimed its endpoint in the form it will use (`ClaimInv`); unless two have
overlapped, a reconfiguration is alone on its endpoint (`AloneInv`) and no other entry has
the endpoint being probed (`FreshInv`). The last is the check made before the await, kept
until after it. From these follow `EndpointsAreUnique`, `EntriesWereReached` and
`OnlyTheUserRemoves`.

**DhwHysteresisProofs**, for all temperatures and times in the order the blueprint intends.
The entity lags behind the machine by at most one interval of the polls: it has shown "off"
no longer than the machine rests (`RestInv`), and shows a run at most `ScanTicks` ticks
short (`AgeInv`); an automation that has run since the last change would have given up (`GiveUpInv`). Hence
`RestsAreKept` and `RunsEnd`.

Only model-checked:

- the liveness properties (`EveryCallReturns`, `DataCatchesUp`, `ComesToRest`,
  `IssueClears`, `EveryCallEnds`, `EntryComesBack`, `StopsAtTarget`,
  `EmergencyIsHeated`): they rest on fairness, that is on ENABLED, which is out of the
  prover's reach;
- the four expected violations, and with them `BusHealth`.

## 5. Not modelled

- The other four blueprints: they act on a back-up heater, a notifier, a recirculation pump
  and a solar meter, none of which is in the repository.
- The thermal model of the simulator beyond the direction of the tank's temperature.
- The pause between frames and the back-off between attempts: they delay, and nothing that
  is claimed depends on by how much. A reply shorter than asked is in `Reading`, not
  in `ModbusClient`.
- More than one entry in `services.py`: the choice by device is a lookup.
- Rounding for display (`circulating_for` is shown in whole seconds and compared
  unrounded), names, units, icons, translations, diagnostics and dashboards, which only read.
- The repository's scripts other than the simulator's register file.

Home Assistant itself is external. `DataUpdateCoordinator` and its `Debouncer`, asyncio's
lock, the flow manager and the entry's state machine are modelled from how the code
uses them, and marked so in `PROJECT.json`. Home Assistant holds a climate call to the
limits of its entity and a number call to its range; it does not hold a water heater call
to them (`Controls`).
