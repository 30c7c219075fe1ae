---------------------------- MODULE ModbusClient ----------------------------
(***************************************************************************)
(* The Modbus-TCP client (modbus_client.py) used by several threads at     *)
(* once, the gateway at the other end as the repository's simulator        *)
(* answers (scripts/modbus_simulator.py, ModbusHandler), and a network     *)
(* that may lose, delay or cut short what is sent.                         *)
(*                                                                         *)
(* Every attempt has a TCP connection of its own.  A client that gives up  *)
(* closes its end, but what it sent may still be carried out.  The pauses  *)
(* between frames and between attempts are left out.                       *)
(***************************************************************************)
EXTENDS Integers, FiniteSets

CONSTANTS
  Callers,          \* threads of the executor
  Calls,            \* the calls they make, each a name used once
  Addresses, Values,
  RefusedValues,    \* the values the machine answers with an exception
  MODBUS_RETRIES,
  ID_MODULUS,       \* 0xFFFF
  Nothing           \* no call, no request, no value

ASSUME ClientAssumption ==
  /\ IsFiniteSet(Callers)
  /\ RefusedValues \subseteq Values
  /\ MODBUS_RETRIES \in Nat \ {0}
  /\ ID_MODULUS \in Nat \ {0, 1}
  /\ Nothing \notin Calls /\ Nothing \notin Values

Reads == [func : {"read"}, address : Addresses, value : {Nothing}]
Writes == [func : {"write"}, address : Addresses, value : Values]
Requests == Reads \cup Writes
Connections == [call : Calls, attempt : 1 .. MODBUS_RETRIES]

VARIABLES
  \* the threads: idle, about to connect, or waiting for a reply
  pc, call, attempt,
  \* the calls: what each asks for, how it ended, what a read returned
  request, outcome, result,
  \* the client they share
  transaction, transactions, errors, timeouts,
  \* connections: requests the gateway has still to carry out, replies on their way
  wire, replies,
  \* the machine
  registers,
  \* history, for the properties only
  held,             \* values a call's address has had since the call began
  applied,          \* how often a call's write was carried out
  answers           \* transactions that ended well

threads == << pc, call, attempt >>
asked   == << request, outcome, result >>
bus     == << transaction, transactions, errors, timeouts >>
vars == << threads, asked, bus, wire, replies, registers, held, applied, answers >>

Init == /\ pc = [c \in Callers |-> "idle"]
        /\ call = [c \in Callers |-> Nothing]
        /\ attempt = [c \in Callers |-> 1]
        /\ request = [n \in Calls |-> Nothing]
        /\ outcome = [n \in Calls |-> "none"]
        /\ result = [n \in Calls |-> Nothing]
        /\ transaction = 0 /\ transactions = 0 /\ errors = 0 /\ timeouts = 0
        /\ wire = {} /\ replies = {}
        /\ registers \in [Addresses -> Values]
        /\ held = [n \in Calls |-> {}]
        /\ applied = [n \in Calls |-> 0]
        /\ answers = 0

Connection(c) == [call |-> call[c], attempt |-> attempt[c]]

-----------------------------------------------------------------------------
\* The client.

\* A thread enters read_holding or write_register.
Begin(c, n, q) ==
  /\ pc[c] = "idle" /\ outcome[n] = "none"
  /\ pc' = [pc EXCEPT ![c] = "connect"]
  /\ call' = [call EXCEPT ![c] = n]
  /\ attempt' = [attempt EXCEPT ![c] = 1]
  /\ request' = [request EXCEPT ![n] = q]
  /\ outcome' = [outcome EXCEPT ![n] = "running"]
  /\ held' = [held EXCEPT ![n] = {registers[q.address]}]
  /\ UNCHANGED << result, bus, wire, replies, registers, applied, answers >>

\* _next_transaction_id: (t + 1) % 0xFFFF or 1.
NextId(t) == IF (t + 1) % ID_MODULUS = 0 THEN 1 ELSE (t + 1) % ID_MODULUS

\* A transaction is counted and given an id before it is tried.
Count == /\ transactions' = transactions + 1
         /\ transaction' = NextId(transaction)

\* Mutant: writes are retried like reads.
MayRetry_writes(c) == attempt[c] < MODBUS_RETRIES

\* Only a read is tried again, and only so many times.
MayRetry(c) == request[call[c]].func = "read" /\ attempt[c] < MODBUS_RETRIES

\* Mutant: an error is only counted when it is raised to the caller.
AttemptFails_last_only(c) ==
  /\ IF MayRetry(c)
       THEN /\ pc' = [pc EXCEPT ![c] = "connect"]
            /\ attempt' = [attempt EXCEPT ![c] = @ + 1]
            /\ UNCHANGED << call, outcome, errors >>
       ELSE /\ pc' = [pc EXCEPT ![c] = "idle"]
            /\ outcome' = [outcome EXCEPT ![call[c]] = "failed"]
            /\ call' = [call EXCEPT ![c] = Nothing]
            /\ errors' = errors + 1
            /\ UNCHANGED attempt
  /\ UNCHANGED << request, result, wire, registers, held, applied, answers >>

\* The attempt has failed: another one, or the error is raised to the caller.
AttemptFails(c) ==
  /\ errors' = errors + 1
  /\ IF MayRetry(c)
       THEN /\ pc' = [pc EXCEPT ![c] = "connect"]
            /\ attempt' = [attempt EXCEPT ![c] = @ + 1]
            /\ UNCHANGED << call, outcome >>
       ELSE /\ pc' = [pc EXCEPT ![c] = "idle"]
            /\ outcome' = [outcome EXCEPT ![call[c]] = "failed"]
            /\ call' = [call EXCEPT ![c] = Nothing]
            /\ UNCHANGED attempt
  /\ UNCHANGED << request, result, wire, registers, held, applied, answers >>

\* The connection stands and the request is sent.
Send(c) ==
  /\ pc[c] = "connect"
  /\ pc' = [pc EXCEPT ![c] = "wait"]
  /\ Count
  /\ wire' = wire \cup {Connection(c)}
  /\ UNCHANGED << call, attempt, asked, errors, timeouts, replies, registers, held, applied,
                  answers >>

CannotConnect(c) ==
  /\ pc[c] = "connect"
  /\ Count
  /\ timeouts' \in {timeouts, timeouts + 1}
  /\ AttemptFails(c)
  /\ UNCHANGED replies

\* Mutant: the socket has no timeout.
TimesOut_never(c) == FALSE

\* No whole reply within MODBUS_TIMEOUT.
TimesOut(c) ==
  /\ pc[c] = "wait"
  /\ timeouts' = timeouts + 1
  /\ AttemptFails(c)
  /\ UNCHANGED << transaction, transactions, replies >>

\* The connection is reset, closed in the middle of the reply, or what comes in is no
\* reply to anything.
ConnectionEnds(c) ==
  /\ pc[c] = "wait"
  /\ AttemptFails(c)
  /\ UNCHANGED << transaction, transactions, timeouts, replies >>

\* Mutant: one socket is kept, so whatever comes in is taken for the answer.
Arrived_persistent(c) == replies

\* What arrives on the connection of this attempt.  Neither the id nor the address of
\* a reply is compared with the request.
Arrived(c) == {r \in replies : r.conn = Connection(c)}

\* The thread takes a reply: an exception fails the attempt, an answer ends the call.
Receive(c) ==
  /\ pc[c] = "wait"
  /\ \E r \in Arrived(c) :
       /\ replies' = replies \ {r}
       /\ UNCHANGED << transaction, transactions, timeouts >>
       /\ \/ ~ r.ok /\ AttemptFails(c)
          \/ /\ r.ok
             /\ pc' = [pc EXCEPT ![c] = "idle"]
             /\ call' = [call EXCEPT ![c] = Nothing]
             /\ outcome' = [outcome EXCEPT ![call[c]] = "answered"]
             /\ result' = [result EXCEPT ![call[c]] = r.value]
             /\ answers' = answers + 1
             /\ UNCHANGED << attempt, request, errors, wire, registers, held, applied >>

-----------------------------------------------------------------------------
\* The gateway and the machine.

\* Whoever still runs and asked for this address may be shown its new value.
Seen(a, v) ==
  [n \in Calls |-> IF outcome[n] = "running" /\ request[n].address = a
                     THEN held[n] \cup {v} ELSE held[n]]

\* The gateway's reply is sent or, the connection being gone, is not.
Reply(k, ok, v) == replies' \in {replies, replies \cup {[conn |-> k, ok |-> ok, value |-> v]}}

Leaves(k) == /\ k \in wire
             /\ wire' = wire \ {k}
             /\ UNCHANGED << threads, asked, bus, answers >>

\* A request is carried out; the client may have given up on it long ago.
AnswerRead(k) ==
  /\ Leaves(k) /\ request[k.call].func = "read"
  /\ Reply(k, TRUE, registers[request[k.call].address])
  /\ UNCHANGED << registers, held, applied >>

CarryOutWrite(k) ==
  /\ Leaves(k) /\ request[k.call].func = "write"
  /\ LET q == request[k.call]
     IN \/ /\ q.value \in RefusedValues
           /\ Reply(k, FALSE, Nothing)
           /\ UNCHANGED << registers, held, applied >>
        \/ /\ q.value \notin RefusedValues
           /\ registers' = [registers EXCEPT ![q.address] = q.value]
           /\ held' = Seen(q.address, q.value)
           /\ applied' = [applied EXCEPT ![k.call] = @ + 1]
           /\ Reply(k, TRUE, q.value)

\* The request never gets through, or is for a slave that is not there.
DropRequest(k) == Leaves(k) /\ UNCHANGED << replies, registers, held, applied >>

\* The machine measures something else.
MachineChanges(a) ==
  /\ \E v \in Values \ {registers[a]} :
       /\ registers' = [registers EXCEPT ![a] = v]
       /\ held' = Seen(a, v)
  /\ UNCHANGED << threads, asked, bus, wire, replies, applied, answers >>

Next ==
  \/ \E c \in Callers : \/ \E n \in Calls, q \in Requests : Begin(c, n, q)
                        \/ Send(c) \/ CannotConnect(c)
                        \/ TimesOut(c) \/ ConnectionEnds(c) \/ Receive(c)
  \/ \E k \in wire : AnswerRead(k) \/ CarryOutWrite(k) \/ DropRequest(k)
  \/ \E a \in Addresses : MachineChanges(a)

\* A thread goes on, and its socket has a timeout.
Fairness == \A c \in Callers : /\ WF_vars(Send(c) \/ CannotConnect(c))
                               /\ WF_vars(TimesOut(c))

Spec == Init /\ [][Next]_vars /\ Fairness

-----------------------------------------------------------------------------
TypeOK ==
  /\ pc \in [Callers -> {"idle", "connect", "wait"}]
  /\ call \in [Callers -> Calls \cup {Nothing}]
  /\ attempt \in [Callers -> 1 .. MODBUS_RETRIES]
  /\ request \in [Calls -> Requests \cup {Nothing}]
  /\ outcome \in [Calls -> {"none", "running", "answered", "failed"}]
  /\ result \in [Calls -> Values \cup {Nothing}]
  /\ transaction \in 0 .. ID_MODULUS - 1 /\ (transactions > 0 => transaction # 0)
  /\ transactions \in Nat /\ errors \in Nat /\ timeouts \in Nat /\ answers \in Nat
  /\ wire \subseteq Connections
  /\ replies \subseteq [conn : Connections, ok : BOOLEAN, value : Values \cup {Nothing}]
  /\ registers \in [Addresses -> Values]
  /\ held \in [Calls -> SUBSET Values]
  /\ applied \in [Calls -> Nat]

\* A read returns a value its own address had while the call ran: never the answer to
\* somebody else's request, nor a late answer to an earlier one, although no reply is
\* matched with its request (modbus_client.py:129-142, 16-23).
ReadIsCurrent ==
  \A n \in Calls : outcome[n] = "answered" /\ request[n].func = "read" => result[n] \in held[n]

\* However often it times out, a write reaches the machine at most once per call
\* (modbus_client.py:193-200): the write layer counts on that for the anti-legionella
\* start and for its sequences.
WrittenAtMostOnce == \A n \in Calls : applied[n] <= 1

\* A write that returns without an error was carried out, and what a read or a failed
\* write leaves behind is not mistaken for its echo (modbus_client.py:141-142).
AcknowledgedMeansApplied ==
  \A n \in Calls : outcome[n] = "answered" /\ request[n].func = "write" => applied[n] = 1

\* The counters behind the error rate lose nothing: each transaction is still waiting,
\* was answered, or was counted as one error (modbus_client.py:119-156).
CountersAddUp ==
  /\ transactions = answers + errors + Cardinality({c \in Callers : pc[c] = "wait"})
  /\ timeouts <= errors

\* Nobody holds a thread, and with it the coordinator's lock, for ever, whatever the
\* gateway does (modbus_client.py:122, 130).
EveryCallEnds == \A n \in Calls : outcome[n] = "running" ~> outcome[n] \in {"answered", "failed"}
=============================================================================
