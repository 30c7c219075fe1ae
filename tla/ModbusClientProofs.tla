------------------------- MODULE ModbusClientProofs -------------------------
(***************************************************************************)
(* Proofs about ModbusClient, for any number of threads, calls, addresses  *)
(* and values: what a read returns is current, and a write is carried out  *)
(* at most once, and exactly once when it is acknowledged.                 *)
(***************************************************************************)
EXTENDS ModbusClient, FiniteSetTheorems, TLAPS

IsRead(n) == request[n] \in Reads
IsWrite(n) == request[n] \in Writes

\* A thread that is not idle runs a call of its own.
CallsInv ==
  /\ \A c \in Callers : pc[c] # "idle" =>
       /\ call[c] \in Calls
       /\ outcome[call[c]] = "running"
       /\ (IsWrite(call[c]) => attempt[c] = 1)
  /\ \A c, d \in Callers : pc[c] # "idle" /\ pc[d] # "idle" /\ call[c] = call[d] => c = d
  /\ \A n \in Calls : outcome[n] # "none" => request[n] \in Requests

\* The call of connection k has begun, and opens no connection of that name again.
Opened(k) ==
  /\ outcome[k.call] # "none"
  /\ \A c \in Callers : pc[c] # "idle" /\ call[c] = k.call =>
       k.attempt <= attempt[c] /\ (pc[c] = "connect" => k.attempt < attempt[c])

ConnectionsInv ==
  /\ \A k \in wire : Opened(k)
  /\ \A r \in replies : Opened(r.conn)

\* Running reads have been shown the current value; whatever a thread may receive is
\* one its read was shown.
ReadsInv ==
  /\ \A n \in Calls : outcome[n] = "running" => registers[request[n].address] \in held[n]
  /\ \A c \in Callers : \A r \in replies :
       /\ pc[c] = "wait" /\ r.conn = Connection(c) /\ r.ok /\ IsRead(call[c])
       => r.value \in held[call[c]]
  /\ ReadIsCurrent

\* A write is pending and not carried out, or carried out once and pending no more.
WritesInv ==
  /\ \A n \in Calls : outcome[n] = "none" => applied[n] = 0
  /\ \A c \in Callers : pc[c] = "connect" /\ IsWrite(call[c]) => applied[call[c]] = 0
  /\ \A k \in wire : IsWrite(k.call) => k.attempt = 1 /\ applied[k.call] = 0
  /\ \A r \in replies : r.ok /\ IsWrite(r.conn.call) => applied[r.conn.call] = 1
  /\ AcknowledgedMeansApplied
  /\ WrittenAtMostOnce

IInv == TypeOK /\ CallsInv /\ ConnectionsInv /\ ReadsInv /\ WritesInv

-----------------------------------------------------------------------------
\* Reads and writes are different requests.
LEMMA Kinds ==
  ASSUME NEW q \in Requests
  PROVE  /\ q.func = "read" <=> q \in Reads
         /\ q.func = "write" <=> q \in Writes
         /\ ~ (q \in Reads /\ q \in Writes)
         /\ q.address \in Addresses
         /\ q \in Writes => q.value \in Values
  BY DEF Requests, Reads, Writes

\* The id stays within its range and is never 0 again (modbus_client.py:107-109).
LEMMA NextIdTyped ==
  ASSUME NEW t \in 0 .. ID_MODULUS - 1
  PROVE  NextId(t) \in 1 .. ID_MODULUS - 1
  BY ClientAssumption DEF NextId

\* A failed attempt keeps the types.
LEMMA FailTyped ==
  ASSUME TypeOK, CallsInv, NEW c \in Callers, pc[c] # "idle", AttemptFails(c)
  PROVE  /\ pc' \in [Callers -> {"idle", "connect", "wait"}]
         /\ call' \in [Callers -> Calls \cup {Nothing}]
         /\ attempt' \in [Callers -> 1 .. MODBUS_RETRIES]
         /\ outcome' \in [Calls -> {"none", "running", "answered", "failed"}]
         /\ errors' \in Nat
         /\ UNCHANGED << request, result, wire, registers, held, applied, answers >>
<1>1. attempt[c] \in 1 .. MODBUS_RETRIES /\ call[c] \in Calls /\ MODBUS_RETRIES \in Nat
  BY ClientAssumption DEF TypeOK, CallsInv
<1>2. CASE MayRetry(c)
  <2>1. attempt[c] + 1 \in 1 .. MODBUS_RETRIES
    BY <1>1, <1>2 DEF MayRetry
  <2> QED BY <1>2, <2>1 DEF AttemptFails, TypeOK
<1>3. CASE ~ MayRetry(c)
  BY <1>1, <1>3 DEF AttemptFails, TypeOK
<1> QED BY <1>2, <1>3

\* The values a running call has been shown stay values.
LEMMA SeenTyped ==
  ASSUME TypeOK, NEW a \in Addresses, NEW v \in Values
  PROVE  /\ Seen(a, v) \in [Calls -> SUBSET Values]
         /\ \A n \in Calls : held[n] \subseteq Seen(a, v)[n]
  BY DEF Seen, TypeOK

\* Every step keeps the types.
LEMMA TypeStep ==
  ASSUME TypeOK, CallsInv, ConnectionsInv, [Next]_vars
  PROVE  TypeOK'
<1> USE DEF TypeOK
<1>1. ASSUME NEW c \in Callers, NEW n \in Calls, NEW q \in Requests, Begin(c, n, q)
      PROVE  TypeOK'
  <2>1. registers[q.address] \in Values
    BY Kinds
  <2> QED BY <1>1, <2>1, ClientAssumption DEF Begin, bus
<1>2. ASSUME NEW c \in Callers, Send(c)
      PROVE  TypeOK'
  <2>1. Connection(c) \in Connections
    BY <1>2 DEF Send, CallsInv, Connection, Connections
  <2>2. NextId(transaction) \in 1 .. ID_MODULUS - 1
    BY NextIdTyped
  <2>3. /\ pc' \in [Callers -> {"idle", "connect", "wait"}]
        /\ wire' \subseteq Connections
        /\ UNCHANGED << call, attempt, asked, errors, timeouts, replies, registers, held, applied,
                        answers >>
    BY <1>2, <2>1 DEF Send
  <2>4. transaction' \in 1 .. ID_MODULUS - 1 /\ transactions' \in Nat
    BY <1>2, <2>2 DEF Send, Count
  <2>5. transaction' \in 0 .. ID_MODULUS - 1 /\ transaction' # 0
    BY <2>4, ClientAssumption
  <2> QED BY <2>3, <2>4, <2>5 DEF asked
<1>3. ASSUME NEW c \in Callers, CannotConnect(c)
      PROVE  TypeOK'
  <2>1. NextId(transaction) \in 1 .. ID_MODULUS - 1
    BY NextIdTyped
  <2>2. transaction' \in 1 .. ID_MODULUS - 1 /\ transactions' \in Nat
    BY <1>3, <2>1 DEF CannotConnect, Count
  <2>3. transaction' \in 0 .. ID_MODULUS - 1 /\ transaction' # 0
    BY <2>2, ClientAssumption
  <2>4. pc[c] # "idle" /\ AttemptFails(c) /\ replies' = replies /\ timeouts' \in Nat
    BY <1>3 DEF CannotConnect
  <2> QED BY <2>2, <2>3, <2>4, FailTyped
<1>4. ASSUME NEW c \in Callers, AttemptFails(c), pc[c] # "idle", replies' \subseteq replies,
             timeouts' \in Nat, UNCHANGED << transaction, transactions >>
      PROVE  TypeOK'
  BY <1>4, FailTyped
<1>5. ASSUME NEW c \in Callers, TimesOut(c)
      PROVE  TypeOK'
  BY <1>4, <1>5 DEF TimesOut
<1>6. ASSUME NEW c \in Callers, ConnectionEnds(c)
      PROVE  TypeOK'
  BY <1>4, <1>6 DEF ConnectionEnds
<1>7. ASSUME NEW c \in Callers, Receive(c)
      PROVE  TypeOK'
  <2>1. PICK r \in Arrived(c) :
          /\ replies' = replies \ {r}
          /\ UNCHANGED << transaction, transactions, timeouts >>
          /\ \/ ~ r.ok /\ AttemptFails(c)
             \/ /\ r.ok
                /\ pc' = [pc EXCEPT ![c] = "idle"]
                /\ call' = [call EXCEPT ![c] = Nothing]
                /\ outcome' = [outcome EXCEPT ![call[c]] = "answered"]
                /\ result' = [result EXCEPT ![call[c]] = r.value]
                /\ answers' = answers + 1
                /\ UNCHANGED << attempt, request, errors, wire, registers, held, applied >>
    BY <1>7 DEF Receive
  <2>2. pc[c] # "idle" /\ call[c] \in Calls /\ r.value \in Values \cup {Nothing}
    BY <1>7 DEF Receive, CallsInv, Arrived
  <2>3. CASE AttemptFails(c)
    BY <1>4, <2>1, <2>2, <2>3
  <2>4. CASE ~ AttemptFails(c)
    BY <2>1, <2>2, <2>4
  <2> QED BY <2>3, <2>4
<1>8. ASSUME NEW k \in wire
      PROVE  k.call \in Calls /\ request[k.call] \in Requests
  BY DEF Connections, ConnectionsInv, CallsInv, Opened
<1>9. ASSUME NEW k \in wire, NEW ok \in BOOLEAN, NEW v \in Values \cup {Nothing}, Reply(k, ok, v)
      PROVE  replies' \subseteq [conn : Connections, ok : BOOLEAN, value : Values \cup {Nothing}]
  BY <1>9 DEF Reply
<1>10. ASSUME NEW k \in wire, AnswerRead(k)
       PROVE  TypeOK'
  <2>1. registers[request[k.call].address] \in Values
    BY <1>8, Kinds
  <2>2. replies' \subseteq [conn : Connections, ok : BOOLEAN, value : Values \cup {Nothing}]
    BY <1>9, <1>10, <2>1 DEF AnswerRead
  <2> QED BY <1>10, <2>2 DEF AnswerRead, Leaves, threads, asked, bus
<1>11. ASSUME NEW k \in wire, CarryOutWrite(k)
       PROVE  TypeOK'
  <2> DEFINE q == request[k.call]
  <2>1. q \in Writes /\ q.address \in Addresses /\ q.value \in Values /\ k.call \in Calls
    BY <1>8, <1>11, Kinds DEF CarryOutWrite
  <2>2. replies' \subseteq [conn : Connections, ok : BOOLEAN, value : Values \cup {Nothing}]
    BY <1>9, <1>11, <2>1 DEF CarryOutWrite
  <2>3. /\ registers' \in [Addresses -> Values]
        /\ held' \in [Calls -> SUBSET Values]
        /\ applied' \in [Calls -> Nat]
    <3>1. CASE UNCHANGED << registers, held, applied >>
      BY <3>1
    <3>2. CASE /\ registers' = [registers EXCEPT ![q.address] = q.value]
               /\ held' = Seen(q.address, q.value)
               /\ applied' = [applied EXCEPT ![k.call] = @ + 1]
      <4>1. Seen(q.address, q.value) \in [Calls -> SUBSET Values]
        BY <2>1, SeenTyped
      <4>2. applied' \in [Calls -> Nat]
        BY <2>1, <3>2
      <4> HIDE DEF q
      <4> QED BY <2>1, <3>2, <4>1, <4>2
    <3> QED BY <1>11, <3>1, <3>2 DEF CarryOutWrite
  <2> QED BY <1>11, <2>2, <2>3 DEF CarryOutWrite, Leaves, threads, asked, bus
<1>12. ASSUME NEW k \in wire, DropRequest(k)
       PROVE  TypeOK'
  BY <1>12 DEF DropRequest, Leaves, threads, asked, bus
<1>13. ASSUME NEW a \in Addresses, MachineChanges(a)
       PROVE  TypeOK'
  BY <1>13, SeenTyped DEF MachineChanges, threads, asked, bus
<1>14. CASE UNCHANGED vars
  BY <1>14 DEF vars, threads, asked, bus
<1> QED
  BY <1>1, <1>2, <1>3, <1>5, <1>6, <1>7, <1>10, <1>11, <1>12, <1>13, <1>14 DEF Next

-----------------------------------------------------------------------------
\* A thread enters a call that nobody has made before.
LEMMA BeginStep ==
  ASSUME IInv, NEW c \in Callers, NEW n \in Calls, NEW q \in Requests, Begin(c, n, q)
  PROVE  CallsInv' /\ ConnectionsInv' /\ ReadsInv' /\ WritesInv'
<1> USE DEF TypeOK, Begin, bus
<1>0. TypeOK /\ CallsInv /\ ConnectionsInv /\ ReadsInv /\ WritesInv
  BY DEF IInv
<1>1. \A d \in Callers : d # c => pc'[d] = pc[d] /\ call'[d] = call[d] /\ attempt'[d] = attempt[d]
  BY <1>0
<1>2. \A i \in Calls : i # n => request'[i] = request[i] /\ outcome'[i] = outcome[i]
                                /\ held'[i] = held[i]
  BY <1>0
<1>3. /\ pc'[c] = "connect" /\ call'[c] = n /\ attempt'[c] = 1
      /\ request'[n] = q /\ outcome'[n] = "running" /\ held'[n] = {registers[q.address]}
      /\ outcome[n] = "none"
  BY <1>0
<1>4. \A d \in Callers : pc[d] # "idle" => call[d] \in Calls /\ call[d] # n
  BY <1>0, <1>3 DEF CallsInv
<1>5. CallsInv'
  BY <1>0, <1>1, <1>2, <1>3, <1>4 DEF CallsInv, IsWrite
<1>6. /\ \A k \in wire : k.call \in Calls /\ k.call # n
      /\ \A r \in replies : r.conn.call \in Calls /\ r.conn.call # n
  BY <1>0, <1>3 DEF ConnectionsInv, Opened, Connections
<1>7. ConnectionsInv'
  BY <1>0, <1>1, <1>2, <1>3, <1>6 DEF ConnectionsInv, Opened
<1>8. ReadsInv'
  <2>1. \A i \in Calls : outcome'[i] = "running" => registers'[request'[i].address] \in held'[i]
    BY <1>0, <1>2, <1>3 DEF ReadsInv
  <2>2. \A d \in Callers : pc'[d] = "wait" => d # c /\ call[d] # n /\ call[d] \in Calls
    BY <1>1, <1>3, <1>4, <1>0
  <2>3. \A d \in Callers : \A r \in replies :
          pc'[d] = "wait" /\ r.conn = Connection(d)' /\ r.ok /\ IsRead(call[d])'
          => r.value \in held'[call'[d]]
    <3>1. ASSUME NEW d \in Callers, NEW r \in replies, pc'[d] = "wait",
                 r.conn = Connection(d)', r.ok, IsRead(call[d])'
          PROVE  r.value \in held'[call'[d]]
      <4>1. d # c /\ call[d] # n /\ call[d] \in Calls
        BY <2>2, <3>1
      <4>2. pc[d] = "wait" /\ r.conn = Connection(d) /\ IsRead(call[d])
        BY <1>1, <1>2, <3>1, <4>1 DEF Connection, IsRead
      <4> QED BY <1>0, <1>1, <1>2, <3>1, <4>1, <4>2 DEF ReadsInv
    <3> QED BY <3>1
  <2>4. ReadIsCurrent'
    BY <1>0, <1>2, <1>3 DEF ReadsInv, ReadIsCurrent
  <2> QED BY <2>1, <2>3, <2>4 DEF ReadsInv
<1>9. WritesInv'
  BY <1>0, <1>1, <1>2, <1>3, <1>4, <1>6
     DEF WritesInv, IsWrite, AcknowledgedMeansApplied, WrittenAtMostOnce
<1> QED BY <1>5, <1>7, <1>8, <1>9

\* A request is sent on a connection that is new.
LEMMA SendStep ==
  ASSUME IInv, NEW c \in Callers, Send(c)
  PROVE  CallsInv' /\ ConnectionsInv' /\ ReadsInv' /\ WritesInv'
<1> USE DEF TypeOK, Send, asked
<1>0. TypeOK /\ CallsInv /\ ConnectionsInv /\ ReadsInv /\ WritesInv
  BY DEF IInv
<1>1. /\ pc[c] = "connect" /\ pc'[c] = "wait"
      /\ \A d \in Callers : d # c => pc'[d] = pc[d]
      /\ wire' = wire \cup {Connection(c)}
      /\ UNCHANGED << call, attempt, asked, replies, registers, held, applied >>
  BY <1>0
<1>2. CallsInv'
  BY <1>0, <1>1 DEF CallsInv, IsWrite
<1>3. \A d \in Callers : pc'[d] # "idle" => pc[d] # "idle"
  BY <1>1
<1>4. ConnectionsInv'
  <2>1. \A k : Opened(k) => Opened(k)'
    BY <1>1, <1>3 DEF Opened
  <2>2. \A k \in {Connection(c)} : Opened(k)'
    BY <1>0, <1>1, <1>3 DEF Opened, Connection, CallsInv
  <2>3. (\A k \in wire' : Opened(k)') /\ (\A r \in replies' : Opened(r.conn)')
    BY <1>0, <1>1, <2>1, <2>2 DEF ConnectionsInv
  <2> QED BY <2>3 DEF ConnectionsInv
<1>5. ReadsInv'
  <2>1. \A r \in replies : r.conn # Connection(c)
    <3>1. ASSUME NEW r \in replies, r.conn = Connection(c)
          PROVE  FALSE
      <4>1. attempt[c] < attempt[c]
        BY <1>0, <1>1, <3>1 DEF ConnectionsInv, Opened, Connection
      <4> QED BY <1>0, <4>1, ClientAssumption
    <3> QED BY <3>1
  <2>2. \A d \in Callers : Connection(d)' = Connection(d)
    BY <1>1 DEF Connection
  <2> QED BY <1>0, <1>1, <2>1, <2>2 DEF ReadsInv, ReadIsCurrent, IsRead
<1>6. WritesInv'
  BY <1>0, <1>1 DEF WritesInv, CallsInv, IsWrite, Connection, AcknowledgedMeansApplied,
                    WrittenAtMostOnce
<1> QED BY <1>2, <1>4, <1>5, <1>6

\* An attempt fails, whatever the reason.
LEMMA FailStep ==
  ASSUME IInv, NEW c \in Callers, pc[c] # "idle", AttemptFails(c), replies' \subseteq replies
  PROVE  CallsInv' /\ ConnectionsInv' /\ ReadsInv' /\ WritesInv'
<1> USE DEF TypeOK
<1>0. TypeOK /\ CallsInv /\ ConnectionsInv /\ ReadsInv /\ WritesInv
  BY DEF IInv
<1>1. /\ call[c] \in Calls /\ outcome[call[c]] = "running" /\ request[call[c]] \in Requests
      /\ attempt[c] \in 1 .. MODBUS_RETRIES /\ MODBUS_RETRIES \in Nat
  BY <1>0, ClientAssumption DEF CallsInv
<1>2. UNCHANGED << request, result, wire, registers, held, applied, answers >>
  BY DEF AttemptFails
<1>3. CASE MayRetry(c)
  <2>1. /\ UNCHANGED << call, outcome >>
        /\ pc'[c] = "connect" /\ attempt'[c] = attempt[c] + 1
        /\ \A d \in Callers : d # c => pc'[d] = pc[d] /\ attempt'[d] = attempt[d]
    BY <1>0, <1>3 DEF AttemptFails
  <2>2. ~ IsWrite(call[c])
    BY <1>1, <1>3, Kinds DEF MayRetry, IsWrite
  <2>3. CallsInv'
    BY <1>0, <1>2, <2>1, <2>2 DEF CallsInv, IsWrite
  <2>4. \A k \in Connections : Opened(k) => Opened(k)'
    BY <1>0, <1>1, <2>1 DEF Opened, Connections
  <2>5. ConnectionsInv'
    BY <1>0, <1>2, <2>4 DEF ConnectionsInv
  <2>6. ReadsInv'
    <3>1. \A d \in Callers : pc'[d] = "wait" => pc[d] = "wait" /\ Connection(d)' = Connection(d)
      BY <2>1 DEF Connection
    <3> QED BY <1>0, <1>2, <2>1, <3>1 DEF ReadsInv, ReadIsCurrent, IsRead
  <2>7. WritesInv'
    BY <1>0, <1>2, <2>1, <2>2
       DEF WritesInv, IsWrite, AcknowledgedMeansApplied, WrittenAtMostOnce
  <2> QED BY <2>3, <2>5, <2>6, <2>7
<1>4. CASE ~ MayRetry(c)
  <2>1. /\ pc'[c] = "idle" /\ UNCHANGED attempt
        /\ \A d \in Callers : d # c => pc'[d] = pc[d] /\ call'[d] = call[d]
        /\ outcome'[call[c]] = "failed"
        /\ \A i \in Calls : i # call[c] => outcome'[i] = outcome[i]
    BY <1>0, <1>1, <1>4 DEF AttemptFails
  <2>2. \A d \in Callers : pc'[d] # "idle" => d # c /\ pc[d] # "idle" /\ call[d] # call[c]
                                             /\ call[d] \in Calls
    BY <1>0, <2>1 DEF CallsInv
  <2>3. CallsInv'
    BY <1>0, <1>1, <1>2, <2>1, <2>2 DEF CallsInv, IsWrite
  <2>4. \A k \in Connections : Opened(k) => Opened(k)'
    BY <1>0, <1>1, <2>1, <2>2 DEF Opened, Connections
  <2>5. ConnectionsInv'
    BY <1>0, <1>2, <2>4 DEF ConnectionsInv
  <2>6. ReadsInv'
    <3>1. \A d \in Callers : pc'[d] = "wait" => /\ pc[d] = "wait" /\ call'[d] = call[d]
                                                /\ Connection(d)' = Connection(d)
      BY <2>1 DEF Connection
    <3> QED BY <1>0, <1>1, <1>2, <2>1, <3>1 DEF ReadsInv, ReadIsCurrent, IsRead
  <2>7. WritesInv'
    BY <1>0, <1>1, <1>2, <2>1, <2>2
       DEF WritesInv, IsWrite, AcknowledgedMeansApplied, WrittenAtMostOnce
  <2> QED BY <2>3, <2>5, <2>6, <2>7
<1> QED BY <1>3, <1>4

\* A thread gets the answer to its own request.
LEMMA AnswerStep ==
  ASSUME IInv, NEW c \in Callers, pc[c] = "wait", NEW r \in Arrived(c), r.ok,
         replies' = replies \ {r},
         pc' = [pc EXCEPT ![c] = "idle"],
         call' = [call EXCEPT ![c] = Nothing],
         outcome' = [outcome EXCEPT ![call[c]] = "answered"],
         result' = [result EXCEPT ![call[c]] = r.value],
         UNCHANGED << attempt, request, errors, wire, registers, held, applied >>
  PROVE  CallsInv' /\ ConnectionsInv' /\ ReadsInv' /\ WritesInv'
<1> USE DEF TypeOK
<1>0. TypeOK /\ CallsInv /\ ConnectionsInv /\ ReadsInv /\ WritesInv
  BY DEF IInv
<1>1. call[c] \in Calls /\ outcome[call[c]] = "running" /\ request[call[c]] \in Requests
  BY <1>0 DEF CallsInv
<1>2. r \in replies /\ r.conn = Connection(c) /\ r.conn.call = call[c]
  BY DEF Arrived, Connection
<1>3. /\ pc'[c] = "idle"
      /\ \A d \in Callers : d # c => pc'[d] = pc[d] /\ call'[d] = call[d]
      /\ outcome'[call[c]] = "answered" /\ result'[call[c]] = r.value
      /\ \A i \in Calls : i # call[c] => outcome'[i] = outcome[i] /\ result'[i] = result[i]
  BY <1>0, <1>1
<1>4. \A d \in Callers : pc'[d] # "idle" => d # c /\ pc[d] # "idle" /\ call[d] # call[c]
                                           /\ call[d] \in Calls
  BY <1>0, <1>3 DEF CallsInv
<1>5. CallsInv'
  BY <1>0, <1>1, <1>3, <1>4 DEF CallsInv, IsWrite
<1>6. \A k \in Connections : Opened(k) => Opened(k)'
  BY <1>0, <1>1, <1>3, <1>4 DEF Opened, Connections
<1>7. ConnectionsInv'
  BY <1>0, <1>6 DEF ConnectionsInv
<1>8. ReadsInv'
  <2>1. \A d \in Callers : pc'[d] = "wait" => /\ pc[d] = "wait" /\ call'[d] = call[d]
                                              /\ Connection(d)' = Connection(d)
    BY <1>3 DEF Connection
  <2>2. ReadIsCurrent'
    <3>1. IsRead(call[c]) => r.value \in held[call[c]]
      BY <1>0, <1>2 DEF ReadsInv
    <3>2. \A i \in Calls : outcome[i] # "none" /\ request[i].func = "read" => IsRead(i)
      BY <1>0, Kinds DEF CallsInv, IsRead
    <3> QED BY <1>0, <1>1, <1>3, <3>1, <3>2 DEF ReadsInv, ReadIsCurrent
  <2> QED BY <1>0, <1>1, <1>3, <2>1, <2>2 DEF ReadsInv, IsRead
<1>9. WritesInv'
  <2>1. IsWrite(call[c]) => applied[call[c]] = 1
    BY <1>0, <1>2 DEF WritesInv
  <2>2. request[call[c]].func = "write" => IsWrite(call[c])
    BY <1>1, Kinds DEF IsWrite
  <2>3. AcknowledgedMeansApplied'
    BY <1>0, <1>3, <2>1, <2>2 DEF WritesInv, AcknowledgedMeansApplied
  <2> QED BY <1>0, <1>3, <1>4, <2>3 DEF WritesInv, IsWrite, WrittenAtMostOnce
<1> QED BY <1>5, <1>7, <1>8, <1>9

\* The gateway reads the register for a request.
LEMMA ReadStep ==
  ASSUME IInv, NEW k \in wire, AnswerRead(k)
  PROVE  CallsInv' /\ ConnectionsInv' /\ ReadsInv' /\ WritesInv'
<1> USE DEF TypeOK
<1>0. TypeOK /\ CallsInv /\ ConnectionsInv /\ ReadsInv /\ WritesInv
  BY DEF IInv
<1> DEFINE new == [conn |-> k, ok |-> TRUE, value |-> registers[request[k.call].address]]
<1>1. /\ UNCHANGED << pc, call, attempt, request, outcome, result, registers, held, applied >>
      /\ wire' \subseteq wire /\ replies' \subseteq replies \cup {new}
  BY DEF AnswerRead, Leaves, threads, asked, Reply
<1>2. k.call \in Calls /\ Opened(k) /\ request[k.call] \in Reads
  BY <1>0, Kinds DEF AnswerRead, ConnectionsInv, CallsInv, Opened, Connections
<1>3. CallsInv'
  BY <1>0, <1>1 DEF CallsInv, IsWrite
<1>4. new.conn = k /\ new.ok /\ new.value = registers[request[k.call].address]
  OBVIOUS
<1> HIDE DEF new
<1>5. ConnectionsInv'
  BY <1>0, <1>1, <1>2, <1>4 DEF ConnectionsInv, Opened
<1>6. ReadsInv'
  <2>1. \A d \in Callers : Connection(d)' = Connection(d)
    BY <1>1 DEF Connection
  <2>2. \A d \in Callers : pc[d] = "wait" /\ k = Connection(d) => new.value \in held[call[d]]
    BY <1>0, <1>4 DEF ReadsInv, CallsInv, Connection
  <2> QED BY <1>0, <1>1, <1>4, <2>1, <2>2 DEF ReadsInv, ReadIsCurrent, IsRead
<1>7. WritesInv'
  <2>1. ~ IsWrite(k.call)
    BY <1>2, Kinds DEF IsWrite, Requests
  <2> QED BY <1>0, <1>1, <1>4, <2>1
          DEF WritesInv, IsWrite, AcknowledgedMeansApplied, WrittenAtMostOnce
<1> QED BY <1>3, <1>5, <1>6, <1>7

\* The machine gets another value: whoever reads that address has been shown it.
LEMMA ShownStep ==
  ASSUME IInv, NEW a \in Addresses, NEW v \in Values,
         registers' = [registers EXCEPT ![a] = v], held' = Seen(a, v),
         UNCHANGED << pc, call, attempt, request, outcome, result >>,
         \A r \in replies' : r \in replies \/ IsWrite(r.conn.call)
  PROVE  ReadsInv'
<1> USE DEF TypeOK
<1>0. TypeOK /\ CallsInv /\ ReadsInv
  BY DEF IInv
<1>1. /\ \A n \in Calls : held[n] \subseteq held'[n]
      /\ \A n \in Calls : outcome[n] = "running" /\ request[n].address = a => v \in held'[n]
  BY <1>0 DEF Seen
<1>2. \A n \in Calls : outcome'[n] = "running" => registers'[request'[n].address] \in held'[n]
  <2>1. \A n \in Calls : outcome[n] = "running" => request[n].address \in Addresses
    BY <1>0, Kinds DEF CallsInv
  <2> QED BY <1>0, <1>1, <2>1 DEF ReadsInv
<1>3. \A d \in Callers : Connection(d)' = Connection(d)
  BY DEF Connection
<1>4. \A d \in Callers : pc[d] = "wait" => call[d] \in Calls
  BY <1>0 DEF CallsInv
<1>5. \A n \in Calls : ~ (IsRead(n) /\ IsWrite(n))
  BY Kinds DEF IsRead, IsWrite, Requests
<1>6. \A d \in Callers : \A r \in replies' :
        pc'[d] = "wait" /\ r.conn = Connection(d)' /\ r.ok /\ IsRead(call[d])'
        => r.value \in held'[call'[d]]
  BY <1>0, <1>1, <1>3, <1>4, <1>5 DEF ReadsInv, IsRead, Connection
<1>7. ReadIsCurrent'
  BY <1>0, <1>1 DEF ReadsInv, ReadIsCurrent
<1> QED BY <1>2, <1>6, <1>7 DEF ReadsInv

\* The machine carries a write out, or refuses it.
LEMMA WriteStep ==
  ASSUME IInv, NEW k \in wire, CarryOutWrite(k)
  PROVE  CallsInv' /\ ConnectionsInv' /\ ReadsInv' /\ WritesInv'
<1> USE DEF TypeOK
<1>0. TypeOK /\ CallsInv /\ ConnectionsInv /\ ReadsInv /\ WritesInv
  BY DEF IInv
<1> DEFINE q == request[k.call]
<1>1. /\ UNCHANGED << pc, call, attempt, request, outcome, result >>
      /\ wire' = wire \ {k} /\ k \in Connections
  BY <1>0 DEF CarryOutWrite, Leaves, threads, asked
<1>2. k.call \in Calls /\ Opened(k) /\ q \in Writes /\ q.address \in Addresses /\ q.value \in Values
  BY <1>0, Kinds DEF CarryOutWrite, ConnectionsInv, CallsInv, Opened, Connections
<1>3. CallsInv'
  BY <1>0, <1>1 DEF CallsInv, IsWrite
<1>4. \A r \in replies' : r \in replies \/ (r.conn = k /\ (r.ok => ~ UNCHANGED applied))
  BY <1>0, <1>2 DEF CarryOutWrite, Reply
<1>5. ConnectionsInv'
  BY <1>0, <1>1, <1>2, <1>4 DEF ConnectionsInv, Opened
<1>6. IsWrite(k.call) /\ k.attempt = 1 /\ applied[k.call] = 0
  BY <1>0, <1>2 DEF WritesInv, IsWrite
<1>7. \A r \in replies' : r \in replies \/ IsWrite(r.conn.call)
  BY <1>4, <1>6
<1>8. CASE q.value \in RefusedValues
  <2>1. UNCHANGED << registers, held, applied >>
    BY <1>8 DEF CarryOutWrite
  <2>2. \A r \in replies' : r \in replies \/ (r.conn = k /\ ~ r.ok)
    BY <1>4, <2>1
  <2>3. ReadsInv'
    BY <1>0, <1>1, <2>1, <2>2 DEF ReadsInv, ReadIsCurrent, IsRead, Connection
  <2>4. WritesInv'
    BY <1>0, <1>1, <2>1, <2>2 DEF WritesInv, IsWrite, AcknowledgedMeansApplied, WrittenAtMostOnce
  <2> QED BY <1>3, <1>5, <2>3, <2>4
<1>9. CASE q.value \notin RefusedValues
  <2>1. /\ registers' = [registers EXCEPT ![q.address] = q.value]
        /\ held' = Seen(q.address, q.value)
        /\ applied' = [applied EXCEPT ![k.call] = @ + 1]
    BY <1>9 DEF CarryOutWrite
  <2>2. ReadsInv'
    BY <1>1, <1>2, <1>7, <2>1, ShownStep
  <2>3. applied'[k.call] = 1 /\ \A n \in Calls : n # k.call => applied'[n] = applied[n]
    BY <1>0, <1>2, <1>6, <2>1
  <2>4. outcome[k.call] # "none"
    BY <1>2 DEF Opened
  <2>5. \A d \in Callers : pc[d] = "connect" => call[d] # k.call
    BY <1>0, <1>2, <1>6, ClientAssumption DEF CallsInv, Opened
  <2>6. \A i \in wire' : IsWrite(i.call) => i.call # k.call
    <3>1. \A i \in wire : i.call = k.call /\ i.attempt = k.attempt => i = k
      BY <1>0, <1>1 DEF Connections
    <3> QED BY <1>0, <1>1, <1>6, <3>1 DEF WritesInv
  <2>7. /\ \A n \in Calls : outcome'[n] = "none" => applied'[n] = 0
        /\ \A c \in Callers : pc'[c] = "connect" /\ IsWrite(call[c])' => applied'[call'[c]] = 0
        /\ \A i \in wire' : IsWrite(i.call)' => i.attempt = 1 /\ applied'[i.call] = 0
    <3>1. \A c \in Callers : pc[c] = "connect" => call[c] \in Calls
      BY <1>0 DEF CallsInv
    <3>2. \A i \in wire : i.call \in Calls
      BY <1>0 DEF Connections
    <3> HIDE DEF q
    <3> QED BY <1>0, <1>1, <2>3, <2>4, <2>5, <2>6, <3>1, <3>2 DEF WritesInv, IsWrite
  <2>8. \A r \in replies' : r.ok /\ IsWrite(r.conn.call)' => applied'[r.conn.call] = 1
    <3>1. \A r \in replies : r.conn.call \in Calls
      BY <1>0 DEF Connections
    <3> HIDE DEF q
    <3> QED BY <1>0, <1>1, <1>4, <2>3, <3>1 DEF WritesInv, IsWrite
  <2>9. AcknowledgedMeansApplied' /\ WrittenAtMostOnce'
    <3> HIDE DEF q
    <3> QED BY <1>0, <1>1, <2>3 DEF WritesInv, AcknowledgedMeansApplied, WrittenAtMostOnce
  <2> QED BY <1>3, <1>5, <2>2, <2>7, <2>8, <2>9 DEF WritesInv
<1> QED BY <1>8, <1>9

-----------------------------------------------------------------------------
\* The invariant holds at the start and through every step.
LEMMA InvInit == Init => IInv
<1> SUFFICES ASSUME Init PROVE IInv
  OBVIOUS
<1>1. TypeOK
  BY ClientAssumption DEF Init, TypeOK
<1>2. CallsInv /\ ConnectionsInv /\ ReadsInv /\ WritesInv
  BY DEF Init, CallsInv, ConnectionsInv, ReadsInv, WritesInv, ReadIsCurrent,
         AcknowledgedMeansApplied, WrittenAtMostOnce
<1> QED BY <1>1, <1>2 DEF IInv

LEMMA InvStep == IInv /\ [Next]_vars => IInv'
<1> SUFFICES ASSUME IInv, [Next]_vars PROVE IInv'
  OBVIOUS
<1>1. TypeOK'
  BY TypeStep DEF IInv
<1>2. ASSUME NEW c \in Callers, NEW n \in Calls, NEW q \in Requests, Begin(c, n, q)
      PROVE  CallsInv' /\ ConnectionsInv' /\ ReadsInv' /\ WritesInv'
  BY <1>2, BeginStep
<1>3. ASSUME NEW c \in Callers, Send(c)
      PROVE  CallsInv' /\ ConnectionsInv' /\ ReadsInv' /\ WritesInv'
  BY <1>3, SendStep
<1>4. ASSUME NEW c \in Callers, CannotConnect(c) \/ TimesOut(c) \/ ConnectionEnds(c)
      PROVE  CallsInv' /\ ConnectionsInv' /\ ReadsInv' /\ WritesInv'
  <2>1. pc[c] # "idle" /\ AttemptFails(c) /\ replies' \subseteq replies
    BY <1>4 DEF CannotConnect, TimesOut, ConnectionEnds
  <2> QED BY <2>1, FailStep
<1>5. ASSUME NEW c \in Callers, Receive(c)
      PROVE  CallsInv' /\ ConnectionsInv' /\ ReadsInv' /\ WritesInv'
  <2>1. pc[c] = "wait"
    BY <1>5 DEF Receive
  <2>2. PICK r \in Arrived(c) :
          /\ replies' = replies \ {r}
          /\ \/ AttemptFails(c)
             \/ /\ r.ok
                /\ pc' = [pc EXCEPT ![c] = "idle"]
                /\ call' = [call EXCEPT ![c] = Nothing]
                /\ outcome' = [outcome EXCEPT ![call[c]] = "answered"]
                /\ result' = [result EXCEPT ![call[c]] = r.value]
                /\ UNCHANGED << attempt, request, errors, wire, registers, held, applied >>
    BY <1>5 DEF Receive
  <2>3. CASE AttemptFails(c)
    BY <2>1, <2>2, <2>3, FailStep
  <2>4. CASE ~ AttemptFails(c)
    BY <2>1, <2>2, <2>4, AnswerStep
  <2> QED BY <2>3, <2>4
<1>6. ASSUME NEW k \in wire, AnswerRead(k)
      PROVE  CallsInv' /\ ConnectionsInv' /\ ReadsInv' /\ WritesInv'
  BY <1>6, ReadStep
<1>7. ASSUME NEW k \in wire, CarryOutWrite(k)
      PROVE  CallsInv' /\ ConnectionsInv' /\ ReadsInv' /\ WritesInv'
  BY <1>7, WriteStep
<1>8. ASSUME UNCHANGED << pc, call, attempt, request, outcome, result, replies, registers, held,
                          applied >>,
             wire' \subseteq wire
      PROVE  CallsInv' /\ ConnectionsInv' /\ ReadsInv' /\ WritesInv'
  BY <1>8 DEF IInv, CallsInv, ConnectionsInv, Opened, ReadsInv, WritesInv, IsRead, IsWrite,
              Connection, ReadIsCurrent, AcknowledgedMeansApplied, WrittenAtMostOnce
<1>9. ASSUME NEW k \in wire, DropRequest(k)
      PROVE  CallsInv' /\ ConnectionsInv' /\ ReadsInv' /\ WritesInv'
  BY <1>8, <1>9 DEF DropRequest, Leaves, threads, asked
<1>10. ASSUME NEW a \in Addresses, MachineChanges(a)
       PROVE  CallsInv' /\ ConnectionsInv' /\ ReadsInv' /\ WritesInv'
  <2>1. PICK v \in Values : registers' = [registers EXCEPT ![a] = v] /\ held' = Seen(a, v)
    BY <1>10 DEF MachineChanges
  <2>2. UNCHANGED << pc, call, attempt, request, outcome, result, wire, replies, applied >>
    BY <1>10 DEF MachineChanges, threads, asked
  <2>3. ReadsInv'
    BY <2>1, <2>2, ShownStep
  <2>4. CallsInv' /\ ConnectionsInv' /\ WritesInv'
    BY <2>2 DEF IInv, CallsInv, ConnectionsInv, Opened, WritesInv, IsWrite,
                AcknowledgedMeansApplied, WrittenAtMostOnce
  <2> QED BY <2>3, <2>4
<1>11. ASSUME UNCHANGED vars
       PROVE  CallsInv' /\ ConnectionsInv' /\ ReadsInv' /\ WritesInv'
  BY <1>8, <1>11 DEF vars, threads, asked
<1>12. CallsInv' /\ ConnectionsInv' /\ ReadsInv' /\ WritesInv'
  BY <1>2, <1>3, <1>4, <1>5, <1>6, <1>7, <1>9, <1>10, <1>11 DEF Next
<1> QED BY <1>1, <1>12 DEF IInv

\* In every behaviour the invariant holds.
THEOREM ClientInvariant == Spec => []IInv
<1> QED BY InvInit, InvStep, PTL DEF Spec

\* A read never returns the answer to another request, nor a late one
\* (modbus_client.py:116-191).
THEOREM ReadsAreCurrent == Spec => []ReadIsCurrent
<1>1. IInv => ReadIsCurrent
  BY DEF IInv, ReadsInv
<1> QED BY <1>1, ClientInvariant, PTL

\* A write is carried out at most once, however often its answer is lost or its
\* connection is made anew (modbus_client.py:193-200).
THEOREM WritesAreCarriedOutOnce == Spec => []WrittenAtMostOnce
<1>1. IInv => WrittenAtMostOnce
  BY DEF IInv, WritesInv
<1> QED BY <1>1, ClientInvariant, PTL

\* A write that returned has been carried out: no stale answer passes for its
\* acknowledgement (modbus_client.py:116-159, 193-200).
THEOREM AcknowledgedIsCarriedOut == Spec => []AcknowledgedMeansApplied
<1>1. IInv => AcknowledgedMeansApplied
  BY DEF IInv, WritesInv
<1> QED BY <1>1, ClientInvariant, PTL

-----------------------------------------------------------------------------
\* The counters.
Waiting == {c \in Callers : pc[c] = "wait"}

CountersInv == TypeOK /\ CallsInv /\ ConnectionsInv /\ CountersAddUp

LEMMA WaitingFinite == IsFiniteSet(Waiting) /\ Cardinality(Waiting) \in Nat
BY ClientAssumption, FS_Subset, FS_CardinalityType DEF Waiting

\* A thread starts to wait: one more.
LEMMA OneMore ==
  ASSUME TypeOK, NEW c \in Callers, pc[c] # "wait", pc' = [pc EXCEPT ![c] = "wait"]
  PROVE  Cardinality(Waiting') = Cardinality(Waiting) + 1
<1>1. Waiting' = Waiting \cup {c} /\ c \notin Waiting
  BY DEF Waiting, TypeOK
<1> QED BY <1>1, WaitingFinite, FS_AddElement

\* A thread stops waiting: one less.
LEMMA OneLess ==
  ASSUME TypeOK, NEW c \in Callers, pc[c] = "wait", NEW to, to # "wait",
         pc' = [pc EXCEPT ![c] = to]
  PROVE  Cardinality(Waiting') = Cardinality(Waiting) - 1
<1>1. Waiting' = Waiting \ {c} /\ c \in Waiting
  BY DEF Waiting, TypeOK
<1> QED BY <1>1, WaitingFinite, FS_RemoveElement

\* Neither: the number stays.
LEMMA SameNumber ==
  ASSUME TypeOK, NEW c \in Callers, pc[c] # "wait", NEW to, to # "wait",
         pc' = [pc EXCEPT ![c] = to]
  PROVE  Cardinality(Waiting') = Cardinality(Waiting)
<1>1. Waiting' = Waiting
  BY DEF Waiting, TypeOK
<1> QED BY <1>1

\* A failed attempt is one error, and leaves its thread not waiting.
LEMMA FailCounts ==
  ASSUME NEW c \in Callers, AttemptFails(c)
  PROVE  /\ errors' = errors + 1 /\ answers' = answers
         /\ \E to \in {"connect", "idle"} : pc' = [pc EXCEPT ![c] = to]
  BY DEF AttemptFails

LEMMA CountersStep == CountersInv /\ TypeOK' /\ [Next]_vars => CountersAddUp'
<1> SUFFICES ASSUME CountersInv, TypeOK', [Next]_vars PROVE CountersAddUp'
  OBVIOUS
<1>0. /\ TypeOK /\ timeouts <= errors
      /\ transactions = answers + errors + Cardinality(Waiting)
      /\ transactions \in Nat /\ answers \in Nat /\ errors \in Nat /\ timeouts \in Nat
      /\ Cardinality(Waiting) \in Nat
  BY WaitingFinite DEF CountersInv, CountersAddUp, TypeOK, Waiting
<1>1. CountersAddUp' <=> /\ transactions' = answers' + errors' + Cardinality(Waiting')
                         /\ timeouts' <= errors'
  BY DEF CountersAddUp, Waiting
<1>2. ASSUME pc' = pc, UNCHANGED << transactions, answers, errors, timeouts >>
      PROVE  CountersAddUp'
  <2>1. Waiting' = Waiting
    BY <1>2 DEF Waiting
  <2> QED BY <1>0, <1>1, <1>2, <2>1
<1>3. ASSUME NEW c \in Callers, NEW n \in Calls, NEW q \in Requests, Begin(c, n, q)
      PROVE  CountersAddUp'
  <2>1. /\ pc[c] # "wait" /\ pc' = [pc EXCEPT ![c] = "connect"]
        /\ UNCHANGED << transactions, answers, errors, timeouts >>
    BY <1>3 DEF Begin, bus
  <2>2. Cardinality(Waiting') = Cardinality(Waiting)
    BY <1>0, <2>1, SameNumber
  <2> QED BY <1>0, <1>1, <2>1, <2>2
<1>4. ASSUME NEW c \in Callers, Send(c)
      PROVE  CountersAddUp'
  <2>1. /\ pc[c] # "wait" /\ pc' = [pc EXCEPT ![c] = "wait"]
        /\ transactions' = transactions + 1
        /\ UNCHANGED << answers, errors, timeouts >>
    BY <1>4 DEF Send, Count
  <2>2. Cardinality(Waiting') = Cardinality(Waiting) + 1
    BY <1>0, <2>1, OneMore
  <2> QED BY <1>0, <1>1, <2>1, <2>2
<1>5. ASSUME NEW c \in Callers, CannotConnect(c)
      PROVE  CountersAddUp'
  <2>1. /\ pc[c] # "wait" /\ AttemptFails(c) /\ transactions' = transactions + 1
        /\ timeouts' \in {timeouts, timeouts + 1}
    BY <1>5 DEF CannotConnect, Count
  <2>2. PICK to \in {"connect", "idle"} : pc' = [pc EXCEPT ![c] = to]
    BY <2>1, FailCounts
  <2>3. Cardinality(Waiting') = Cardinality(Waiting)
    BY <1>0, <2>1, <2>2, SameNumber
  <2>4. errors' = errors + 1 /\ answers' = answers
    BY <2>1, FailCounts
  <2> QED BY <1>0, <1>1, <2>1, <2>3, <2>4
<1>6. ASSUME NEW c \in Callers, pc[c] = "wait", AttemptFails(c), transactions' = transactions,
             timeouts' \in {timeouts, timeouts + 1}
      PROVE  CountersAddUp'
  <2>1. PICK to \in {"connect", "idle"} : pc' = [pc EXCEPT ![c] = to]
    BY <1>6, FailCounts
  <2>2. Cardinality(Waiting') = Cardinality(Waiting) - 1
    BY <1>0, <1>6, <2>1, OneLess
  <2>3. errors' = errors + 1 /\ answers' = answers
    BY <1>6, FailCounts
  <2> QED BY <1>0, <1>1, <1>6, <2>2, <2>3
<1>7. ASSUME NEW c \in Callers, TimesOut(c) \/ ConnectionEnds(c)
      PROVE  CountersAddUp'
  BY <1>6, <1>7 DEF TimesOut, ConnectionEnds
<1>8. ASSUME NEW c \in Callers, Receive(c)
      PROVE  CountersAddUp'
  <2>1. /\ pc[c] = "wait" /\ UNCHANGED << transactions, timeouts >>
        /\ \/ AttemptFails(c)
           \/ /\ pc' = [pc EXCEPT ![c] = "idle"]
              /\ answers' = answers + 1 /\ errors' = errors
    BY <1>8 DEF Receive
  <2>2. CASE AttemptFails(c)
    BY <1>6, <2>1, <2>2
  <2>3. CASE ~ AttemptFails(c)
    <3>1. Cardinality(Waiting') = Cardinality(Waiting) - 1
      BY <1>0, <2>1, <2>3, OneLess
    <3> QED BY <1>0, <1>1, <2>1, <2>3, <3>1
  <2> QED BY <2>2, <2>3
<1>9. ASSUME NEW k \in wire, AnswerRead(k) \/ CarryOutWrite(k) \/ DropRequest(k)
      PROVE  CountersAddUp'
  BY <1>2, <1>9 DEF AnswerRead, CarryOutWrite, DropRequest, Leaves, threads, bus
<1>10. ASSUME NEW a \in Addresses, MachineChanges(a)
       PROVE  CountersAddUp'
  BY <1>2, <1>10 DEF MachineChanges, threads, bus
<1>11. ASSUME UNCHANGED vars
       PROVE  CountersAddUp'
  BY <1>2, <1>11 DEF vars, threads, bus
<1> QED
  BY <1>3, <1>4, <1>5, <1>7, <1>8, <1>9, <1>10, <1>11 DEF Next

\* Every transaction is waiting, answered or counted as an error
\* (modbus_client.py:116-159).
THEOREM NoTransactionIsLost == Spec => []CountersAddUp
<1>1. Init => CountersAddUp
  <2>1. Init => Waiting = {}
    BY DEF Init, Waiting
  <2> QED BY <2>1, FS_EmptySet DEF Init, CountersAddUp, Waiting
<1>2. IInv /\ CountersAddUp => CountersInv
  BY DEF IInv, CountersInv
<1>3. IInv' => TypeOK'
  BY DEF IInv
<1>4. IInv /\ IInv' /\ CountersAddUp /\ [Next]_vars => CountersAddUp'
  BY <1>2, <1>3, CountersStep
<1> QED BY <1>1, <1>4, ClientInvariant, PTL DEF Spec
=============================================================================
