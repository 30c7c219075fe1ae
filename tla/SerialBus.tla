------------------------------ MODULE SerialBus -----------------------------
(***************************************************************************)
(* What the coordinator promises about the bus, with no lock, queue or     *)
(* event loop: one user at a time; an operation sends its writes in order, *)
(* each at most once, and nobody else's come in between; a write reaches   *)
(* the machine or does not; an operation may be abandoned after any write. *)
(*                                                                         *)
(* Beside the user there may be others, who only read: callers, while the  *)
(* integration is open, and a reader turned out when it closes.            *)
(***************************************************************************)
EXTENDS Sequences

CONSTANTS
  Writers, Readers, Nobody,
  Machines,         \* the states of the machine at the other end
  Writes,           \* the writes that can be sent
  Effect(_, _)      \* what a write that arrives makes of the machine

VARIABLES
  user,   \* who is on the bus, or Nobody
  todo,   \* the writes its operation has still to send
  regs,   \* the machine
  aside,  \* who reads beside the user
  open    \* FALSE once the integration is closed

busVars == << user, todo, regs, aside, open >>

Plans == Seq(Writes)

BusInit == /\ user = Nobody /\ todo = << >> /\ regs \in Machines
           /\ aside = {} /\ open = TRUE

TakeToWrite(p) ==
  /\ user = Nobody /\ p \notin aside
  /\ user' = p
  /\ todo' \in Plans /\ todo' # << >>
  /\ UNCHANGED << regs, aside, open >>

TakeToRead(p) ==
  /\ user = Nobody /\ p \notin aside
  /\ user' = p
  /\ UNCHANGED << todo, regs, aside, open >>

\* The next write is sent; the user leaves after the last one or gives up.
Send ==
  /\ todo # << >>
  /\ regs' \in {regs, Effect(regs, Head(todo))}
  /\ todo' \in {Tail(todo), << >>}
  /\ user' = IF todo' = << >> THEN Nobody ELSE user
  /\ UNCHANGED << aside, open >>

FinishReading ==
  /\ user \in Readers
  /\ user' = Nobody
  /\ UNCHANGED << todo, regs, aside, open >>

\* A caller reads without waiting for the user to leave.
ReadAside(p) ==
  /\ open /\ p # user
  /\ aside' = aside \cup {p}
  /\ UNCHANGED << user, todo, regs, open >>

LeaveAside(p) ==
  /\ p \in aside
  /\ aside' = aside \ {p}
  /\ UNCHANGED << user, todo, regs, open >>

\* The integration closes.  A reader may lose its place and be left reading aside; a
\* writer never does.
Close ==
  /\ open /\ open' = FALSE
  /\ \/ UNCHANGED << user, aside >>
     \/ user \in Readers /\ user' = Nobody /\ aside' = aside \cup {user}
  /\ UNCHANGED << todo, regs >>

BusNext ==
  \/ \E p \in Writers : TakeToWrite(p) \/ ReadAside(p)
  \/ \E p \in Readers : TakeToRead(p)
  \/ Send
  \/ FinishReading
  \/ \E p \in Writers \cup Readers : LeaveAside(p)
  \/ Close

BusSpec == BusInit /\ [][BusNext]_busVars
=============================================================================
