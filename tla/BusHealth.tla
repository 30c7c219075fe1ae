------------------------------ MODULE BusHealth -----------------------------
(***************************************************************************)
(* The bus counters of the client (modbus_client.py), fed by polls and     *)
(* writes, and the repair issue the health check makes of them             *)
(* (health.py).  One action is one poll or one write.                      *)
(***************************************************************************)
EXTENDS Integers

CONSTANTS
  Blocks,                 \* transactions of a poll in which nothing goes wrong
  RetriedCounts,          \* how many reads a poll may have to repeat
  MODBUS_RETRIES,
  BUS_MIN_TRANSACTIONS,
  BUS_ERROR_THRESHOLD,    \* in tenths of a percent
  MaxErrors,              \* bound: errors the bus makes in all
  MaxTransactions,        \* bound: the counter is not followed further
  Sustained               \* polls in a row that make a bad bus a sustained condition

VARIABLES
  transactions, errors, issue,
  errors_left,
  degraded_polls          \* history: polls in a row that answered but repeated every read

vars == << transactions, errors, issue, errors_left, degraded_polls >>

Init == /\ transactions = 0 /\ errors = 0 /\ issue = FALSE
        /\ errors_left = MaxErrors /\ degraded_polls = 0

Least(a, b) == IF a < b THEN a ELSE b

\* Every transaction is counted when it starts, every error when it is met.
Count(good, bad) ==
  /\ bad <= errors_left
  /\ errors_left' = errors_left - bad
  /\ transactions' = Least(transactions + good + bad, MaxTransactions)
  /\ errors' = errors + bad

\* stats(): errors since startup, in tenths of a percent, rounded.
ErrorRate(t, e) == IF t = 0 THEN 0 ELSE (2000 * e + t) \div (2 * t)

\* health.async_check: the bus issue exists while this holds.
BusErrors(t, e) == t >= BUS_MIN_TRANSACTIONS /\ ErrorRate(t, e) >= BUS_ERROR_THRESHOLD

\* A poll that answers: each block is read, some only at the second or third try.
PollAnswers(retried) ==
  /\ Count(Blocks, retried)
  /\ issue' = BusErrors(transactions', errors')
  /\ degraded_polls' = IF retried >= Blocks THEN Least(degraded_polls + 1, Sustained) ELSE 0

\* A poll that fails: one block exhausts its attempts, the later ones are not tried,
\* and UpdateFailed is raised before the health check.
PollFails(read, retried) ==
  /\ Count(read, retried + MODBUS_RETRIES)
  /\ degraded_polls' = 0
  /\ UNCHANGED issue

\* A write is tried once.
WriteRegister(failed) ==
  /\ IF failed THEN Count(0, 1) ELSE Count(1, 0)
  /\ UNCHANGED << issue, degraded_polls >>

\* The entry is unloaded and set up again: a new client, and no issue.
Reload == /\ transactions' = 0 /\ errors' = 0 /\ issue' = FALSE /\ degraded_polls' = 0
          /\ UNCHANGED errors_left

Next == \/ \E retried \in RetriedCounts : PollAnswers(retried)
        \/ \E read \in 0 .. Blocks - 1 :
             \E retried \in RetriedCounts \cap 0 .. read * (MODBUS_RETRIES - 1) :
               PollFails(read, retried)
        \/ \E failed \in BOOLEAN : WriteRegister(failed)
        \/ Reload

Spec == Init /\ [][Next]_vars

-----------------------------------------------------------------------------
\* What health.py:11-13 and README.md:168 say of the check: a sustained error rate is
\* reported.  Here every read of every poll has to be repeated.
DegradedBusReported ==
  degraded_polls = Sustained /\ transactions >= BUS_MIN_TRANSACTIONS => issue
=============================================================================
