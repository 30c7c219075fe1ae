------------------------------- MODULE Alarms -------------------------------
(***************************************************************************)
(* Decoding of the alarm words 950 / 951 / 952 (alarms.py).  A word is an  *)
(* integer; the three of them are a function from 0 .. 2.                  *)
(***************************************************************************)
EXTENDS Registers, FiniteSets

\* The flags that carry a name: word -> bits.  The other bits are reserved.
NAMED_BITS ==
  [w \in 0 .. 2 |->
     CASE w = 0 -> (0 .. 9) \cup {12, 13, 15}
       [] w = 1 -> {1, 2, 3, 6, 7, 9} \cup (11 .. 15)
       [] w = 2 -> 0 .. 15]

ALARMS == UNION {{[word |-> w, bit |-> b] : b \in NAMED_BITS[w]} : w \in 0 .. 2}

\* "value & (1 << bit)" of a non-negative value.
BitSet(value, bit) == (value \div 2^bit) % 2 = 1

\* A negative word means that the read failed: no flag of it is active.
is_active(words, alarm) == words[alarm.word] >= 0 /\ BitSet(words[alarm.word], alarm.bit)

decode(words) == {a \in ALARMS : is_active(words, a)}

\* Every flag that is set, the reserved ones included.
count(words) ==
  Cardinality({f \in (0 .. 2) \X (0 .. 15) : words[f[1]] >= 0 /\ BitSet(words[f[1]], f[2])})
=============================================================================
