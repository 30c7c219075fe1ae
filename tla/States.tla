------------------------------- MODULE States -------------------------------
(***************************************************************************)
(* The packed machine state of register 7200/200 (states.py): one number   *)
(* holds the space-conditioning half and the domestic hot water half.      *)
(***************************************************************************)
EXTENDS Naturals

Conditionings == {"off", "cool", "heat"}

\* conditioning half -> <<state without DHW, state with DHW>>
TABLE == [c \in Conditionings |->
            CASE c = "off"  -> <<0, 4>>
              [] c = "cool" -> <<1, 5>>
              [] c = "heat" -> <<2, 6>>]

\* The raw states the controller documents: the values of the table.
LegalStates == {0, 1, 2, 4, 5, 6}

compose(conditioning, dhw) == TABLE[conditioning][IF dhw THEN 2 ELSE 1]

\* Raw state -> its two halves.
REVERSE == [s \in LegalStates |->
              CASE s = 0 -> [conditioning |-> "off",  dhw |-> FALSE]
                [] s = 1 -> [conditioning |-> "cool", dhw |-> FALSE]
                [] s = 2 -> [conditioning |-> "heat", dhw |-> FALSE]
                [] s = 4 -> [conditioning |-> "off",  dhw |-> TRUE]
                [] s = 5 -> [conditioning |-> "cool", dhw |-> TRUE]
                [] s = 6 -> [conditioning |-> "heat", dhw |-> TRUE]]

\* A value outside the table does not raise, it reads as everything off.
decompose(state) ==
  IF state \in LegalStates THEN REVERSE[state]
                           ELSE [conditioning |-> "off", dhw |-> FALSE]

\* Mutant: the hot water half is lost.
with_conditioning_alone(state, conditioning) == compose(conditioning, FALSE)

with_conditioning(state, conditioning) == compose(conditioning, decompose(state).dhw)

with_dhw(state, dhw) == compose(decompose(state).conditioning, dhw)
=============================================================================
