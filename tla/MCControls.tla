----------------------------- MODULE MCControls -----------------------------
(* A small instance of Controls: the simulator's machine. *)
EXTENDS Controls, TLC

CONSTANT t1

Setpoints == [a \in MachineSetpoints |->
                CASE a = R_SET_COOLING -> 70 [] a = R_SET_HEATING -> 450 [] OTHER -> 470]
Running == [state |-> 6, enable |-> BASE_ENABLE, command |-> {"AMBIENT", "DHW"},
            setpoints |-> Setpoints]
Standby == [state |-> 0, enable |-> {}, command |-> {}, setpoints |-> Setpoints]
MCMachines == {Running, Standby}

\* Legal as cooling only, and as heating and hot water only.
MCTemperatures == {200, 300}
MCStates == {1, 4}
NoInputs == {}
MCOps == t1 :> OpNames \ {"read_register"}

=============================================================================
