---------------------------- MODULE MCCoordinator ---------------------------
(* Small instances of Coordinator for TLC. *)
EXTENDS CoordinatorProps, TLC

CONSTANTS t1, t2

\* The simulator's setpoints, and a machine found heating with hot water.
MCSetpoints == [a \in MachineSetpoints |->
                  CASE a = R_SET_COOLING -> 70 [] a = R_SET_HEATING -> 450 [] OTHER -> 470]

MCRunning == [state |-> 6, enable |-> BASE_ENABLE, command |-> {"AMBIENT", "DHW"},
              setpoints |-> MCSetpoints]
MCInitMachines == {MCRunning}

\* Two callers who share the operations out between them; and one caller each for the
\* operations that a run is about.
MCBusOps == t1 :> {"ambient_switch", "set_dhw_enabled", "release"}
         @@ t2 :> {"dhw_switch", "set_conditioning", "read_register"}
MCReleaseOps    == t1 :> {"set_state", "release"}
MCLegionellaOps == t1 :> {"start_legionella", "dhw_switch"}
MCSetStateOps   == t1 :> {"set_state"}

\* Two of the six states that can be selected; one setpoint in its range, and one
\* above it, which water_heater.set_temperature can ask for.
MCStates == {0, 5}
MCSetpointInputs == {<< R_SET_DHW, 500 >>, << R_SET_DHW, 600 >>}
=============================================================================
