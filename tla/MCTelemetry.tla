---------------------------- MODULE MCTelemetry -----------------------------
(* A small instance of Telemetry.  Either the pump or the mode of the machine changes
   in a behaviour: what the coordinator remembers of the one is never looked at for the
   other. *)
EXTENDS Telemetry

VARIABLE subject

AllDeltaTs == {None, "normal", "high"}

MCInit == Init /\ subject \in {"pump", "mode"} /\ (subject = "mode" => pump = "off")

MCNext == /\ Next
          /\ subject = "pump" => machine_state' = machine_state
          /\ subject = "mode" => pump' = pump /\ result'.delta_t = None
          /\ UNCHANGED subject

MCSpec == MCInit /\ [][MCNext]_<< vars, subject >> /\ Fairness
=============================================================================
