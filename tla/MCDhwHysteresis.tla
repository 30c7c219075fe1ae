-------------------------- MODULE MCDhwHysteresis ---------------------------
(* The instance of DhwHysteresis that TLC checks. *)
EXTENDS DhwHysteresis
=============================================================================
