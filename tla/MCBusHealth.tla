----------------------------- MODULE MCBusHealth ----------------------------
(* BusHealth with the numbers of const.py and health.py. *)
EXTENDS BusHealth
=============================================================================
