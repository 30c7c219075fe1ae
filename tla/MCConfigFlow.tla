---------------------------- MODULE MCConfigFlow ----------------------------
(* A small instance of ConfigFlow. *)
EXTENDS ConfigFlow, TLC

Symmetric == Permutations(Flows) \cup Permutations(Entries) \cup Permutations(Endpoints)
=============================================================================
