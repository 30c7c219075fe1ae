--------------------------- MODULE MCModbusClient ---------------------------
(* A small instance of ModbusClient. *)
EXTENDS ModbusClient
=============================================================================
