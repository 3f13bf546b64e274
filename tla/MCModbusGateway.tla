--------------------------- MODULE MCModbusGateway ---------------------------
(***************************************************************************)
(* Instances of ModbusGateway with interchangeable masters.                *)
(***************************************************************************)
EXTENDS ModbusGateway, TLC

AnyMaster == Permutations(Masters)

=============================================================================
