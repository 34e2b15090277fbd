-------------------------- MODULE MCThermalCamera --------------------------
(* The memory in two transfers, two attempts, and one more late half than    *)
(* there are attempts.                                                       *)
EXTENDS ThermalCamera
============================================================================
