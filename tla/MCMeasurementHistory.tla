----------------------- MODULE MCMeasurementHistory -----------------------
(***************************************************************************)
(* A ring of three slots pushed through two full turns and a reboot.       *)
(***************************************************************************)
EXTENDS MeasurementHistory
=============================================================================
