------------------------------ MODULE MCStore ------------------------------
(***************************************************************************)
(* Two sensors over three days, so that a batch of three readings crosses  *)
(* up to two midnights; one restart and one write cut short.  Three        *)
(* readings in up to two points average within a bucket and across none.   *)
(* The sensors are interchangeable.                                        *)
(***************************************************************************)
EXTENDS HistoryQuery, TLC

SensorSymmetry == Permutations(Sensor)
=============================================================================
