------------------------------- MODULE MCPoller -------------------------------
(***************************************************************************)
(* Two sensors, so that one comes after one that fails; one retry; up to   *)
(* two requests for a sensor.                                              *)
(***************************************************************************)
EXTENDS Poller

CONSTANTS s1, s2

SensorList == <<s1, s2>>
=============================================================================
