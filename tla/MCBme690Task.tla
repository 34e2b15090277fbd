--------------------------- MODULE MCBme690Task ---------------------------
(* Two readings of warm-up, every second output published, a timer of two    *)
(* cycles, and one of each accident.                                         *)
EXTENDS Bme690Task
============================================================================
