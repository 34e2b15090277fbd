--------------------------- MODULE MCSensorTasks ---------------------------
(* Two tasks on the bus, in four pairs that cover the seven sensors: those   *)
(* that go on after an error inside a lock scope with each other and with    *)
(* one that holds the bus for a whole conversion.                            *)
EXTENDS SensorTasks

CONSTANTS t1, t2

MCTasks == {t1, t2}

Pair(k1, k2) == [t \in MCTasks |-> IF t = t1 THEN k1 ELSE k2]

MCAssignments == {Pair("sps30", "sht41"), Pair("as7343", "bmm350"),
                  Pair("opt4048", "scd41"), Pair("bmp581", "sht41")}
============================================================================
