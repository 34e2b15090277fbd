SPECIFICATION Spec
CONSTANTS
    ResponseParts = 2
    MaxDrops = 1
    MaxFaults = 1
    MaxGone = 1
INVARIANT ConnectionsInOrder
PROPERTY KeepsListening
PROPERTY SensorsStart
\* After a disconnect nobody waited for, there may be nothing left to happen.
CHECK_DEADLOCK FALSE
