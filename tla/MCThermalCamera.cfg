SPECIFICATION Spec
CONSTANTS
    Chunks = 2
    ReadAttempts = 2
    MaxLate = 3
    MaxFaults = 1
    MaxStalls = 1
INVARIANT ImageIsWhole
INVARIANT ImageIsOfThisCapture
PROPERTY KeepsPublishing
