SPECIFICATION Spec
CONSTANTS
    Warmup = 2
    PublishEvery = 2
    SaveInterval = 2
    MaxFaults = 1
    MaxUpsets = 1
    MaxCuts = 1
PROPERTIES
    NothingDiscarded
    WarmupRestarts
\* The task returns when BSEC refuses its configuration.
CHECK_DEADLOCK FALSE
