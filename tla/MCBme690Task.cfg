SPECIFICATION Spec
CONSTANTS
    Warmup = 2
    PublishEvery = 2
    SaveInterval = 2
    MaxFaults = 1
    MaxUpsets = 1
    MaxCuts = 1
INVARIANT BsecIsFedRight
INVARIANT SettledBeforePublished
INVARIANT StateIsKept
PROPERTY KeepsPublishing
\* The task returns when BSEC refuses its configuration.
CHECK_DEADLOCK FALSE
