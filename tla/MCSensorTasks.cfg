SPECIFICATION Spec
CONSTANTS
    t1 = t1
    t2 = t2
    Tasks <- MCTasks
    NoTask = NoTask
    Assignments <- MCAssignments
    PollLimit = 1
    MaxFaults = 1
    MaxUpsets = 1
INVARIANT BusAndBankInOrder
INVARIANT PublishedIsFresh
INVARIANT PublishedAsConfigured
INVARIANT SettledBeforePublished
PROPERTY KeepsPublishing
