SPECIFICATION FairSpec
CONSTANTS
  Capacity = 3
  PageLimit = 2
  Interval = 3
  Tolerance = 1
  MaxDelay = 2
  MaxTime = 13
  MaxReboots = 1
  MaxRestarts = 1
  MaxFailures = 1
  None = None
INVARIANTS
  ArchiveIsSound
  NothingSkipped
PROPERTIES
  SeekFindsBoundary
  EventuallyCollected
