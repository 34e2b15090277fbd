SPECIFICATION Spec
CONSTANTS
  Capacity = 3
  PageLimit = 2
  Interval = 3
  Tolerance = 1
  MaxDelay = 3
  MaxTime = 13
  MaxReboots = 0
  MaxRestarts = 0
  MaxFailures = 0
  None = None
INVARIANTS
  HistoryIsContinuous
