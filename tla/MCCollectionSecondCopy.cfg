SPECIFICATION Spec
CONSTANTS
  Capacity = 3
  PageLimit = 2
  Interval = 3
  Tolerance = 1
  MaxDelay = 2
  MaxTime = 13
  MaxReboots = 0
  MaxRestarts = 1
  MaxFailures = 0
  None = None
INVARIANTS
  StoredOnceInOrder
