SPECIFICATION Spec
CONSTANTS
  Capacity = 2
  PageLimit = 2
  Interval = 3
  Tolerance = 1
  MaxDelay = 1
  MaxTime = 17
  MaxReboots = 1
  MaxRestarts = 0
  MaxFailures = 0
  None = None
INVARIANTS
  PickedUpFromStart
