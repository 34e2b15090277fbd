CONSTANTS
  Status = Status
  Thermal = Thermal
  s1 = s1
  s2 = s2
  Sensors <- SensorList
  Retries = 1
  MaxRequests = 2
  MaxBroken = 1
  MaxFailures = 1
  MaxBoots = 1
  MaxUptime = 1
  Null = Null

SPECIFICATION PollerSpec

INVARIANT BootsAreFollowed
PROPERTY HeldImageCatchesUp
PROPERTY FailuresPass
PROPERTY StopEndsLoop

\* After stop the loop has returned, and the device may have done all it can.
CHECK_DEADLOCK FALSE
