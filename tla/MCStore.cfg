SPECIFICATION Spec
CONSTANTS
  Sensor = {s1, s2}
  MaxTime = 4
  DayLength = 2
  MaxBatch = 3
  MaxRestarts = 1
  MaxCuts = 1
  CutKind = {"killed", "threw"}
  Bad = Bad
  None = None
  Carrying = {1, 3, 4}
  MaxPoints = 2
  Asked = {0, 3}
SYMMETRY SensorSymmetry
INVARIANTS
  SummariesMatchDisk
  OneCopyInOrder
  RangeFindsAll
  ChartShowsRange
PROPERTIES
  StaysReadable
