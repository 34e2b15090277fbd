SPECIFICATION Spec
CONSTANTS
  Capacity = 3
  Value = {v1, v2, v3}
  NoValue = NoValue
  MaxPushed = 8
INVARIANTS
  RingInv
  GetReadsWindow
PROPERTIES
  ImplementsWindow
