SPECIFICATION ImageSpec
CONSTANTS
  Rows = 4
  MaxImages = 5
INVARIANTS
  SummaryDescribesPixels
