SPECIFICATION PageSpec
CONSTANTS
  Capacity = 3
  MaxPushed = 8
  MaxPage = 2
  Null = Null
INVARIANTS
  PageIsAligned
  NullOnlyIfOverwritten
  RaisedOnlyPastLostReadings
