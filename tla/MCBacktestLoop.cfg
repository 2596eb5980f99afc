SPECIFICATION Spec
CHECK_DEADLOCK FALSE
CONSTANTS
  Settings <- MCSettings
  Candles <- MCCandles
  MaxRows = 5
  Unit = 100
  None = None
INVARIANTS
  PositionIsDecided
  StopsAreTaken
PROPERTY AccountSpec
