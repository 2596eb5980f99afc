SPECIFICATION Spec
CHECK_DEADLOCK FALSE
CONSTANTS
  Charts = {"chart"}
  Stocks <- MCStocks
  Doubtful = {"b"}
  BatchSize = 3
  Limit = 2
  Share = 1
  Weight = 1
  Attempts = 2
  InARow = 1
  Pages = 2
  MaxFaults = 1
INVARIANTS WithinBudget StocksAreAccountedFor
PROPERTIES EveryCallEnds
