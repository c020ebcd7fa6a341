SPECIFICATION Spec
CONSTANTS
  Timeout = 4
  Attempts = 3
  Floor = 1
  Cap = 3
  Lag = 1
  Asks <- MCAsks
INVARIANTS
  ServerErrorOutlivesBudget
