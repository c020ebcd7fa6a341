SPECIFICATION FairSpec
CONSTANTS
  Timeout = 5
  Attempts = 3
  Floor = 1
  Cap = 3
  Lag = 2
  Asks <- MCAsks
INVARIANT
  ReportIsHonest
PROPERTIES
  SendsWhenItMay
  KeepsPromise
  Settles
