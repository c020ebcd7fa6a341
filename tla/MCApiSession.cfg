SPECIFICATION FairSpec
CONSTANTS
  Calls = {c1, c2}
  Aborters = {c1}
  Keys = {k}
  NoKey = NoKey
  Ops <- MCOps
  Refusals <- MCRefusals
  Attempts = 2
  Budget = 2
  FloorDelay = 1
  CreateDelay = 1
  LastCall = 0
  Horizon = 3
CHECK_DEADLOCK FALSE
INVARIANTS
  NothingTwice
  ToldTheTruth
PROPERTIES
  ReadingIsCurrent
  CallsEnd
