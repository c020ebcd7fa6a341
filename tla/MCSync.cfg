SPECIFICATION FairSpec
CONSTANTS
  Runs = {1, 2}
  Texts <- MCTexts
  Setups <- MCSetups
  Modes <- MCModes
  Uuids = {1, 2, 3, 4, 5, 6}
  Channels <- MCChannels
  Kinds <- MCKinds
  Others = 1
  Misses = TRUE
CHECK_DEADLOCK FALSE
INVARIANTS
  OneOfAName
  AppliedMeansConverged
PROPERTIES
  RunsReturn
  NothingUnearned
  NothingUndone
