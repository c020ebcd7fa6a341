SPECIFICATION FairExitSpec
CONSTANTS
  Runs <- MCRuns
  MonitorOf <- MCMonitorOf
  Sinks <- MCRuns
  Loud <- MCLoud
  Quiet <- MCQuiet
  Flushers <- MCFlushers
  Specs <- MCSpecs
  Streams <- MCBoth
  Writes = 1
  Endless <- MCNone
  Interrupts = 1
  MayRefuse <- MCEither
CHECK_DEADLOCK FALSE
INVARIANTS
  RunIsToldTrue
  NothingIsCutShort
PROPERTIES
  GoneCommandsAreLeftAlone
  ProcessEnds
