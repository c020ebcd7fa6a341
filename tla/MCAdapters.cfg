SPECIFICATION FairSpec
CONSTANTS
  f1 = f1
  NoFire = 0
  Fires <- MCFires
  Runs <- MCRuns
  MonitorOf <- MCMonitorOf
  Sinks <- MCRuns
  Loud <- MCLoud
  Quiet <- MCQuiet
  Flushers <- MCFlushers
CHECK_DEADLOCK FALSE
INVARIANTS
  ReportsAreTrue
  OneBracketDispatched
  SettledBeforeExit
PROPERTY RunsEnd
