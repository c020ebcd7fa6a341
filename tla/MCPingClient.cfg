SPECIFICATION FairClientSpec
CONSTANTS
  r1 = r1
  r2 = r2
  f1 = f1
  Runs <- MCRuns
  MonitorOf <- MCMonitorOf
  Sinks <- MCSinks
  Loud <- MCLoud
  Quiet <- MCQuiet
  Flushers <- MCFlushers
CHECK_DEADLOCK FALSE
INVARIANTS
  SaidOnce
  FlushCovers
PROPERTY FlushReturns
