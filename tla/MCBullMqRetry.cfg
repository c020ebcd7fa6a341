SPECIFICATION Spec
CONSTANTS
  nightly = nightly
  byHand = byHand
  w1 = w1
  w2 = w2
  NoJob = NoJob
  Jobs <- MCJobs
  Repeating <- MCRepeating
  Wirings <- MCSerialOnly
  Attempts = 2
  Stalls = 1
  Workers <- MCWorkers
  Runs <- MCRuns
  MonitorOf <- MCMonitorOf
  Sinks <- MCRuns
  Loud <- MCLoud
  Quiet <- MCQuiet
  Flushers <- MCFlushers
CHECK_DEADLOCK FALSE
INVARIANT FailMeansExhausted
