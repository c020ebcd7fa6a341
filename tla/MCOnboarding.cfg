SPECIFICATION FairSpec
CONSTANTS
  Procs = {1, 2}
  Setups <- MCSetups
  Files <- MCFiles
  Dirs = {"writable", "missing"}
  Verified = TRUE
  Intervals = {0}
  Lifetime = 3
  RetryAfter = 2
  Budget = 1
  Others = 1
CHECK_DEADLOCK FALSE
INVARIANTS
  KeysAreAccountedFor
PROPERTIES
  MonitorsAreAccountedFor
  PollsKeepTheirDistance
  NothingIsOverwritten
  SignupReturns
