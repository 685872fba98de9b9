SPECIFICATION Spec
CONSTANTS
  BreakerNames = {"heartbeat", "resource", "drawdown"}
  Attached = {"heartbeat", "resource"}
  MaxGap = 2
  LoopNames = {"heartbeat", "resource"}
  LoopGap = 1
  ColdStart = ColdStart
  OperatorActs = TRUE
  Calls = {1, 2, 3}
  Probes = {1, 2}
  FailureThreshold = 2
  ClientCalls = {1, 2}
  MaxRetries = 2
  ClientThreshold = 2
  Threads = {1, 2}
  Watched = TRUE
  SlowSamples = FALSE
  Symbols = {"BTC"}
  None = None
INVARIANTS NothingToLose CircuitsKeepTheirCount CleanMeansNothingSeen
PROPERTIES TripsAreOwned MonitorsFollowTheHost WatchdogFollowsTheHost CircuitsStayOpen ProtectionIsReadBack LeavingEnds
CHECK_DEADLOCK FALSE
