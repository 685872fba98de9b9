SPECIFICATION Spec
CONSTANTS
  BreakerNames = {"heartbeat", "resource"}
  Attached = {"heartbeat"}
  MaxGap = 1
  ColdStart = ColdStart
  SavesMayFail = FALSE
  OperatorActs = TRUE
PROPERTY OperatorTripStays
