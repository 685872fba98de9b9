SPECIFICATION FairSpec
CONSTANTS
  Calls = {t1, t2}
  Snapshots = {s1, s2}
  TheSymbol = BTC
  Symbols <- MCSymbols
  SymbolOf <- MCSymbolOf
  None = None
  Canonical = FALSE
  MaxInFlight = 2
  MaxCrashes = 1
  LedgerMayFail = TRUE
  FailureThreshold = 2
  BreakerNames = {"heartbeat", "resource"}
  Attached = {}
  MaxGap = 1
  ColdStart = ColdStart
  SavesMayFail = FALSE
  OperatorActs = FALSE
PROPERTIES EveryCallEnds ClaimIsSettled
\* Once every call was made and has ended, nothing need happen.
CHECK_DEADLOCK FALSE
