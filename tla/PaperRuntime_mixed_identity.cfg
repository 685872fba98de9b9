SPECIFICATION Spec
CONSTANTS
  Calls = {t1, t2}
  Snapshots = {s1, s2}
  TheSymbol = BTC
  Symbols <- MCSymbols
  SymbolOf <- MCSymbolOf
  None = None
  Canonical = FALSE
  MaxInFlight = 2
  MaxCrashes = 0
  LedgerMayFail = FALSE
  FailureThreshold = 2
  BreakerNames = {"heartbeat", "resource"}
  Attached = {}
  MaxGap = 1
  ColdStart = ColdStart
  SavesMayFail = FALSE
  OperatorActs = FALSE
INVARIANT EventsKeepTheirIdentity
\* Once every call was made and has ended, nothing need happen.
CHECK_DEADLOCK FALSE
