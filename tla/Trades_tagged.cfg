SPECIFICATION Spec
CONSTANTS
  TheSymbol = BTC
  Symbols <- MCSymbols
  Snapshots = {s1, s2}
  SymbolOf <- MCSymbolOf
  Calls = {t1, t2}
  MaxCrashes = 1
  FailureThreshold = 2
  BreakerNames = {"heartbeat", "resource"}
  Attached = {"heartbeat", "resource"}
  MaxGap = 1
  ColdStart = ColdStart
  Runs = {r1, r2}
  Loops = {p1, p2}
  Orders = {o1, o2}
  Nonces = {1, 2}
  WithLevels = {o1}
  MaxRuns = 4
  Quotes <- MCQuotes
  Sizes = {2}
  Limits <- MCLimits
  DefaultPrice <- MCDefaultPrice
  FeePart = 10
  SlipPart = 10
  FundingPart = 10
  MaxOrders = 3
  MaxSequence = 2
  LedgerRuns = {l1, NoRun}
  NoRun = NoRun
  Cycles = {c1}
  Payloads <- MCPayloads
  Tables = {"positions"}
  Keys = {k1}
  MaxEvents = 3
  MaxRows = 1
  RuleSymbols = {a, b}
  AllowSymbols = {a, b}
  Prices = {2, 3, 5}
  MaxLeverage = 2
  MaxSpread = 1
  MaxAge = 1
  MinNotional = 6
  MaxPositionNotional = 20
  MaxTotalNotional = 24
  AvailableEquity = 25
  RequestedRisk = 7
  Step = 3
  SemanticLimits <- MCSemanticLimits
  None = None
INVARIANT TaggedRunReplays
CHECK_DEADLOCK FALSE
