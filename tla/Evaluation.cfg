SPECIFICATION Spec
CONSTANTS
  Step = 1
  MissingPercent = 25
  Horizon = 5
  PageSize = 2
  MaxCandles = 4
  FundingLimit = 2
  SettleEvery = 2
  SpikePercent = 50
  FundingPercent = 50
  MaxSupplied = 3
  Generators <- MCGenerators
  MaxBars = 6
  Cuts = {2, 3}
  MaxEmbargo = 1
  MaxWindow = 2
  Marks = {3}
  Quantity = 8
  NotionalCap = 16
  LotStep = 2
  MinWindows = 2
  ReplayHorizon = 6
  Samples = 5
  AlphaNum = 1
  AlphaDen = 2
  MinTrades = 3
  FamilyMinTrades = 2
  Pnls <- MCPnls
  MaxCandidates = 2
  MaxWindows = 4
  PValues = {0, 1, 2, 3, 4, 6}
  Alpha = 6
  Strategies = {1, 2, 3}
  Blocks = {1, 2, 3, 4}
  Scores = {0, 1}
  LastBar = 4
  Moves = {0, 1, 2, 3}
  Gains <- MCGains
  Ladder <- MCLadder
  Coverage = 1
  Symbols = {"A", "B"}
  Specs <- MCSpecs
  MaxRetries = 2
  Threshold = 3
  MaxAge = 1
  MaxTime = 2
  MaxRuns = 2
  Families = {1, 2}
  MaxSteps = 3
  StepReturns <- MCStepReturns
  Regimes = {"trend", "range"}
  ScanDepth = 2
  MaxSymbols = 2
  None = None
  Torn = Torn
INVARIANTS HistoryIsWhole WindowsAreSound VerdictsAreSound LaddersTellCosts ReportsAreTrue
PROPERTIES CorpusIsWhatItTells
CHECK_DEADLOCK FALSE
