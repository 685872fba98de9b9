SPECIFICATION Spec
CONSTANTS
  Symbols = {BTC, ETH}
  StaleAfter = 1
  Never = Never
  SavesMayFail = TRUE
  ClosesMayRaise = TRUE
INVARIANTS TypeOK OneCloseIntent RecordTellsPosition
PROPERTIES DegradedStaysParked CheckParksTheBlind
