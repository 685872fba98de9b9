SPECIFICATION FairSpec
CONSTANTS
  a1 = a1
  a2 = a2
  b1 = b1
  A = A
  B = B
  Snapshots <- MCSnapshots
  Symbols <- MCSymbols
  SymbolOf <- MCSymbolOf
  Drivers = {loop, d1}
  Loop = loop
  None = None
  CallsMayRaise = TRUE
INVARIANTS TypeOK OneActivePerSymbol
PROPERTIES QueueIsKept QueuedSymbolRuns MonitorTicksGoOn
