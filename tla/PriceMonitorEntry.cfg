\* A position averaged in keeps its first entry price in the monitor.
SPECIFICATION Spec
CONSTANTS
  Symbols = {s1}
  TraderSymbols = {s1}
  Prices <- MCPrices
  StopLossPct = 10
  TakeProfitPct = 15
  Trailing = FALSE
  MaxBuys = 2
  MaxOpenSells = 2
  MaxRestarts = 0
PROPERTIES EntryIsCurrent
CHECK_DEADLOCK FALSE
