\* One symbol bought twice (averaged in, or bought again), sold by the trader
\* too, two sells open at once, one restart.
SPECIFICATION FairSpec
CONSTANTS
  Symbols = {s1}
  TraderSymbols = {s1}
  Prices <- MCPrices
  StopLossPct = 10
  TakeProfitPct = 15
  Trailing = TRUE
  MaxBuys = 2
  MaxOpenSells = 2
  MaxRestarts = 1
INVARIANT PeakKnown
PROPERTIES PeakNeverFalls StopNotAbandoned StopIsExecuted
CHECK_DEADLOCK FALSE
