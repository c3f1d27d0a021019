\* The stop fires again while its first sell is unconfirmed.
SPECIFICATION Spec
CONSTANTS
  Symbols = {s1}
  TraderSymbols = {}
  Prices <- MCPrices
  StopLossPct = 10
  TakeProfitPct = 15
  Trailing = FALSE
  MaxBuys = 1
  MaxOpenSells = 2
  MaxRestarts = 0
INVARIANTS NeverShort
CHECK_DEADLOCK FALSE
