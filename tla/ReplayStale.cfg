SPECIFICATION ReplaySpec
CONSTANTS
  Tickers = {"t1", "t2"}
  TickerPrices = {10, 20}
  ReplayCapital = 50
  Sizes = {60}
  NEvents = 2
  Drivers = {"api", "replay", "keyword", "prescored"}
  PaperFee <- MCPaperFee
INVARIANTS NothingReplayedIsStale
CHECK_DEADLOCK FALSE
