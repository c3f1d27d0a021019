SPECIFICATION PartsSpec
CONSTANTS
  Symbols = {"s1", "s2"}
  Prices = {100, 200}
  MaxBars = 3
  Capital = 1100
  Scale = 10
  Commission = 1
  BuyPct = 1
  SellPct = 2
  StopPct = 5
  TakePct = 5
  PositionSize = 10
  Allocation = 5
  Risk = 4
  Threshold = 5
  Sentiments <- MCSentiments
  Signals <- MCSignals
  MaxHold = 2
  Cooldown = 1
  Configs <- MCConfigs
  Tickers = {"t1", "t2"}
  TickerPrices = {10, 20}
  ReplayCapital = 50
  Sizes = {60}
  NEvents = 2
  Drivers = {"api", "replay", "keyword", "prescored"}
  PaperFee <- MCPaperFee
  Jobs = {"j1", "j2"}
  Clients = {"c1", "c2"}
  Loop = "loop"
  NoJob = "none"
  Services <- MCServices
  Pids = {"p1", "p2", "p3"}
  Operators = {"o1", "o2"}
  Free = "free"
  Stranger = "stranger"
  NoPid = "no pid"
  Layouts <- MCLayouts
  Buyers = {"single", "trader"}
  StartingCash = 4
  OrderValues = {2, 3}
  NoAccount = NoAccount
  MaxMoney = 6
  MaxMishaps = 1
INVARIANTS TypesOK BooksBalance ReportedValue ResultHandedOutOnce JobsWait EveryProcessIsKnown
  AccountKept
PROPERTIES BuyIsCovered StopLeavesNothing ImplementsAccount ReplayImplementsAccount EveryEventEnds ClientIsAnswered
CHECK_DEADLOCK FALSE
