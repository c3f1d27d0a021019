\* Two symbols, up to two events over a dedup window of two, with and without
\* the hold checker, one restart.
SPECIFICATION FairSpec
CONSTANTS
  s1 = s1
  s2 = s2
  Symbols = {s1, s2}
  Events <- MCEvents
  Prices = {3}
  InitialCash = 10
  Allocation = 80
  DedupWindow = 2
  MaxHolds = {0, 1}
  MaxTime = 2
  MaxEvents = 2
  MaxOrders = 2
  MaxRestarts = 1
INVARIANTS TypeOK CashNeverNegative OrdersSpaced
PROPERTIES QueueDrains
CHECK_DEADLOCK FALSE
