\* One crash or one failed call is enough to lose a fill.
SPECIFICATION FairSpec
CONSTANTS
  Orders = {o1, o2}
  Symbols = {s1}
  Shares = {1}
  NoOrder = NoOrder
  LotSize = 1
  MaxFaults = 1
PROPERTIES FillsReachPositions
CHECK_DEADLOCK FALSE
