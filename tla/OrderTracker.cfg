\* Two orders of two shares, board lots of three, one fault: lot rounding,
\* partial fills on either side of the order's size, retries, time-outs.
SPECIFICATION FairSpec
CONSTANTS
  Orders = {o1, o2}
  Symbols = {s1}
  Shares = {2}
  NoOrder = NoOrder
  LotSize = 3
  MaxFaults = 1
INVARIANTS TrackerInv StoreNotOverstated HoldingIsComplete
PROPERTIES ClosedIsFinal LedgerSpec EveryOrderCloses FillsSettleUnlessFault
CHECK_DEADLOCK FALSE
