\* Four messages in batches of two, an old or a new group, two deaths, one
\* Redis failure.
SPECIFICATION FairSpec
CONSTANTS
  MaxMessages = 4
  BatchSize = 2
  OldGroup = {TRUE, FALSE}
  MaxCrashes = 2
  MaxErrors = 1
INVARIANTS BatchInv AckedWasHandled
PROPERTIES DeliversOnce HandledUnlessStopped
CHECK_DEADLOCK FALSE
