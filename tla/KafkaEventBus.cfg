\* Four records in batches of two, two deaths, one failed call.
SPECIFICATION FairSpec
CONSTANTS
  MaxMessages = 4
  BatchSize = 2
  MaxCrashes = 2
  MaxErrors = 1
INVARIANTS CommitInv
PROPERTIES NeverSkips HandledUnlessDead
CHECK_DEADLOCK FALSE
