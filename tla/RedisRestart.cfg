\* One restart of the consuming process loses what it had read.
SPECIFICATION FairSpec
CONSTANTS
  MaxMessages = 2
  BatchSize = 2
  OldGroup = {TRUE}
  MaxCrashes = 1
  MaxErrors = 0
PROPERTIES EveryMessageHandled
CHECK_DEADLOCK FALSE
