SPECIFICATION FairSpec
CONSTANTS
  Sources = {"finnhub", "twitter"}
  ThreadSources = {"twitter"}
  Feeds = {"f1", "f2", "f3"}
  FeedsOf <- MCFeedsOf
  Articles = {"a1", "a2", "a3", "t1"}
  Carries <- MCCarries
  Keys = {"k1", "k2", "k3", "k4"}
  Urls = {"u1", "u4"}
  None = "none"
  Key <- MCKey
  Url <- MCUrl
  MaxSeen = 2
  MaxAttempts = 2
  Stores = {TRUE, FALSE}
  MaxFaults = 1
  MaxRestarts = 1
INVARIANTS TypeOK NothingSlips
PROPERTIES PublishedOnce ForgetsOldest NewsGetsOut
CHECK_DEADLOCK FALSE
