SPECIFICATION FairSpec
CONSTANTS
  Lots = {h, m}
  Hibid = {h}
  Distillers = {d1, d2}
  Nightly = d1
  ForceAge = 0
  MaxAge = 1
  DistillAge = 1
  RecentAge = 1
  KeepAge = 2
  BatchLimit = 1
  FastCap = 1
  SlowCap = 1
  FirstEnds = {0}
  Ends = {0, 1}
  MaxTime = 3
  MaxBid = 1
  MaxSurprises = 1
INVARIANTS TypeOK CountedOnce HammerPrice EarlyCloseExplained
PROPERTIES KeptWhileWatched EndsClosed SaleRemembered
CHECK_DEADLOCK FALSE
