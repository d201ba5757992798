SPECIFICATION FairWatchSpec
CONSTANTS
  AuctionSources = {hibid, mcdougall}
  StaleAge = 3
  DedupAge = 2
  MaxTime = 6
  MaxFaults = 2
PROPERTIES TellsSparingly StaleIsTold
