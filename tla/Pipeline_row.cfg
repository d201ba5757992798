\* One row, every pair of programs overlapping once, one crash or failure.
CONSTANTS
  MaxContent = 2
  MaxPrice = 2
  MaxOverlaps = 1
  MaxFaults = 1
SPECIFICATION FairSpec
INVARIANTS
  PriceFresh
  FactsFresh
  EnrichedFresh
  WakeChain
PROPERTIES
  PriceEventuallyScored
  ContentEventuallyEnriched
CHECK_DEADLOCK FALSE
