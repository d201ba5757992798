\* A bid arrives while the valuator works on the lot.
CONSTANTS
  MaxContent = 2
  MaxPrice = 2
  MaxOverlaps = 1
  MaxFaults = 0
SPECIFICATION Spec
INVARIANT BidRevalued
CHECK_DEADLOCK FALSE
