\* One want, one offer, three prices: the want accepts two, one is a standout deal.
CONSTANTS
  Wants = {w1}
  Reminder = Reminder
  MaxPrice = 3
  FirstPrices = {1, 2}
  Ceiling <- MCCeiling
  Standout <- MCStandout
  MaxAttempts = 2
  MaxMoves = 1
  MaxEdits = 1
  MaxFaults = 1
SPECIFICATION FairSpec
INVARIANTS
  StampedMeansTold
  HeardOnce
  InstantQueued
PROPERTIES
  ImplementsDelivery
  OpenDelivered
CHECK_DEADLOCK FALSE
