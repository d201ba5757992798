\* The enricher: two rows of a batch at once, permanent failures, a success
\* counts as an attempt.  One process, whose lock connection may drop.
CONSTANTS
  Workers = {w1}
  NoWorker = NoWorker
  Offers <- MCOffers2
  BatchSize = 2
  Concurrency = 2
  MaxAttempts = 2
  Counted <- CountDone
  HasPermanent = TRUE
  LockDrops = TRUE
  MaxEnqueues = 2
  MaxFaults = 2
SPECIFICATION FairSpec
PROPERTIES
  PendingIsDrained
  RestartSettles
  SweepEnds
CHECK_DEADLOCK FALSE
