\* The notifier: rows one after the other, only failures count as attempts.
\* Two processes are started for the stage; the lock lives as long as its process.
CONSTANTS
  Workers = {w1, w2}
  NoWorker = NoWorker
  Offers <- MCOffers2
  BatchSize = 1
  Concurrency = 1
  MaxAttempts = 2
  Counted <- CountNothing
  HasPermanent = FALSE
  LockDrops = FALSE
  MaxEnqueues = 3
  MaxFaults = 2
SPECIFICATION Spec
SYMMETRY MCSymmetry
INVARIANTS
  TypeOK
  ClaimsDisjoint
  RecoveredOwnership
  WakeupCoverage
  FailedMeansExhausted
PROPERTY ImplementsWorkQueue
CHECK_DEADLOCK FALSE
