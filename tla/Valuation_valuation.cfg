SPECIFICATION Spec
CONSTANTS
  o1 = o1
  o2 = o2
  Offers <- MCOffers
  Prices <- MCPrices
  Sales <- MCSales
  Recorded <- MCRecorded
  Batches <- MCBatches
  Operators = {o1, o2}
  MaxWrites = 2
  MaxSurprises = 1
SYMMETRY MCSymmetry
INVARIANTS FairValueSound RequeueServes EstimatesReplaced
PROPERTIES DearerScoresWorse
CHECK_DEADLOCK FALSE
