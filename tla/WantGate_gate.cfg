SPECIFICATION Spec
CONSTANTS
  toyota = toyota
  lexus = lexus
  runner = runner
  gx = gx
  sr5 = sr5
  w1 = w1
  w2 = w2
  Wants = {w1, w2}
  Criteria <- MCCriteria
  Raws <- MCRaws
  Facts <- MCFacts
  BackfillLimit = 1
  MaxOthers = 1
  MaxTurns = 3
  MaxBids = 1
INVARIANTS GateSound 
CHECK_DEADLOCK FALSE
