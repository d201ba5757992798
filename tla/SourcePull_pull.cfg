SPECIFICATION FairSpec
CONSTANTS
  kijiji = kijiji
  craigslist = craigslist
  x = x
  y = y
  z = z
  w1 = w1
  w2 = w2
  q1 = q1
  q2 = q2
  Sources = {kijiji, craigslist}
  Listings = {x, y, z}
  At <- MCAt
  Wants = {w1, w2}
  Searches = {q1, q2}
  Asks <- MCAsks
  Finds <- MCFinds
  PageSize = 1
  MaxSurprises = 3
PROPERTIES RemovedExplained VisibleIsActive GoneIsRemoved
CHECK_DEADLOCK FALSE
