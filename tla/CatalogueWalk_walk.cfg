CONSTANTS
  a1 = a1
  a2 = a2
  a3 = a3
  s1 = s1
  m1 = m1
  m2 = m2
  m3 = m3
  AB = AB
  SK = SK
  McD = McD
  Lots <- MCLots
  Provinces <- MCProvinces
  McDougall = McD
  Home <- MCHome
  First <- MCFirst
  Wanted <- MCWanted
  PageSize <- MCPageSize
  MaxPages = 2
  MaxRetries = 1
  MaxSurprises = 2
SPECIFICATION FairSpec
INVARIANT MissedExplained
PROPERTY StandingIsWritten
