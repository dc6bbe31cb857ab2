SPECIFICATION Spec
CONSTANTS
  s1 = s1
  s2 = s2
  a = a
  b = b
  Found <- NewOrOld
  MaxCount = 1
  Searchers <- Two
  Domains <- Sites
  Scores = {2}
  MaxWeeks = 2
  MaxFaults = 1
  Sweep <- TwoTechniques
  Positions <- OnePosition
  Stealth <- StealthTwice
  Sni = "sni"
  MaxProbes = 8
  Networks <- FourNetworks
  Rankings <- ThreeRankings
  Excellent = 3
  MaxSearches = 2
INVARIANTS
  MappedIsConfirmed
  
  
ACTION_CONSTRAINT LocalStepsFirst
SYMMETRY Exchangeable
CHECK_DEADLOCK FALSE
