SPECIFICATION Spec
CONSTANTS
  k1 = k1
  k2 = k2
  k3 = k3
  youtube = youtube
  None = None
  Domains = {youtube}
  Strategies <- MCStrategies
  Rules <- MCRules
  Default = "frag"
  Fallback <- MCRules
  Payloads <- OneHello
  Keys <- Three
  MaxConnections = 2
  Expiry = 2
  CleanupEvery = 2
  MaxQueue = 1
  MaxGen = 1
  MaxTime = 2
INVARIANTS
  TypeOK
  
  NothingHeldBack

  
SYMMETRY Symmetry
