SPECIFICATION Spec
CONSTANTS
  l1 = l1
  l2 = l2
  l3 = l3
  n1 = n1
  n2 = n2
  n3 = n3
  None = None
  Lookups <- Three
  Names <- Domains3
  Wants <- MCWants
  NServers = 1
  MaxEntries = 2
  Ttl = 1
  MaxTime = 1
INVARIANTS
  TypeOK
  CleanConnection
PROPERTIES
  HitIsRecent
  SoonestEvicted
  LookupsEnd
CHECK_DEADLOCK FALSE
