SPECIFICATION Spec
CONSTANTS
  c1 = c1
  c2 = c2
  Clients <- MCClients
  Scripts <- MCScripts
  Direct <- MCDirect
  MaxFds = 2
INVARIANTS
  HeadersForwarded
CHECK_DEADLOCK FALSE
