SPECIFICATION System
CONSTANTS
  s1 = s1
  s2 = s2
  cli = cli
  gui = gui
  User = User
  None = None
  Starts <- Two
  Savers <- MCSavers
  Kind <- MCKind
  Domains <- MCDomains
  Under <- MCUnder
  NameOf <- MCNameOf
  Found <- MCFound
  Edited <- MCEdited
  Size <- MCSize
INVARIANTS
  TypeOK
  RunningIsBacked
  StatusTrue
  FoundIsUsed
  
PROPERTIES
  OvertakenEnds
  StopEnds
CHECK_DEADLOCK FALSE
