SPECIFICATION Spec
CONSTANTS
  p1 = p1
  p2 = p2
  p3 = p3
  Procs <- Three
  Databases <- Found
  MaxCrashes = 2
INVARIANTS
  SchemaComplete
  VersionTells
  
