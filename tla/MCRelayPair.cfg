SPECIFICATION Spec
CONSTANTS
  c1 = c1
  c2 = c2
  youtube = youtube
  example = example
  None = None
  Domains <- MCDomains
  Strategies <- MCStrategies
  Conns <- Two
  Payloads <- PairPayloads
  Targets <- PairTargets
  Rules <- MCRules
  Default = "frag"
  Fallback <- Short
  MaxUp = 1
  MaxDown = 1
  MaxFirst = 2
INVARIANTS
  LearnedSound
  HotStartJustified
SYMMETRY Symmetry
