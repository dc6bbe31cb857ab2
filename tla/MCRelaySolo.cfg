SPECIFICATION FairSpec
CONSTANTS
  c1 = c1
  c2 = c2
  youtube = youtube
  example = example
  None = None
  Domains <- MCDomains
  Strategies <- MCStrategies
  Conns <- Solo
  Payloads <- SoloPayloads
  Targets <- SoloTargets
  Rules <- MCRules
  Default = "frag"
  Fallback <- Chain
  MaxUp = 3
  MaxDown = 2
  MaxFirst = 3
INVARIANTS
  TypeOK
  
  DownstreamStream
  TelemetryExact
PROPERTIES
  NoRetryAfterData
  
  SetupTerminates
  DownstreamDelivered
