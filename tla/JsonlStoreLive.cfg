SPECIFICATION FairSpec
CONSTANTS
  None = None
  Closer = Closer
  c1 = c1
  c2 = c2
  Clients <- MCClients
  Decisions <- ThreeDecisions
  Events <- OneEvent
  Oversize <- MCOversize
  MaxRecords = 2
  MaxKills = 1
  MaxPowerLosses = 1
  MaxIoErrors = 1
INVARIANTS
  DamageIsLastLine
  FlushedSurvives
PROPERTIES
  CallsAnswered
  CloseCompletes
CHECK_DEADLOCK FALSE
