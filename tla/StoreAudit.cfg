SPECIFICATION AuditSpec
CONSTANTS
  None = None
  Closer = Closer
  c1 = c1
  Clients = {c1}
  Decisions <- MCDecisions
  Events <- MCEvents
  Oversize = {}
  MaxRecords = 3
  MaxKills = 1
  MaxPowerLosses = 1
  MaxIoErrors = 0
  MaxAudits = 1
INVARIANTS
  AuditIsOfOneMoment
CHECK_DEADLOCK FALSE
