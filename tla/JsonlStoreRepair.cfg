SPECIFICATION FairSpec
CONSTANTS
  None = None
  Closer = Closer
  c1 = c1
  c2 = c2
  Clients <- MCClients
  Decisions <- FewDecisions
  Events <- OneEvent
  Oversize = {}
  MaxRecords = 2
  MaxKills = 1
  MaxPowerLosses = 0
  MaxIoErrors = 0
INVARIANT NeedsNoRepair
CHECK_DEADLOCK FALSE
