SPECIFICATION Spec
CONSTANTS
  None = None
  Closer = Closer
  c1 = c1
  c2 = c2
  Clients <- MCClients
  Decisions <- FewDecisions
  Events <- MCEvents
  Oversize = {}
  MaxRecords = 4
  MaxKills = 1
  MaxPowerLosses = 0
  MaxIoErrors = 1
SYMMETRY Symmetry
INVARIANTS
  MemoryMatchesFile
  AckedStored
PROPERTIES
  AppendOnly
  NoAckInDoubt
  ImplementsLifecycle
CHECK_DEADLOCK FALSE
