CONSTANTS
  None = None
  MaxRawReferences = 2
  MaxRawBytes = 3
  MaxTotalRawBytes = 5
  MaxTreeSize = 4
  Sources = {"shop"}
  Histories = {1, 2}
  EventIds = {1, 2}
  MaxTime = 2
  MaxIssued = 2
  KeyOf <- MCKeyOf
  ContentOf <- MCContentOf
  Terms <- MCTerms
  Bundle <- MCBundle
  Delegation <- MCDelegation
  Edits <- MCEdits
  Supplies <- MCSupplies
SPECIFICATION Spec
INVARIANTS
  CommittedBySource
  ValidIsProved
  EveryChangeIsTold
CHECK_DEADLOCK FALSE
