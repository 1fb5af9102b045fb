SPECIFICATION Spec
CONSTANTS
  None = None
  MaxRecords = 6
  Decisions <- MCDecisions
  Events <- MCEvents
INVARIANTS
  GuardsAgreeWithVerifier
  TamperEvident
  AppealLife
CHECK_DEADLOCK FALSE
