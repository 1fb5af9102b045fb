SPECIFICATION Spec
CONSTANTS
  None = None
  MAX_RULES = 64
  MAX_CONDITION_DEPTH = 8
  MAX_CONDITIONS = 256
  MAX_GROUP_WIDTH = 32
  MAX_PRIORITY = 1000000
  AnswerOf <- MCEvaluateRulebook
  IsValid <- MCValidateRulebook
  InitialCases <- MCInitialCases
  Amendments <- MCAmendments
INVARIANTS
  RejectedEvidenceBlamesNobody
  PrincipalInsideMandate
  ExecutionsCounted
  OperatorOutsideMandate
  VendorBlamedForItsModel
  ReplayAgrees
PROPERTIES
  EventsAreBound
CHECK_DEADLOCK FALSE
