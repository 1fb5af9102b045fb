CONSTANTS
  None = None
  MaxLineItems = 3
  MaxSafeInteger = 1000
  MaxArtifacts = 9
  Retrievers <- MCRetrievers
  RoleOf <- MCRoleOf
  Cases <- MCCases
  Histories <- MCHistories
  CreationTimes = {1000000, 1060001}
  Edits <- MCEdits
  Resolve <- resolveAp2SegmentClaims
  Canonical <- canonicalize
  MaxFlow <- boundedMaxFlow
  SignedClaims <- OpenedClaims
  SignedPayload <- OpenedPayload
SPECIFICATION Spec
INVARIANTS
  ConstraintsAsSigned
  DelegatedByConfirmedKeys
  VerifiedIsOneTransaction
  AnyOrder
  OnlyTheRetainedPack
  ReviewedAsSigned
PROPERTIES
  ResolvesOnceAllAnswer
CHECK_DEADLOCK FALSE
