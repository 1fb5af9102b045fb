SPECIFICATION FairSpec
CONSTANTS
  None = None
  Stores = {s1, s2, s3}
  CloseCalls = {k1, k2}
  Overlap = FALSE
  MaxVersion = 2
  MaxFaults = 2
INVARIANTS
  SingleWriter
  MemoryCurrent
PROPERTIES
  LockGivenUp
CHECK_DEADLOCK FALSE
