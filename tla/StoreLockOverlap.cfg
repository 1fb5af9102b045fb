SPECIFICATION FairSpec
CONSTANTS
  None = None
  Stores = {s1, s2, s3}
  CloseCalls = {k1, k2}
  Overlap = TRUE
  MaxVersion = 2
  MaxFaults = 0
INVARIANT SingleWriter
CHECK_DEADLOCK FALSE
