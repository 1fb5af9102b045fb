SPECIFICATION FairSpec
CONSTANTS
  None = None
  r1 = r1
  r2 = r2
  r3 = r3
  Requests = {r1, r2}
  Messages <- MCMessages
  MaxConcurrent = 1
  MaxBodyBytes = 2
  MaxRecords = 1
  MaxWriteFailures = 1
PROPERTIES
  EveryoneAnswered
  StopEnds
CHECK_DEADLOCK FALSE
