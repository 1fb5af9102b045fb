SPECIFICATION Spec
CONSTANTS
  None = None
  r1 = r1
  r2 = r2
  r3 = r3
  Requests <- MCRequests
  Messages <- SafetyMessages
  MaxConcurrent = 2
  MaxBodyBytes = 2
  MaxRecords = 1
  MaxWriteFailures = 1
SYMMETRY Symmetry
INVARIANTS
  SlotsAccounted
  BuffersBounded
  CreatedIsStored
  StopsGracefully
PROPERTIES
  RefusedIsNotStored
CHECK_DEADLOCK FALSE
