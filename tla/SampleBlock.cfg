\* Blocks of three records, a ring of two that is lapped twice, every failure.
CONSTANTS
  Records = 3
  NumBuffers = 2
  MaxSeq = 3
  User = {"IMU", "POWER"}
SPECIFICATION Spec
INVARIANTS
  TypeOK
  SealedIsValid
  GapsAccounted
  InOrder
\* the task ends, or stops at the bound
CHECK_DEADLOCK FALSE
