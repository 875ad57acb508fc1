SPECIFICATION FairSpec

CONSTANTS
  RequestTimeout = 4
  MinBudget = 2
  MaxRetries = 3
  RetryBackoff = 1
  MaxShift = 1

INVARIANTS
  TypeOK
  AttemptsBounded
  PunctualLeavesNoOrphan
PROPERTIES
  RequestEnds
CHECK_DEADLOCK FALSE
