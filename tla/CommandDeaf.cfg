SPECIFICATION FairSpec

CONSTANTS
  RequestTimeout = 4
  MinBudget = 2
  MaxRetries = 3
  RetryBackoff = 1
  MaxShift = 1

PROPERTIES
  RequestTimesOut
CHECK_DEADLOCK FALSE
