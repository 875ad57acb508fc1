SPECIFICATION Spec

CONSTANTS
  r1 = r1
  r2 = r2
  r3 = r3
  r4 = r4
  s1 = s1
  s2 = s2
  s3 = s3
  Requests = {r1, r2, r3, r4}
  Sessions = {s1, s2, s3}
  SessionOf <- MCSessionOf
  PoolSize = 2
  QueueSize = 2
  None = None

SYMMETRY Symmetry
INVARIANTS
  TypeOK
  StickyWorker
  Balanced
  TaskConserved
  OverlapOnlyByTimeout
PROPERTIES
  ImplementsSerialSessions
CHECK_DEADLOCK FALSE
