SPECIFICATION Spec

CONSTANTS
  Senders = {s1, s2}
  Lifetimes = {1, 4, 5}
  Margin = 2
  MinLife = 4
  None = None
  MaxTime = 8

SYMMETRY Symmetry
INVARIANTS
  TypeOK
  SendsFreshToken
CHECK_DEADLOCK FALSE
