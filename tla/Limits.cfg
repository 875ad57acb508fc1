CONSTANTS
  MaxText = 5
  MaxBytes = 5
  MaxDepth = 1
  Texts <- MCTexts
SPECIFICATION Spec
INVARIANTS
  TypeOK
  LimitBoundsParser
  RefusalIsRight
CHECK_DEADLOCK FALSE
