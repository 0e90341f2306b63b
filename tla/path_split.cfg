SPECIFICATION Spec
CONSTANTS
  MaxNames = 4
  MaxName = 3
  Size = 10
  Left = 4
INVARIANTS
  TypeOK
  SplitExact
  LeadingIntact
CHECK_DEADLOCK FALSE
