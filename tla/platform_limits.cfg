SPECIFICATION Spec
CONSTANTS
  Names = {d1, d2}
  Outside = outside
  NoName = none
  Told <- MCTold
INVARIANTS
  TypeOK
  LookedUpBefore
  OwnLimits
  LastAttemptOnly
