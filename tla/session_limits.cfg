SPECIFICATION SessionSpec
CONSTANTS
  MaxN = 3
  NameLen <- MCNameLen
  RawLen <- MCRawLen
  Perms <- MCPerms
  FsLimits <- Known
  Untold <- MCUntold
  Elsewhere <- MCElsewhere
  Calls = {"chroot", "unlink"}
  OtherErrnos = {}
  LimitAnswers <- MCAnswers
  WordSize = 16
  MaxChanges = 0
INVARIANTS
  LengthOverKnownLimit
  JailExplainsLength
PROPERTIES
  WalksAsSpecified
