SPECIFICATION Spec
CONSTANTS
  MaxN = 3
  NameLen <- MCNameLen
  RawLen <- MCRawLen
  Perms <- MCPerms
  FsLimits <- Known
  Calls = {"chroot"}
  OtherErrnos = {}
  LimitAnswers <- KnownOnly
  WordSize = 16
  MaxChanges = 0
INVARIANTS
  NonRootReported
