SPECIFICATION Spec
CONSTANTS
  MaxN = 3
  NameLen <- MCNameLen
  RawLen <- MCRawLen
  Perms <- MCSticky
  FsLimits <- Known
  Calls = {"unlink"}
  OtherErrnos = {}
  LimitAnswers <- KnownOnly
  WordSize = 16
  MaxChanges = 0
INVARIANTS
  StickyReported
