SPECIFICATION Spec
CONSTANTS
  MaxN = 3
  NameLen <- MCNameLen
  RawLen <- MCRawLen
  Perms <- MCPerms
  FsLimits <- Known
  Calls = {"lstat", "unlink"}
  OtherErrnos = {}
  LimitAnswers <- KnownOnly
  WordSize = 16
  MaxChanges = 0
INVARIANTS
  UnsearchableReported
