SPECIFICATION Spec
CONSTANTS
  MaxN = 3
  NameLen <- MCNameLen
  RawLen <- MCRawLen
  Perms <- MCAllPerms
  FsLimits <- Known
  Calls = {"chroot", "lstat", "stat", "unlink", "rename"}
  OtherErrnos = {"ENOMEM", "0"}
  LimitAnswers <- KnownOnly
  WordSize = 16
  MaxChanges = 0
INVARIANTS
  ReasonMatchesErrno
  FirstFaultNamed
  ReasonFound
  FaultLocated
  ShownModeBearsOut
