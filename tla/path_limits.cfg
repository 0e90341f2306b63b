SPECIFICATION Spec
CONSTANTS
  MaxN = 4
  NameLen <- MCLongName
  RawLen <- MCLongRaw
  Perms <- MCPerms
  FsLimits <- Known
  Calls = {"chroot", "lstat", "stat", "unlink", "rename"}
  OtherErrnos = {"EINTR", "ESTALE"}
  LimitAnswers <- MCAnswers
  WordSize = 16
  MaxChanges = 0
INVARIANTS
  LengthClaimsHold
  ReasonMatchesErrno
  ReasonFound
