SPECIFICATION Spec
CONSTANTS
  MaxN = 3
  NameLen <- MCNameLen
  RawLen <- MCRawLen
  Perms <- MCCoarse
  FsLimits <- Known
  Calls = {"stat", "unlink"}
  OtherErrnos = {}
  LimitAnswers <- KnownOnly
  WordSize = 16
  MaxChanges = 2
INVARIANTS
  TypeOK
  ClaimsWitnessed
PROPERTIES
  ExplanationReturns
  WalkShortens
  KeepsPromise
