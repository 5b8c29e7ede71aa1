SPECIFICATION PartsSpec
CONSTANTS
  Emails = {ann, bob}
  NoEmail = none
  Operators = {ann}
  Threads = {t1, t2}
  MaxTokens = 2
  Attempts = {t1, t2}
  Objects = {o1, o2, o3}
  NoObject = null
  MaxHits = 2
  Window = 2
  FreeRetries = 1
  MaxDelay = 2
  MaxExponent = 2
  MaxTime = 3
  MaxFailures = 5
  Readers = {t1, t2}
  MaxRuns = 4
SYMMETRY ThreadSymmetry
INVARIANTS
  ServerTypeOK
  SpentInviteHasAccount
  PresentedIsSpent
  SessionsAreGood
  WindowBounds
  FailuresAreCounted
  AnswersAreCurrent
  ResidentsAreBounded
PROPERTIES
  RoleIsInvited
  ResendReplaces
  LocksAreKept
  CacheKeepsPromise
CHECK_DEADLOCK FALSE
