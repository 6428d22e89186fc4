SPECIFICATION Spec
CONSTANTS
  Callers = {getter, putter, poster}
  Idempotent = {getter, putter}
  CallAttempts = 3
  CallBase = 1
  CallMultiplier = 2
  CallMaxDelay = 2
  FailureThreshold = 3
  RecoveryTimeout = 3
INVARIANTS OpenExactlyOnStreak
PROPERTIES EarlyCloseIsLateSuccess CircuitRecovers
