SPECIFICATION Spec
CONSTANTS
  Jobs = {hookJob, plainJob, strayJob}
  Handled = {hookJob, plainJob}
  Runners = {r1, r2}
  NoJob = NoJob
  MaxAttempts = 2
  BaseDelay = 1
  Multiplier = 2
  MaxDelay = 4
  Events = {hookJob}
  HookAttempts = 2
  Skew = 1
  MaxRuns = 2
INVARIANTS DoneWasReceived
PROPERTIES JobsKept JobsSettle
