SPECIFICATION Spec
CONSTANTS
  MaxSteps = 4
INVARIANTS FailureCompensatesAll
\* run ends.
CHECK_DEADLOCK FALSE
