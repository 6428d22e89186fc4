SPECIFICATION Spec
CONSTANTS
  MaxSteps = 4
INVARIANTS ResultIsTrue OnlyLastUnrecorded
PROPERTIES KeepsPromise
\* run ends.
CHECK_DEADLOCK FALSE
