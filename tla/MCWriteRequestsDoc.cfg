SPECIFICATION Spec
CONSTANTS
  r1 = r1
  r2 = r2
  r3 = r3
  a = a
  b = b
  n1 = n1
  n2 = n2
  ann = ann
  k1 = k1
  NoKey = NoKey
  NoRecord = NoRecord
  Requests = {r1, r2, r3}
  Callers = {ann}
  Keys = {k1}
  Bodies = {a, b}
  Nonces = {n1, n2}
  MaxTime = 3
  MaxRequests = 2
  WindowSeconds = 2
  TtlSeconds = 2
  NonceTtlSeconds = 2
INVARIANTS DuplicatesDeduplicated
\* All requests may have been answered.
CHECK_DEADLOCK FALSE
SYMMETRY Interchangeable
