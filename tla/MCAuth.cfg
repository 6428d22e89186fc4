SPECIFICATION Spec
CONSTANTS
  Threads = {t1, t2}
  Rotators = {t1, t2}
  Subjects = {alice}
  SessionIds = {sid1, sid2, sid3}
  Ttls = {1, 2}
  NoRow = NoRow
  MaxTokens = 3
  Lifetime = 1
  NoToken = NoToken
  AutoProvision = TRUE
  MaxCalls = 4
SYMMETRY Symmetry
INVARIANTS RevokedStaysRevoked RevokeAllReaches ReplayRefused
