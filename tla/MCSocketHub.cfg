SPECIFICATION Spec
CONSTANTS
  MaxConns = 3
  Rooms = {lobby}
  Actors = {anonymous, alice}
  Anonymous = anonymous
  alice = alice
  Logins <- MCLogins
  NoActor = nobody
  Subscribers = {}
  Slots = 3
  MaxLoops = 2
  MaxSubConns = 2
INVARIANTS RegisteredWhileHandled
PROPERTIES QuietCastIsExact
\* All the connections the bound allows may have come and gone: the hub is idle.
CHECK_DEADLOCK FALSE
