SPECIFICATION Spec
CONSTANTS
  MaxConns = 2
  Rooms = {lobby, den}
  Actors = {anonymous, alice}
  Anonymous = anonymous
  alice = alice
  Logins <- MCLogins
  NoActor = nobody
  Subscribers = {sub}
  Slots = 3
  MaxLoops = 2
  MaxSubConns = 1
INVARIANTS IndexConsistent
PROPERTIES SendsOnlyToAddressed DroppedIsDeregistered
\* All the connections the bound allows may have come and gone: the hub is idle.
CHECK_DEADLOCK FALSE
