SPECIFICATION MCSpec
CONSTANTS
  Rows = {row1, row2, row3, other}
  Matching = {row1, row2, row3}
  Values = {1, 2}
  PageSize = 2
  Absent = Absent
  MaxWrites = 2
  Writers = {w1, w2}
  Tenants = {acme, globex}
  Ids = {id1, id2}
  Fields = {name, price}
  Shared = Shared
  NoEntity = NoEntity
  MaxUpdates = 3
  Scopes = {acme, globex}
  Keys = {key1, key2}
  Tags = {tag}
  Prefixed = {key1}
  Expiring = {key1}
  Ttl = 1
  NoScope = NoScope
  Conns = {conn1, conn2}
  Rooms = {room1, room2}
  Callers = {t1, t2}
  NoConn = NoConn
  Flags <- MCFlags
  Contexts <- MCContexts
  NoValue = NoValue
  Plan <- MCPlan
  Stages = 3
  Broken = {2}
  Bucket <- MCBucket
  Loaders = {l1, l2}
  NoLoader = NoLoader
  MaxClock = 2
  EventNames = {saved}
  Listeners = {h1, h2}
  Publishers = {p1, p2}
  MaxSubscribed = 3
  MaxPublished = 2
  Services = 4
  Uploaders <- MCUploaders
  Caller <- MCCaller
  Nobody = "nobody"
  Spellings <- MCSpellings
  Root = "objects"
  RootLike = {"objects", "objects2"}
  RolesFor <- MCRolesFor
  MaxChanges = 3
  Tokens = {token}
  NoToken = NoToken
  Payloads = {payload1, payload2}
  Stamps = {stamp1, stamp2}
  NoRecord = NoRecord
  MaxPerWindow = 2
  MaxOff = 1
  PolicyOperands <- MCPolicyOperands
  Comparisons = {"==", "<", "not_in"}
  PolicyRequests <- MCPolicyRequests
  RequiredRoles = {1, 2}
  MaxOperators = 2
  Validators = {v1}
  Inputs <- MCInputs
  Required = {"write"}
  Nothing = Nothing
  MaxHooks = 2
INVARIANTS TypeOK WalksExact RowsSound InvalidationExact StatusIffInRoom OnceOnStaysOn HeardExact NoServiceForgotten ObjectsKept AuditExact ReadAsMeant LifespanReleases ValidationExact
PROPERTIES RetryIsReplay
\* A walk or a runner may have ended, a policy may have been refused.
CHECK_DEADLOCK FALSE
