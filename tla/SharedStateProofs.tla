-------------------------- MODULE SharedStateProofs --------------------------
(***************************************************************************)
(* Proofs about the components that SharedState puts side by side: the dev *)
(* runner, presence, the cache, storage, feature flags, the event bus, the *)
(* repositories, the walks over their pages, the layers around routes, the *)
(* lifespan of a worker and the validation of payloads.                    *)
(* Each of them has a specification of its own.  For each: its inductive   *)
(* invariant, that every step keeps it, and the property that it implies.  *)
(* At the end, SharedState is shown to satisfy all of these specifications *)
(* and so to have all of these properties.                                 *)
(***************************************************************************)
EXTENDS SharedState, FiniteSetTheorems, FunctionTheorems, SequenceTheorems, TLAPS

------------------------------------------------------------------------------
(* DevRunner.                                                              *)

RunnerEnds ==
  {"none", "not_started", "all_exited", "interrupted_early", "interrupted_again", "stopped", "timed_out"}

RunnerShape ==
  /\ child \in [1..Services -> {"none", "runs", "exited"}]
  /\ asked \subseteq 1..Services
  /\ runner \in [at : {"starting", "started", "waiting", "terminating", "reaping", "ended"},
                 k : 0..Services, how : RunnerEnds]

(* What the loops have done with the services they have passed.            *)
Exited(s) == child[s] = "exited"
LoopsDone ==
  /\ runner.at \in {"waiting", "reaping"} => \A s \in 1..(runner.k - 1) : Exited(s)
  /\ runner.at = "terminating" => 1..(runner.k - 1) \subseteq asked
  /\ runner.at = "reaping" => asked = 1..Services
  /\ runner.at = "ended" =>
       /\ runner.how # "none"
       /\ runner.how \in {"all_exited", "stopped"} => \A s \in 1..Services : Exited(s)
       /\ runner.how = "timed_out" => asked = 1..Services

RunnerInv == RunnerShape /\ LoopsDone

LEMMA RunnerStep == RunnerInv /\ [RunnerNext]_runnerVars => RunnerInv'
<1> SUFFICES ASSUME RunnerInv, [RunnerNext]_runnerVars PROVE RunnerInv'
  OBVIOUS
<1> USE ServicesAssumption DEF RunnerInv, RunnerShape, LoopsDone, Exited, RunnerEnds, NextOr, Moves, Ends, At
<1>1. ASSUME NEW k \in 1..Services, Starts(k) PROVE RunnerInv'
  BY <1>1 DEF Starts
<1>2. CASE StartFails
  <2>1. 0 \in 0..Services
    OBVIOUS
  <2> QED
    BY <1>2, <2>1 DEF StartFails
<1>12. CASE InterruptedBeforeWaiting
  <2>1. 0 \in 0..Services
    OBVIOUS
  <2> QED
    BY <1>12, <2>1 DEF InterruptedBeforeWaiting
<1>11. CASE StartsToWait
  <2>1. 1 \in 0..Services
    OBVIOUS
  <2> QED
    BY <1>11, <2>1 DEF StartsToWait
<1>3. ASSUME NEW k \in 1..Services, WaitReturns(k) PROVE RunnerInv'
  BY <1>3 DEF WaitReturns
<1>4. CASE Interrupted
  BY <1>4 DEF Interrupted
<1>5. ASSUME NEW k \in 1..Services, Terminates(k) PROVE RunnerInv'
  <2>1. asked' \subseteq 1..Services /\ (1..(k - 1) \subseteq asked => 1..k \subseteq asked')
    BY <1>5 DEF Terminates
  <2>2. CASE k < Services
    BY <1>5, <2>1, <2>2 DEF Terminates
  <2>3. CASE k = Services
    <3>1. asked' = 1..Services
      BY <1>5, <2>1, <2>3 DEF Terminates
    <3> QED
      BY <1>5, <2>3, <3>1 DEF Terminates
  <2> QED
    BY <2>2, <2>3
<1>6. ASSUME NEW k \in 1..Services, Reaps(k) PROVE RunnerInv'
  BY <1>6 DEF Reaps
<1>7. ASSUME NEW k \in 1..Services, ReapTimesOut(k) PROVE RunnerInv'
  BY <1>7 DEF ReapTimesOut
<1>8. CASE InterruptedAgain
  BY <1>8 DEF InterruptedAgain
<1>9. ASSUME NEW s \in 1..Services, ServiceExits(s) PROVE RunnerInv'
  BY <1>9 DEF ServiceExits
<1>10. CASE UNCHANGED runnerVars
  BY <1>10 DEF runnerVars
<1> QED
  BY <1>1, <1>2, <1>3, <1>4, <1>5, <1>6, <1>7, <1>8, <1>9, <1>10, <1>11, <1>12
  DEF RunnerNext

LEMMA RunnerInvariance == RunnerSpec => []RunnerInv
<1>1. RunnerInit => RunnerInv
  BY ServicesAssumption DEF RunnerInit, RunnerInv, RunnerShape, LoopsDone, RunnerEnds
<1> QED
  BY <1>1, RunnerStep, PTL DEF RunnerSpec

(* However the services exit, and whenever somebody presses Ctrl-C, `dev`  *)
(* leaves a service running only in the ways NoServiceForgotten lists, for *)
(* any number of services.                                                 *)
THEOREM RunnerForgetsNone == RunnerSpec => []NoServiceForgotten
<1>1. RunnerInv => NoServiceForgotten
  BY DEF RunnerInv, RunnerShape, RunnerEnds, LoopsDone, Exited, NoServiceForgotten
<1> QED
  BY <1>1, RunnerInvariance, PTL

------------------------------------------------------------------------------
(* Presence.                                                               *)

PresenceInv ==
  /\ PresenceTypeOK
  /\ \A c \in Conns : inRoom[c] # {} => c \in here
  /\ StatusIffInRoom

LEMMA PresenceStep == PresenceInv /\ [PresenceNext]_presenceVars => PresenceInv'
<1> SUFFICES ASSUME PresenceInv, [PresenceNext]_presenceVars PROVE PresenceInv'
  OBVIOUS
<1> USE NoConnAssumption DEF PresenceInv, PresenceTypeOK, StatusIffInRoom
<1>1. ASSUME NEW c \in Conns, Registers(c) PROVE PresenceInv'
  BY <1>1 DEF Registers
<1>2. ASSUME NEW c \in Conns, NEW r \in Rooms, Join(c, r) PROVE PresenceInv'
  BY <1>2 DEF Join
<1>3. ASSUME NEW c \in Conns, NEW r \in Rooms, LeaveQuietly(c, r) PROVE PresenceInv'
  BY <1>3 DEF LeaveQuietly, LeaveRoom, Cleared
<1>4. ASSUME NEW t \in Callers, NEW c \in Conns, NEW r \in Rooms, LeaveBroadcasts(t, c, r)
      PROVE PresenceInv'
  BY <1>4 DEF LeaveBroadcasts, LeaveRoom
<1>5. ASSUME NEW t \in Callers, LeaveEnds(t) PROVE PresenceInv'
  BY <1>5 DEF LeaveEnds, Cleared
<1>6. ASSUME NEW t \in Callers, LeaveRaises(t) PROVE PresenceInv'
  BY <1>6 DEF LeaveRaises
<1>7. ASSUME NEW c \in Conns, UpdateStatus(c) PROVE PresenceInv'
  BY <1>7 DEF UpdateStatus
<1>8. ASSUME NEW c \in Conns, Disconnect(c) PROVE PresenceInv'
  BY <1>8 DEF Disconnect, HubDisconnect
<1>9. ASSUME NEW c \in Conns, DropsBehind(c) PROVE PresenceInv'
  BY <1>9 DEF DropsBehind, HubDisconnect
<1>10. ASSUME NEW c \in Conns, ClearLocalState(c) PROVE PresenceInv'
  BY <1>10 DEF ClearLocalState
<1>11. CASE UNCHANGED presenceVars
  BY <1>11 DEF presenceVars
<1> QED
  BY <1>1, <1>2, <1>3, <1>4, <1>5, <1>6, <1>7, <1>8, <1>9, <1>10, <1>11 DEF PresenceNext

LEMMA PresenceInvariance == PresenceSpec => []PresenceInv
<1>1. PresenceInit => PresenceInv
  BY DEF PresenceInit, PresenceInv, PresenceTypeOK, StatusIffInRoom
<1> QED
  BY <1>1, PresenceStep, PTL DEF PresenceSpec

(* A status stands for a membership of a room, and no membership is        *)
(* without one, for any connections, rooms and callers, however broadcasts *)
(* and disconnects interleave.                                             *)
THEOREM PresenceFollowsRooms == PresenceSpec => []StatusIffInRoom
<1>1. PresenceInv => StatusIffInRoom
  BY DEF PresenceInv
<1> QED
  BY <1>1, PresenceInvariance, PTL

------------------------------------------------------------------------------
(* TaggedCache.                                                            *)

CacheShape ==
  /\ CacheTypeOK
  /\ tagged \in [Tags -> SUBSET Keys] /\ tagsOf \in [Keys -> SUBSET Tags]
  /\ written \in [Scopes -> [Keys -> SUBSET Tags]]

(* A live entry that did not stray is known, and has the tags it was       *)
(* written with.                                                           *)
Indexed ==
  \A s \in Scopes, k \in Keys :
    k \in Live(s) /\ <<s, k>> \notin strayed => k \in known /\ tagsOf[k] = written[s][k]

CacheInv == CacheShape /\ Indexed /\ InvalidationExact

(* What an invalidation of K by s leaves of the entries and the indexes.   *)
LEMMA DeletesKeepsIndex ==
  ASSUME CacheShape, Indexed, NEW s \in Scopes, NEW K \in SUBSET Keys, Deletes(s, K)
  PROVE  CacheShape' /\ Indexed'
<1> USE DEF CacheShape, CacheTypeOK
<1> DEFINE held == {k \in K : entry[s][k] # Gone}
<1>1. /\ entry' = [entry EXCEPT ![s] = [k \in Keys |-> IF k \in K THEN Gone ELSE entry[s][k]]]
      /\ known' = known \ held
      /\ Detached(held)
      /\ strayed' = strayed \cup Others(s, held)
      /\ UNCHANGED written
  BY DEF Deletes
<1>2. CacheShape'
  <2> HIDE DEF held
  <2>1. held \in SUBSET Keys
    BY DEF held
  <2> QED
    BY <1>1, <2>1 DEF Detached, Others
<1>3. ASSUME NEW t \in Scopes, NEW k \in Keys, k \in Live(t)', <<t, k>> \notin strayed'
      PROVE  k \in known' /\ tagsOf'[k] = written'[t][k]
  <2>1. k \in Live(t) /\ <<t, k>> \notin strayed
    BY <1>1, <1>3 DEF Live
  <2>2. k \notin held
    BY <1>1, <1>3, <2>1 DEF Live, Others
  <2> QED
    BY <1>1, <2>1, <2>2 DEF Detached, Indexed
<1> QED
  BY <1>2, <1>3 DEF Indexed

LEMMA CacheStep == CacheInv /\ [CacheNext]_cacheVars => CacheInv'
<1> SUFFICES ASSUME CacheInv, [CacheNext]_cacheVars PROVE CacheInv'
  OBVIOUS
<1> USE CacheAssumption, TagsAssumption DEF CacheInv, CacheShape, CacheTypeOK
<1>1. ASSUME NEW s \in Scopes, NEW k \in Keys, NEW G \in SUBSET Tags,
             NEW ttl \in {Lasting} \cup (IF k \in Expiring THEN {Ttl} ELSE {}),
             SetWithTags(s, k, G, ttl)
      PROVE  CacheInv'
  <2>1. CacheShape'
    BY <1>1 DEF SetWithTags, Retagged, Others
  <2>2. Indexed'
    BY <1>1 DEF SetWithTags, Retagged, Others, Indexed, Live
  <2> QED
    BY <1>1, <2>1, <2>2 DEF SetWithTags, InvalidationExact
<1>2. ASSUME NEW s \in Scopes, NEW k \in Keys, SetRaises(s, k) PROVE CacheInv'
  <2>1. CacheShape'
    BY <1>2 DEF SetRaises, Detached, Others
  <2>2. Indexed'
    BY <1>2 DEF SetRaises, Detached, Others, Indexed, Live
  <2> QED
    BY <1>2, <2>1, <2>2 DEF SetRaises, InvalidationExact
<1>3. ASSUME NEW s \in Scopes, NEW k \in Keys, Delete(s, k) PROVE CacheInv'
  BY <1>3, DeletesKeepsIndex DEF Delete, InvalidationExact
<1>4. ASSUME NEW s \in Scopes, NEW g \in Tags, InvalidateTag(s, g) PROVE CacheInv'
  <2>1. CacheShape' /\ Indexed'
    BY <1>4, DeletesKeepsIndex DEF InvalidateTag
  <2>2. ASSUME NEW k \in Live(s), <<s, k>> \notin strayed'
        PROVE  k \in Live(s)' <=> g \notin written'[s][k]
    <3>1. k \in Keys /\ <<s, k>> \notin strayed /\ k \in tagged[g] <=> g \in written[s][k]
      BY <1>4, <2>2 DEF InvalidateTag, Deletes, Live, Indexed
    <3> QED
      BY <1>4, <2>2, <3>1 DEF InvalidateTag, Deletes, Live
  <2> QED
    BY <1>4, <2>1, <2>2 DEF InvalidateTag, InvalidationExact, Concerned
<1>5. ASSUME NEW s \in Scopes, InvalidatePrefix(s) PROVE CacheInv'
  <2>1. CacheShape' /\ Indexed'
    BY <1>5, DeletesKeepsIndex DEF InvalidatePrefix
  <2>2. ASSUME NEW k \in Live(s), <<s, k>> \notin strayed'
        PROVE  k \in Live(s)' <=> k \notin Prefixed
    BY <1>5, <2>2 DEF InvalidatePrefix, Deletes, Live, Indexed
  <2> QED
    BY <1>5, <2>1, <2>2 DEF InvalidatePrefix, InvalidationExact, Concerned
<1>6. ASSUME NEW s \in Scopes, NEW k \in Keys, Drops(s, k) PROVE CacheInv'
  <2>1. CacheShape' /\ Indexed'
    BY <1>6 DEF Drops, Indexed, Live, Gone
  <2> QED
    BY <1>6, <2>1 DEF Drops, InvalidationExact
<1>7. CASE CacheTick
  <2>1. CacheShape' /\ Indexed'
    BY <1>7 DEF CacheTick, Indexed, Live, Gone, Lasting
  <2> QED
    BY <1>7, <2>1 DEF CacheTick, InvalidationExact
<1>8. CASE UNCHANGED cacheVars
  BY <1>8 DEF cacheVars, Indexed, Live, InvalidationExact, Concerned
<1> QED
  BY <1>1, <1>2, <1>3, <1>4, <1>5, <1>6, <1>7, <1>8 DEF CacheNext

LEMMA CacheInvariance == CacheSpec => []CacheInv
<1>1. CacheInit => CacheInv
  BY DEF CacheInit, CacheInv, CacheShape, CacheTypeOK, Indexed, Live, InvalidationExact
<1> QED
  BY <1>1, CacheStep, PTL DEF CacheSpec

(* An invalidation removes exactly what it concerns, for any tenants,      *)
(* keys, tags and lifetimes: nothing live that carries the tag survives    *)
(* and nothing else goes, but for the entries named in strayed.            *)
THEOREM CacheInvalidatesExactly == CacheSpec => []InvalidationExact
<1>1. CacheInv => InvalidationExact
  BY DEF CacheInv
<1> QED
  BY <1>1, CacheInvariance, PTL

------------------------------------------------------------------------------
(* Storage.                                                                *)

Changes(t, o) == upload[t].at # "idle" /\ Path(t, upload[t].key) = o

(* Whoever changes a settled object does so alone.  A put of it holds its  *)
(* truncated file.                                                         *)
Alone(t, o) ==
  /\ \A u \in Uploaders \ {t} : ~Changes(u, o)
  /\ upload[t].at = "write" => upload[t].linked /\ files[o] = Blank

Permitted ==
  \A t \in Uploaders : upload[t].at # "idle" =>
    Path(t, upload[t].key) \in Objects /\ (enforced => TenantOf(t) # Nobody)
ChangedAlone == \A o \in Objects \ unsettled : \A t \in Uploaders : Changes(t, o) => Alone(t, o)
SettledKept == \A o \in Objects \ unsettled :
  (\A t \in Uploaders : ~Changes(t, o)) => files[o] = kept[o]
WrittenByOwner == \A o \in Objects \ climbed : files[o] \in Uploaders =>
  TenantOf(files[o]) = o[2] \/ (~enforced /\ TenantOf(files[o]) = Nobody)

StorageInv == StorageTypeOK /\ Permitted /\ ChangedAlone /\ SettledKept /\ WrittenByOwner

LEMMA SecondName ==
  ASSUME NEW S, NEW a \in S, NEW b \in S, NEW q \in Seq(S)
  PROVE  /\ (<<a>> \o (<<b>> \o q))[2] = b
         /\ q # <<>> => (<<a>> \o q)[2] = Head(q)
OBVIOUS

(* The space of a path: whoever has a tenant writes in its own by a key    *)
(* that does not climb.                                                    *)
LEMMA PathSpace ==
  ASSUME NEW t \in Uploaders, NEW key \in Spellings, TenantOf(t) # Nobody, ~Climbs(key)
  PROVE  Path(t, key)[2] = TenantOf(t)
<1> DEFINE parts == key.parts
           PathNames == STRING \cup {Root} \cup Spaces
<1>1. parts \in Seq(STRING) /\ parts # <<>>
  BY StorageAssumption
<1>2. Root \in PathNames /\ TenantOf(t) \in PathNames
  BY DEF Spaces
<1>3. Path(t, key) = <<Root>> \o NamespacedKey(t, key).parts
  BY DEF Path
<1>4. NamespacedKey(t, key).parts = IF InSpace(t, key) THEN parts ELSE <<TenantOf(t)>> \o parts
  BY DEF NamespacedKey, Namespaced
<1>5. InSpace(t, key) => Head(parts) = TenantOf(t)
  BY DEF InSpace
<1>6. parts \in Seq(PathNames)
  BY <1>1
<1> HIDE DEF parts, PathNames
<1> QED
  BY <1>1, <1>2, <1>3, <1>4, <1>5, <1>6, SecondName

------------------------------------------------------------------------------
(* A thread in a call: its key is a spelling, and leads to a file.         *)
LEMMA InCall ==
  ASSUME StorageTypeOK, Permitted, NEW t \in Uploaders, upload[t].at # "idle"
  PROVE  /\ upload[t] \in [at : {"write", "unlink"}, key : Spellings, linked : BOOLEAN]
         /\ upload[t].key \in Spellings
         /\ Path(t, upload[t].key) \in Objects
         /\ Changes(t, Path(t, upload[t].key))
<1>1. upload[t] \in [at : {"write", "unlink"}, key : Spellings, linked : BOOLEAN]
  BY DEF StorageTypeOK, NoUpload
<1>2. upload[t].key \in Spellings
  BY <1>1
<1> QED
  BY <1>1, <1>2 DEF Changes, Permitted

(* A put or a delete begins.                                               *)
LEMMA BeginKeeps ==
  ASSUME StorageInv, NEW t \in Uploaders, NEW key \in Spellings, NEW next \in {"write", "unlink"},
         NEW action, Authorized(t, action, key), BeginsChange(t, key, next),
         \/ next = "write" /\ files' = [files EXCEPT ![Path(t, key)] = Blank]
         \/ next = "unlink" /\ files' = files
  PROVE  StorageInv'
<1> DEFINE o == Path(t, key)
<1>1. /\ upload[t].at = "idle"
      /\ upload' = [upload EXCEPT ![t] = [at |-> next, key |-> key, linked |-> TRUE]]
      /\ unsettled' = IF Changing(o) = {} THEN unsettled \ {o} ELSE unsettled \cup {o}
      /\ changes < MaxChanges /\ changes' = changes + 1 /\ enforced' = enforced /\ kept' = kept
      /\ climbed' = climbed /\ WithinRoot(o)
  BY DEF BeginsChange
<1>2. o \in Objects
  BY <1>1 DEF Objects
<1>3. upload'[t] = [at |-> next, key |-> key, linked |-> TRUE] /\ Changes(t, o)'
  BY <1>1 DEF StorageInv, StorageTypeOK, Changes
<1>4. \A u \in Uploaders \ {t} : upload'[u] = upload[u]
  BY <1>1 DEF StorageInv, StorageTypeOK
<1>5. \A u \in Uploaders \ {t} : \A q : Changes(u, q)' <=> Changes(u, q)
  BY <1>4 DEF Changes
<1>6. \A q : Changes(t, q)' <=> q = o
  BY <1>3 DEF Changes
<1>7. \A q \in Objects \ {o} : files'[q] = files[q]
  BY <1>2 DEF StorageInv, StorageTypeOK
<1>8. StorageTypeOK'
  <2>1. upload' \in [Uploaders -> {NoUpload} \cup [at : {"write", "unlink"}, key : Spellings, linked : BOOLEAN]]
    <3> DEFINE began == [at |-> next, key |-> key, linked |-> TRUE]
               Uploads == [at : {"write", "unlink"}, key : Spellings, linked : BOOLEAN]
    <3>1. began \in Uploads /\ upload \in [Uploaders -> {NoUpload} \cup Uploads]
      BY DEF StorageInv, StorageTypeOK
    <3> HIDE DEF began, Uploads
    <3>2. upload' = [upload EXCEPT ![t] = began]
      BY <1>1 DEF began
    <3>3. upload' \in [Uploaders -> {NoUpload} \cup Uploads]
      BY <3>1, <3>2
    <3> QED
      BY <3>3 DEF Uploads
  <2>2. changes' \in 0..MaxChanges
    BY <1>1, ContentsAssumption DEF StorageInv, StorageTypeOK
  <2>3. unsettled' \subseteq Objects
    BY <1>1, <1>2 DEF StorageInv, StorageTypeOK
  <2>4. files' \in [Objects -> Uploaders \cup {Blank, Mixed, Missing}]
    BY DEF StorageInv, StorageTypeOK
  <2> QED
    BY <1>1, <2>1, <2>2, <2>3, <2>4 DEF StorageInv, StorageTypeOK
<1>9. Permitted'
  BY <1>1, <1>2, <1>3, <1>4 DEF StorageInv, Permitted, Authorized
<1>10. ChangedAlone'
  <2> SUFFICES ASSUME NEW q \in Objects, q \notin unsettled', NEW u \in Uploaders, Changes(u, q)'
               PROVE  Alone(u, q)'
    BY DEF ChangedAlone
  <2>1. CASE q = o
    <3>1. \A v \in Uploaders : ~Changes(v, o)
      BY <1>1, <2>1 DEF Changing, Changes
    <3>2. u = t
      BY <1>5, <2>1, <3>1
    <3>3. next = "write" => files'[o] = Blank
      BY <1>2 DEF StorageInv, StorageTypeOK
    <3> QED
      BY <1>3, <1>5, <2>1, <3>1, <3>2, <3>3 DEF Alone
  <2>2. CASE q # o
    <3>1. u # t /\ Changes(u, q) /\ q \notin unsettled
      BY <1>1, <1>5, <1>6, <2>2
    <3>2. Alone(u, q)
      BY <3>1 DEF StorageInv, ChangedAlone
    <3> QED
      BY <1>4, <1>5, <1>6, <1>7, <2>2, <3>1, <3>2 DEF Alone
  <2> QED
    BY <2>1, <2>2
<1>11. SettledKept'
  <2> SUFFICES ASSUME NEW q \in Objects, q \notin unsettled', \A u \in Uploaders : ~Changes(u, q)'
               PROVE  files'[q] = kept'[q]
    BY DEF SettledKept
  <2>1. q # o /\ q \notin unsettled
    BY <1>1, <1>3
  <2>2. \A u \in Uploaders : ~Changes(u, q)
    BY <1>1, <1>5 DEF Changes
  <2> QED
    BY <1>1, <1>7, <2>1, <2>2 DEF StorageInv, SettledKept
<1>12. WrittenByOwner'
  BY <1>1, <1>2, ContentsAssumption DEF StorageInv, StorageTypeOK, WrittenByOwner
<1> QED
  BY <1>8, <1>9, <1>10, <1>11, <1>12 DEF StorageInv

(* A put or a delete ends: its file then holds the content, if nobody else *)
(* changed the object meanwhile.  A delete unlinks the puts of the file.   *)
LEMMA EndKeeps ==
  ASSUME StorageInv, NEW t \in Uploaders, upload[t].at # "idle",
         NEW content \in Uploaders \cup {Missing}, EndsChange(t, content),
         StorageTypeOK', upload'[t] = NoUpload,
         \A u \in Uploaders \ {t} :
           \/ upload'[u] = upload[u]
           \/ /\ upload[u].at # "idle" /\ Path(u, upload[u].key) = Path(t, upload[t].key)
              /\ upload'[u].at = upload[u].at /\ upload'[u].key = upload[u].key,
         \A p \in Objects \ {Path(t, upload[t].key)} :
           files'[p] = files[p] /\ (p \in climbed => p \in climbed'),
         Alone(t, Path(t, upload[t].key)) => files'[Path(t, upload[t].key)] = content,
         \/ files' = files /\ climbed' = climbed
         \/ files'[Path(t, upload[t].key)] \in {Mixed, Missing}
         \/ /\ files'[Path(t, upload[t].key)] = t
            /\ Path(t, upload[t].key) \notin climbed' => ~Climbs(upload[t].key)
  PROVE  StorageInv'
<1> DEFINE o == Path(t, upload[t].key)
<1>1. kept' = [kept EXCEPT ![o] = content] /\ enforced' = enforced /\ unsettled' = unsettled
  BY DEF EndsChange
<1>2. o \in Objects /\ Changes(t, o) /\ upload[t].key \in Spellings
  BY InCall DEF StorageInv
<1>3. \A q : ~Changes(t, q)'
  BY DEF Changes, NoUpload
<1>4. \A u \in Uploaders \ {t} : \A q : Changes(u, q)' <=> Changes(u, q)
  BY DEF Changes
<1>5. \A q \in Objects \ {o} : files'[q] = files[q]
  BY <1>2
<1>6. \A q \in Objects \ {o} : Changes(t, q) => FALSE
  BY DEF Changes
<1>7. \A u \in Uploaders \ {t}, q \in Objects \ {o} : Changes(u, q) => upload'[u] = upload[u]
  BY DEF Changes
<1>8. Permitted'
  BY <1>1, InCall DEF StorageInv, Permitted, NoUpload
<1>9. ChangedAlone'
  <2> SUFFICES ASSUME NEW q \in Objects, q \notin unsettled, NEW u \in Uploaders, Changes(u, q)'
               PROVE  Alone(u, q)'
    BY <1>1 DEF ChangedAlone
  <2>1. u # t /\ Changes(u, q)
    BY <1>3, <1>4
  <2>2. Alone(u, q)
    BY <2>1 DEF StorageInv, ChangedAlone
  <2>3. q # o
    BY <1>2, <2>1, <2>2 DEF Alone
  <2> QED
    BY <1>3, <1>4, <1>5, <1>7, <2>1, <2>2, <2>3 DEF Alone
<1>10. SettledKept'
  <2> SUFFICES ASSUME NEW q \in Objects, q \notin unsettled, \A u \in Uploaders : ~Changes(u, q)'
               PROVE  files'[q] = kept'[q]
    BY <1>1 DEF SettledKept
  <2>1. CASE q = o
    <3>1. Alone(t, o)
      BY <1>2, <2>1 DEF StorageInv, ChangedAlone
    <3> QED
      BY <1>1, <1>2, <2>1, <3>1 DEF StorageInv, StorageTypeOK
  <2>2. CASE q # o
    <3>1. \A u \in Uploaders : ~Changes(u, q)
      BY <1>4, <1>6, <2>2
    <3> QED
      BY <1>1, <1>5, <2>2, <3>1 DEF StorageInv, StorageTypeOK, SettledKept
  <2> QED
    BY <2>1, <2>2
<1>11. WrittenByOwner'
  <2> SUFFICES ASSUME NEW p \in Objects, p \notin climbed', files'[p] \in Uploaders
               PROVE  TenantOf(files'[p]) = p[2] \/ (~enforced /\ TenantOf(files'[p]) = Nobody)
    BY <1>1 DEF WrittenByOwner
  <2>1. CASE files'[p] = files[p] /\ p \notin climbed
    BY <2>1 DEF StorageInv, WrittenByOwner
  <2>2. CASE p = o /\ files'[p] = t /\ ~Climbs(upload[t].key)
    <3>1. TenantOf(t) # Nobody => o[2] = TenantOf(t)
      BY <1>2, <2>2, PathSpace
    <3> QED
      BY <2>2, <3>1 DEF StorageInv, Permitted
  <2> QED
    BY <2>1, <2>2, ContentsAssumption
<1> QED
  BY <1>8, <1>9, <1>10, <1>11 DEF StorageInv

LEMMA StorageStep == StorageInv /\ [StorageNext]_storageVars => StorageInv'
<1> SUFFICES ASSUME StorageInv, [StorageNext]_storageVars PROVE StorageInv'
  OBVIOUS
<1>1. ASSUME NEW t \in Uploaders, NEW key \in Spellings, OpensFile(t, key) PROVE StorageInv'
  BY <1>1, BeginKeeps DEF OpensFile
<1>2. ASSUME NEW t \in Uploaders, NEW key \in Spellings, FindsFile(t, key) PROVE StorageInv'
  BY <1>2, BeginKeeps DEF FindsFile
<1>3. ASSUME NEW t \in Uploaders, WritesFile(t) PROVE StorageInv'
  <2> DEFINE path == Path(t, upload[t].key)
  <2>1. /\ upload[t].at = "write" /\ upload' = [upload EXCEPT ![t] = NoUpload] /\ EndsChange(t, t)
        /\ IF upload[t].linked
           THEN /\ \E content \in {t} \cup (IF files[path] = Blank THEN {} ELSE {Mixed}) :
                     files' = [files EXCEPT ![path] = content]
                /\ climbed' = IF Climbs(upload[t].key) THEN climbed \cup {path} ELSE climbed \ {path}
           ELSE files' = files /\ climbed' = climbed
    BY <1>3 DEF WritesFile
  <2>2. path \in Objects
    BY <2>1, InCall DEF StorageInv
  <2>3. upload'[t] = NoUpload /\ \A u \in Uploaders \ {t} : upload'[u] = upload[u]
    BY <2>1 DEF StorageInv, StorageTypeOK
  <2>4. \A p \in Objects \ {path} : files'[p] = files[p] /\ (p \in climbed => p \in climbed')
    BY <2>1 DEF StorageInv, StorageTypeOK
  <2>5. \/ files' = files /\ climbed' = climbed
        \/ files'[path] \in {Mixed, Missing}
        \/ files'[path] = t /\ (path \notin climbed' => ~Climbs(upload[t].key))
    BY <2>1, <2>2 DEF StorageInv, StorageTypeOK
  <2>6. Alone(t, Path(t, upload[t].key)) => files'[path] = t
    BY <2>1, <2>2 DEF StorageInv, StorageTypeOK, Alone
  <2>7. StorageTypeOK'
    <3>1. files' \in [Objects -> Uploaders \cup {Blank, Mixed, Missing}]
      BY <2>1 DEF StorageInv, StorageTypeOK
    <3>2. kept' \in [Objects -> Uploaders \cup {Missing}]
      BY <2>1 DEF StorageInv, StorageTypeOK, EndsChange
    <3>3. upload' \in [Uploaders -> {NoUpload} \cup [at : {"write", "unlink"}, key : Spellings, linked : BOOLEAN]]
      BY <2>1 DEF StorageInv, StorageTypeOK
    <3>4. climbed' \subseteq Objects
      BY <2>1, <2>2 DEF StorageInv, StorageTypeOK
    <3> QED
      BY <2>1, <3>1, <3>2, <3>3, <3>4 DEF StorageInv, StorageTypeOK, EndsChange
  <2> HIDE DEF path
  <2> QED
    BY <2>1, <2>3, <2>4, <2>5, <2>6, <2>7, EndKeeps DEF path, StorageInv
<1>4. ASSUME NEW t \in Uploaders, WriteRaises(t) PROVE StorageInv'
  <2> DEFINE o == Path(t, upload[t].key)
  <2>1. /\ upload[t].at = "write" /\ upload' = [upload EXCEPT ![t] = NoUpload]
        /\ unsettled' = unsettled \cup {o}
        /\ enforced' = enforced /\ files' = files /\ changes' = changes /\ kept' = kept /\ climbed' = climbed
    BY <1>4 DEF WriteRaises
  <2>2. o \in Objects
    BY <2>1, InCall DEF StorageInv
  <2>3. upload'[t] = NoUpload /\ \A u \in Uploaders \ {t} : upload'[u] = upload[u]
    BY <2>1 DEF StorageInv, StorageTypeOK
  <2>4. StorageTypeOK'
    <3>1. upload' \in [Uploaders -> {NoUpload} \cup [at : {"write", "unlink"}, key : Spellings, linked : BOOLEAN]]
      BY <2>1 DEF StorageInv, StorageTypeOK
    <3> QED
      BY <2>1, <2>2, <3>1 DEF StorageInv, StorageTypeOK
  <2>5. \A u \in Uploaders, q \in Objects \ {o} : Changes(u, q)' <=> Changes(u, q)
    BY <2>1, <2>3 DEF Changes, NoUpload
  <2>6. \A u \in Uploaders, q \in Objects \ {o} : Changes(u, q) => u # t
    BY DEF Changes
  <2>7. Permitted'
    BY <2>1, <2>3 DEF StorageInv, Permitted, NoUpload
  <2>8. ChangedAlone'
    <3> SUFFICES ASSUME NEW q \in Objects, q # o, q \notin unsettled, NEW u \in Uploaders, Changes(u, q)'
                 PROVE  Alone(u, q)'
      BY <2>1 DEF ChangedAlone
    <3>1. Changes(u, q) /\ u # t
      BY <2>5, <2>6
    <3>2. Alone(u, q)
      BY <3>1 DEF StorageInv, ChangedAlone
    <3> QED
      BY <2>1, <2>3, <2>5, <3>1, <3>2 DEF Alone
  <2>9. SettledKept'
    <3> SUFFICES ASSUME NEW q \in Objects, q # o, q \notin unsettled, \A u \in Uploaders : ~Changes(u, q)'
                 PROVE  files[q] = kept[q]
      BY <2>1 DEF SettledKept
    <3> QED
      BY <2>5 DEF StorageInv, SettledKept
  <2>10. WrittenByOwner'
    BY <2>1 DEF StorageInv, WrittenByOwner
  <2> QED
    BY <2>4, <2>7, <2>8, <2>9, <2>10 DEF StorageInv
<1>5. ASSUME NEW t \in Uploaders, UnlinksFile(t) PROVE StorageInv'
  <2> DEFINE path == Path(t, upload[t].key)
             Unlinked(u) == IF u = t THEN NoUpload
                            ELSE IF upload[u].at = "write" /\ Path(u, upload[u].key) = path
                            THEN [upload[u] EXCEPT !.linked = FALSE] ELSE upload[u]
  <2>1. /\ upload[t].at = "unlink" /\ EndsChange(t, Missing) /\ climbed' = climbed
        /\ upload' = [u \in Uploaders |-> Unlinked(u)]
        /\ files' = [files EXCEPT ![path] = Missing]
    BY <1>5 DEF UnlinksFile
  <2>2. path \in Objects
    BY <2>1, InCall DEF StorageInv
  <2>3. ASSUME NEW u \in Uploaders \ {t}
        PROVE  /\ \/ upload'[u] = upload[u]
                  \/ /\ upload[u].at # "idle" /\ Path(u, upload[u].key) = path
                     /\ upload'[u].at = upload[u].at /\ upload'[u].key = upload[u].key
               /\ upload'[u] \in {NoUpload} \cup [at : {"write", "unlink"}, key : Spellings, linked : BOOLEAN]
    <3>1. CASE upload[u].at = "write" /\ Path(u, upload[u].key) = path
      <4>1. upload'[u] = [upload[u] EXCEPT !.linked = FALSE]
        BY <2>1, <3>1
      <4>2. upload[u] \in [at : {"write", "unlink"}, key : Spellings, linked : BOOLEAN]
        BY <3>1, InCall DEF StorageInv
      <4> QED
        BY <3>1, <4>1, <4>2
    <3>2. CASE ~(upload[u].at = "write" /\ Path(u, upload[u].key) = path)
      BY <2>1, <3>2 DEF StorageInv, StorageTypeOK
    <3> QED
      BY <3>1, <3>2
  <2>4. upload'[t] = NoUpload
    BY <2>1
  <2>5. \A p \in Objects \ {path} : files'[p] = files[p] /\ (p \in climbed => p \in climbed')
    BY <2>1 DEF StorageInv, StorageTypeOK
  <2>6. files'[path] = Missing
    BY <2>1, <2>2 DEF StorageInv, StorageTypeOK
  <2>7. StorageTypeOK'
    <3>1. files' \in [Objects -> Uploaders \cup {Blank, Mixed, Missing}]
      BY <2>1 DEF StorageInv, StorageTypeOK
    <3>2. kept' \in [Objects -> Uploaders \cup {Missing}]
      BY <2>1 DEF StorageInv, StorageTypeOK, EndsChange
    <3>3. upload' \in [Uploaders -> {NoUpload} \cup [at : {"write", "unlink"}, key : Spellings, linked : BOOLEAN]]
      <4> HIDE DEF Unlinked
      <4>1. \A u \in Uploaders : upload'[u] \in {NoUpload} \cup [at : {"write", "unlink"}, key : Spellings, linked : BOOLEAN]
        BY <2>3, <2>4
      <4> QED
        BY <2>1, <4>1
    <3> QED
      BY <2>1, <3>1, <3>2, <3>3 DEF StorageInv, StorageTypeOK, EndsChange
  <2> HIDE DEF path
  <2> QED
    BY <2>1, <2>3, <2>4, <2>5, <2>6, <2>7, EndKeeps DEF path
<1>6. CASE UNCHANGED storageVars
  <2>1. \A u, q : Changes(u, q)' <=> Changes(u, q)
    BY <1>6 DEF storageVars, Changes
  <2>2. \A u, q : Alone(u, q) => Alone(u, q)'
    BY <1>6, <2>1 DEF storageVars, Alone
  <2>3. StorageTypeOK' /\ Permitted' /\ WrittenByOwner'
    BY <1>6 DEF storageVars, StorageInv, StorageTypeOK, Permitted, WrittenByOwner
  <2>4. ChangedAlone' /\ SettledKept'
    BY <1>6, <2>1, <2>2 DEF storageVars, StorageInv, ChangedAlone, SettledKept
  <2> QED
    BY <2>3, <2>4 DEF StorageInv
<1> QED
  BY <1>1, <1>2, <1>3, <1>4, <1>5, <1>6 DEF StorageNext

LEMMA StorageInvariance == StorageSpec => []StorageInv
<1>1. StorageInit => StorageInv
  <2> SUFFICES ASSUME StorageInit PROVE StorageInv
    OBVIOUS
  <2>1. \A o \in Objects : files[o] = kept[o]
    BY DEF StorageInit
  <2> QED
    BY <2>1, ContentsAssumption
    DEF StorageInit, StorageInv, StorageTypeOK, Permitted, ChangedAlone, SettledKept, WrittenByOwner, Changes, NoUpload
<1> QED
  BY <1>1, StorageStep, PTL DEF StorageSpec

(* Whatever overlaps and however keys are spelled, a file that is settled  *)
(* holds what the last change of it left; and what it holds was written    *)
(* for the tenant of its space, by a caller without one where no policy    *)
(* forbids it, or by a key with ".." in it: for any threads, tenants,      *)
(* roles and spellings, whatever such a key leads to.                      *)
THEOREM StorageKeepsObjects == StorageSpec => []ObjectsKept
<1>1. ASSUME StorageInv PROVE ObjectsKept
  <2>1. ASSUME NEW o \in Objects \ unsettled, Changing(o) = {}
        PROVE  files[o] = kept[o]
    <3>1. \A u \in Uploaders : ~Changes(u, o)
      BY <2>1 DEF Changing, Changes
    <3> QED
      BY <1>1, <3>1 DEF StorageInv, SettledKept
  <2> QED
    BY <1>1, <2>1 DEF StorageInv, WrittenByOwner, ObjectsKept
<1> QED
  BY <1>1, StorageInvariance, PTL

------------------------------------------------------------------------------
(* FeatureFlags.                                                           *)

(* That a flag was on for somebody by its definition of a stage, unless it *)
(* has ended since.                                                        *)
OnBy(i, f, c) ==
  LET d == Plan[i][f]
  IN /\ d.enabled /\ d.starts <= clock
     /\ \/ c.actor \in d.actors
        \/ c.tenant \in d.tenants
        \/ /\ Admits(d.environments, c.environment) /\ Admits(d.cohorts, c.cohort)
           /\ InRollout(d, f, c)

(* The only reload under way, if it found any definitions: it will leave   *)
(* what it loaded.                                                         *)
Reloads(t) == alone = t /\ loading[t].at # "idle" /\ loading[t].stage # 0

ReloadsAlone ==
  \A t \in Loaders : Reloads(t) =>
    /\ \A s \in Loaders \ {t} : loading[s].at = "idle"
    /\ loading[t].at = "loaded" => loading[t].left = Flags
    /\ loading[t].at = "cleared" => \A f \in Flags \ loading[t].left : flags[f] = loading[t].stage

(* Nobody has seen a later stage than the present one; a lone reload has   *)
(* seen no earlier one than whole flags have.                              *)
StagesSeen ==
  /\ \A f \in Flags : flags[f] <= stage
  /\ \A t \in Loaders : loading[t].stage <= stage
  /\ whole => \A t \in Loaders, f \in Flags : Reloads(t) => flags[f] <= loading[t].stage

WholeIsQuiet == whole => \A t \in Loaders : loading[t].at # "cleared"

(* A flag once answered on was on by a stage that the registered flags     *)
(* have reached, when they are whole, and that a lone reload has.          *)
ServedBy(i, f, c) ==
  /\ OnBy(i, f, c)
  /\ whole => i <= flags[f]
  /\ \A t \in Loaders : Reloads(t) => i <= loading[t].stage

ServedInv ==
  \A f \in Flags, c \in Contexts : <<f, c>> \in served => \E i \in 1..stage : ServedBy(i, f, c)

FlagsInv == FlagsTypeOK /\ ReloadsAlone /\ WholeIsQuiet /\ StagesSeen /\ ServedInv

LEMMA MaxOfTwo ==
  ASSUME NEW a \in Int, NEW b \in Int
  PROVE  Max({a, b}) = IF a >= b THEN a ELSE b
<1> DEFINE most == IF a >= b THEN a ELSE b
<1>1. most \in {a, b} /\ \A y \in {a, b} : most >= y
  OBVIOUS
<1>2. \A x \in {a, b} : (\A y \in {a, b} : x >= y) => x = most
  OBVIOUS
<1> QED
  BY <1>1, <1>2 DEF Max

LEMMA MinOfTwo ==
  ASSUME NEW a \in Int, NEW b \in Int
  PROVE  Min({a, b}) = IF a <= b THEN a ELSE b
<1> DEFINE least == IF a <= b THEN a ELSE b
<1>1. least \in {a, b} /\ \A y \in {a, b} : least <= y
  OBVIOUS
<1>2. \A x \in {a, b} : (\A y \in {a, b} : x <= y) => x = least
  OBVIOUS
<1> QED
  BY <1>1, <1>2 DEF Min

(* Who is in a rollout stays in it when the percentage grows.              *)
LEMMA RolloutGrows ==
  ASSUME NEW d, NEW e, NEW f \in Flags, NEW c \in Contexts, d.rollout \in Int, e.rollout \in Int,
         d.rollout <= e.rollout, InRollout(d, f, c)
  PROVE  InRollout(e, f, c)
<1> DEFINE Clamped(r) == Max({0, Min({100, r})})
<1>1. \A r \in Int : Clamped(r) = IF r < 0 THEN 0 ELSE IF r > 100 THEN 100 ELSE r
  <2> SUFFICES ASSUME NEW r \in Int
               PROVE  Clamped(r) = IF r < 0 THEN 0 ELSE IF r > 100 THEN 100 ELSE r
    OBVIOUS
  <2> DEFINE low == Min({100, r})
  <2>1. low = IF 100 <= r THEN 100 ELSE r
    BY MinOfTwo
  <2>2. low \in Int
    BY <2>1
  <2> HIDE DEF low
  <2>3. Max({0, low}) = IF 0 >= low THEN 0 ELSE low
    BY <2>2, MaxOfTwo
  <2> QED
    BY <2>1, <2>3 DEF low
<1>2. Bucket[<<f, Subject(c)>>] \in Int
  BY BucketAssumption
<1>3. Bucket[<<f, Subject(c)>>] < Clamped(d.rollout)
  BY DEF InRollout
<1> HIDE DEF Clamped
<1>4. Bucket[<<f, Subject(c)>>] < Clamped(e.rollout)
  BY <1>1, <1>2, <1>3
<1> QED
  BY <1>4 DEF InRollout, Clamped

(* A flag that was on for somebody is so by every later stage.             *)
LEMMA OnByWidens ==
  ASSUME NEW i \in 1..Stages, NEW j \in 1..Stages, i <= j, NEW f \in Flags, NEW c \in Contexts,
         clock \in Int, OnBy(i, f, c)
  PROVE  OnBy(j, f, c) /\ Plan[j][f].ends = Plan[i][f].ends
<1> DEFINE d == Plan[i][f]
           e == Plan[j][f]
<1>1. Widens(d, e)
  BY PlanAssumption
<1>2. d.starts \in Int /\ e.starts \in Int /\ d.rollout \in Int /\ e.rollout \in Int
  BY FlagsAssumption
<1>3. InRollout(d, f, c) => InRollout(e, f, c)
  BY <1>1, <1>2, RolloutGrows DEF Widens
<1> QED
  BY <1>1, <1>2, <1>3 DEF OnBy, Widens, Admits

LEMMA OnIsOnBy ==
  ASSUME FlagsTypeOK, NEW f \in Flags, NEW c \in Contexts
  PROVE  On(f, c) <=> /\ flags[f] # 0 /\ OnBy(flags[f], f, c) /\ clock < Plan[flags[f]][f].ends
BY DEF On, OnBy, Running

------------------------------------------------------------------------------
(* What was served remains served by the same stage, if that stage stays   *)
(* below the flags and the lone reload.                                    *)
LEMMA ServedStays ==
  ASSUME FlagsTypeOK, ServedInv, served' \subseteq served, stage \in Int, stage' \in Int, stage <= stage',
         clock \in Int, clock' \in Int, clock <= clock',
         \A i \in 1..stage, f \in Flags : (whole => i <= flags[f]) /\ (\A t \in Loaders : Reloads(t) => i <= loading[t].stage)
           => (whole' => i <= flags'[f]) /\ (\A t \in Loaders : Reloads(t)' => i <= loading'[t].stage)
  PROVE  ServedInv'
<1> SUFFICES ASSUME NEW f \in Flags, NEW c \in Contexts, <<f, c>> \in served
             PROVE  \E i \in 1..stage' : ServedBy(i, f, c)'
  BY DEF ServedInv
<1>1. PICK i \in 1..stage : ServedBy(i, f, c)
  BY DEF ServedInv
<1>2. i \in 1..stage' /\ i \in 1..Stages
  BY FlagsAssumption DEF FlagsTypeOK
<1>3. OnBy(i, f, c)'
  BY <1>1, <1>2, FlagsAssumption DEF ServedBy, OnBy, InRollout, Admits
<1> QED
  BY <1>1, <1>2, <1>3 DEF ServedBy

LEMMA FlagsStep == FlagsInv /\ [FlagsNext]_flagVars => FlagsInv'
<1> SUFFICES ASSUME FlagsInv, [FlagsNext]_flagVars PROVE FlagsInv'
  OBVIOUS
<1> USE FlagsAssumption
<1>a. /\ FlagsTypeOK /\ ReloadsAlone /\ WholeIsQuiet /\ StagesSeen /\ ServedInv
      /\ stage \in Int /\ clock \in Int /\ stage \in 1..Stages
      /\ \A t \in Loaders : loading[t].stage \in 0..Stages
  BY DEF FlagsInv, FlagsTypeOK
<1>1. CASE PlanAdvances
  <2>1. FlagsTypeOK' /\ ReloadsAlone' /\ WholeIsQuiet' /\ StagesSeen'
    BY <1>a, <1>1 DEF PlanAdvances, FlagsTypeOK, ReloadsAlone, WholeIsQuiet, StagesSeen, Reloads
  <2>2. ServedInv'
    BY <1>a, <1>1, ServedStays DEF PlanAdvances, Reloads
  <2> QED
    BY <2>1, <2>2 DEF FlagsInv
<1>2. CASE FlagTick
  <2>1. FlagsTypeOK' /\ ReloadsAlone' /\ WholeIsQuiet' /\ StagesSeen'
    BY <1>a, <1>2 DEF FlagTick, FlagsTypeOK, ReloadsAlone, WholeIsQuiet, StagesSeen, Reloads
  <2>2. ServedInv'
    BY <1>a, <1>2, ServedStays DEF FlagTick, Reloads
  <2> QED
    BY <2>1, <2>2 DEF FlagsInv
<1>3. ASSUME NEW t \in Loaders, Loads(t) PROVE FlagsInv'
  <2>1. FlagsTypeOK'
    BY <1>a, <1>3 DEF Loads, FlagsTypeOK, Idle
  <2>2. ReloadsAlone' /\ WholeIsQuiet' /\ StagesSeen'
    BY <1>a, <1>3 DEF Loads, FlagsTypeOK, Idle, ReloadsAlone, WholeIsQuiet, StagesSeen, Reloads
  <2>3. ServedInv'
    BY <1>a, <1>3, ServedStays DEF Loads, FlagsTypeOK, Idle, Reloads
  <2> QED
    BY <2>1, <2>2, <2>3 DEF FlagsInv
<1>4. ASSUME NEW t \in Loaders, Clears(t) PROVE FlagsInv'
  <2>l. loading' = [loading EXCEPT ![t] = [loading[t] EXCEPT !.at = "cleared"]]
    BY <1>4 DEF Clears
  <2>a. /\ loading[t].at = "loaded" /\ flags' = [f \in Flags |-> 0] /\ whole' = FALSE
        /\ stage' = stage /\ clock' = clock /\ alone' = alone /\ served' = served
    BY <1>4 DEF Clears
  <2>b. /\ loading'[t].at = "cleared" /\ loading'[t].stage = loading[t].stage
        /\ loading'[t].left = loading[t].left /\ \A s \in Loaders \ {t} : loading'[s] = loading[s]
        /\ loading'[t] \in [at : {"idle", "loaded", "cleared"}, stage : 0..Stages, left : SUBSET Flags]
    BY <1>a, <2>a, <2>l DEF FlagsTypeOK
  <2>1. FlagsTypeOK'
    <3>1. loading' \in [Loaders -> [at : {"idle", "loaded", "cleared"}, stage : 0..Stages, left : SUBSET Flags]]
      <4> DEFINE Loadings == [at : {"idle", "loaded", "cleared"}, stage : 0..Stages, left : SUBSET Flags]
      <4>1. loading \in [Loaders -> Loadings] /\ loading'[t] \in Loadings
        BY <1>a, <2>b DEF FlagsTypeOK
      <4> HIDE DEF Loadings
      <4>2. loading' \in [Loaders -> Loadings]
        BY <2>l, <2>b, <4>1
      <4> QED
        BY <4>2 DEF Loadings
    <3>2. flags' \in [Flags -> 0..Stages]
      <4>1. 0 \in 0..Stages
        BY FlagsAssumption
      <4> QED
        BY <2>a, <4>1
    <3>3. stage' \in 1..Stages /\ clock' \in 0..MaxClock /\ alone' \in Loaders \cup {NoLoader}
          /\ served' \subseteq Flags \X Contexts
      BY <1>a, <2>a DEF FlagsTypeOK
    <3>4. whole' \in BOOLEAN
      BY <2>a
    <3> QED
      BY <3>4, <3>1, <3>2, <3>3 DEF FlagsTypeOK
  <2>2. ReloadsAlone' /\ WholeIsQuiet' /\ StagesSeen'
    <3>1. ReloadsAlone'
      <4> SUFFICES ASSUME NEW s \in Loaders, Reloads(s)'
                   PROVE  /\ loading'[s].at # "loaded"
                          /\ \A r \in Loaders \ {s} : loading'[r].at = "idle"
                          /\ loading'[s].at = "cleared" =>
                               \A f \in Flags \ loading'[s].left : flags'[f] = loading'[s].stage
        BY DEF ReloadsAlone
      <4>1. Reloads(s)
        BY <2>a, <2>b DEF Reloads
      <4>2. s = t
        BY <1>a, <2>a, <4>1 DEF ReloadsAlone
      <4>3. loading[t].left = Flags
        BY <1>a, <2>a, <4>1, <4>2 DEF ReloadsAlone
      <4> QED
        BY <1>a, <2>a, <2>b, <4>1, <4>2, <4>3 DEF ReloadsAlone
    <3>2. WholeIsQuiet' /\ StagesSeen'
      BY <1>a, <2>a, <2>b DEF WholeIsQuiet, StagesSeen
    <3> QED
      BY <3>1, <3>2
  <2>3. ServedInv'
    BY <1>a, <1>4, ServedStays DEF Clears, FlagsTypeOK, Reloads
  <2> QED
    BY <2>1, <2>2, <2>3 DEF FlagsInv
<1>5. ASSUME NEW t \in Loaders, RegistersNext(t) PROVE FlagsInv'
  <2>1. PICK f \in loading[t].left :
          /\ flags' = [flags EXCEPT ![f] = loading[t].stage]
          /\ loading' = [loading EXCEPT ![t].left = @ \ {f}]
    BY <1>5 DEF RegistersNext
  <2>2. loading[t].at = "cleared" /\ ~whole /\ f \in Flags
        /\ stage' = stage /\ clock' = clock /\ alone' = alone /\ whole' = whole /\ served' = served
    BY <1>a, <1>5 DEF RegistersNext, WholeIsQuiet, FlagsTypeOK
  <2>3. FlagsTypeOK'
    BY <1>a, <2>1, <2>2 DEF FlagsTypeOK
  <2>4. /\ loading'[t].at = "cleared" /\ loading'[t].stage = loading[t].stage
        /\ loading'[t].left = loading[t].left \ {f}
        /\ \A s \in Loaders \ {t} : loading'[s] = loading[s]
        /\ flags'[f] = loading[t].stage /\ \A g \in Flags \ {f} : flags'[g] = flags[g]
    BY <1>a, <2>1, <2>2 DEF FlagsTypeOK
  <2>5. ReloadsAlone'
    BY <1>a, <2>2, <2>4 DEF ReloadsAlone, Reloads
  <2>6. WholeIsQuiet' /\ StagesSeen'
    BY <1>a, <2>2, <2>4 DEF WholeIsQuiet, StagesSeen
  <2>7. ServedInv'
    <3>1. \A s \in Loaders : (Reloads(s)' <=> Reloads(s)) /\ loading'[s].stage = loading[s].stage
      BY <2>2, <2>4 DEF Reloads
    <3> QED
      BY <1>a, <2>2, <3>1, ServedStays
  <2> QED
    BY <2>3, <2>5, <2>6, <2>7 DEF FlagsInv
<1>6. ASSUME NEW t \in Loaders, ReloadEnds(t) PROVE FlagsInv'
  <2>1. FlagsTypeOK'
    BY <1>a, <1>6 DEF ReloadEnds, FlagsTypeOK, Idle
  <2>2. ReloadsAlone' /\ WholeIsQuiet' /\ StagesSeen'
    BY <1>a, <1>6 DEF ReloadEnds, FlagsTypeOK, Idle, ReloadsAlone, WholeIsQuiet, StagesSeen, Reloads
  <2>3. ServedInv'
    BY <1>a, <1>6, ServedStays DEF ReloadEnds, FlagsTypeOK, Idle, ReloadsAlone, Reloads
  <2> QED
    BY <2>1, <2>2, <2>3 DEF FlagsInv
<1>7. ASSUME NEW t \in Loaders, ReloadRaises(t) PROVE FlagsInv'
  <2>1. FlagsTypeOK'
    BY <1>a, <1>7 DEF ReloadRaises, FlagsTypeOK, Idle
  <2>2. ReloadsAlone' /\ WholeIsQuiet' /\ StagesSeen'
    BY <1>a, <1>7 DEF ReloadRaises, FlagsTypeOK, Idle, ReloadsAlone, WholeIsQuiet, StagesSeen, Reloads
  <2>3. ServedInv'
    BY <1>a, <1>7, ServedStays DEF ReloadRaises, FlagsTypeOK, Idle, Reloads
  <2> QED
    BY <2>1, <2>2, <2>3 DEF FlagsInv
<1>8. ASSUME NEW f \in Flags, RegistersOne(f) PROVE FlagsInv'
  <2>1. FlagsTypeOK'
    BY <1>a, <1>8 DEF RegistersOne, FlagsTypeOK
  <2>2. ReloadsAlone' /\ WholeIsQuiet' /\ StagesSeen'
    BY <1>a, <1>8 DEF RegistersOne, FlagsTypeOK, ReloadsAlone, WholeIsQuiet, StagesSeen, Reloads
  <2>3. ServedInv'
    BY <1>a, <1>8, ServedStays DEF RegistersOne, FlagsTypeOK, Reloads
  <2> QED
    BY <2>1, <2>2, <2>3 DEF FlagsInv
<1>9. ASSUME NEW f \in Flags, NEW c \in Contexts, Evaluate(f, c) PROVE FlagsInv'
  <2>1. FlagsTypeOK' /\ ReloadsAlone' /\ WholeIsQuiet' /\ StagesSeen'
    BY <1>a, <1>9 DEF Evaluate, FlagsTypeOK, ReloadsAlone, WholeIsQuiet, StagesSeen, Reloads
  <2>2. \A g \in Flags, e \in Contexts : \A i \in 1..stage : ServedBy(i, g, e) => ServedBy(i, g, e)'
    BY <1>9 DEF Evaluate, ServedBy, OnBy, InRollout, Admits, Reloads
  <2>3. ServedBy(flags[f], f, c) /\ flags[f] \in 1..stage
    <3>1. flags[f] \in 0..Stages /\ flags[f] # 0 /\ OnBy(flags[f], f, c) /\ whole
      BY <1>a, <1>9, OnIsOnBy DEF Evaluate, FlagsTypeOK
    <3> QED
      BY <1>a, <3>1 DEF ServedBy, StagesSeen
  <2>4. stage' = stage /\ served' = served \cup {<<f, c>>}
    BY <1>9 DEF Evaluate
  <2>5. ServedInv'
    BY <1>a, <2>2, <2>3, <2>4 DEF ServedInv
  <2> QED
    BY <2>1, <2>5 DEF FlagsInv
<1>10. CASE UNCHANGED flagVars
  <2>1. FlagsTypeOK' /\ ReloadsAlone' /\ WholeIsQuiet' /\ StagesSeen'
    BY <1>a, <1>10 DEF flagVars, FlagsTypeOK, ReloadsAlone, WholeIsQuiet, StagesSeen, Reloads
  <2>2. ServedInv'
    BY <1>a, <1>10, ServedStays DEF flagVars, Reloads
  <2> QED
    BY <2>1, <2>2 DEF FlagsInv
<1> QED
  BY <1>1, <1>2, <1>3, <1>4, <1>5, <1>6, <1>7, <1>8, <1>9, <1>10 DEF FlagsNext

LEMMA FlagsInvariance == FlagsSpec => []FlagsInv
<1>1. FlagsInit => FlagsInv
  BY FlagsAssumption
  DEF FlagsInit, FlagsInv, FlagsTypeOK, Idle, ReloadsAlone, WholeIsQuiet, StagesSeen, ServedInv, Reloads
<1> QED
  BY <1>1, FlagsStep, PTL DEF FlagsSpec

(* A rollout that only widens never takes a flag back from whom it was     *)
(* answered on, whichever stage each reload caught and however reloads,    *)
(* registrations and evaluations interleave outside of the exceptions:     *)
(* for any flags, contexts, loaders, plans and hash of subjects.           *)
THEOREM RolloutKeepsFlagsOn == FlagsSpec => []OnceOnStaysOn
<1>1. ASSUME FlagsInv PROVE OnceOnStaysOn
  <2> SUFFICES ASSUME NEW f \in Flags, NEW c \in Contexts,
                      <<f, c>> \in served, whole, clock < Plan[1][f].ends
               PROVE  On(f, c)
    BY DEF OnceOnStaysOn
  <2>1. PICK i \in 1..stage : ServedBy(i, f, c)
    BY <1>1 DEF FlagsInv, ServedInv
  <2>2. /\ i \in 1..Stages /\ flags[f] \in 1..Stages /\ i <= flags[f] /\ clock \in Int /\ 1 \in 1..Stages
        /\ 1 <= i /\ OnBy(i, f, c)
    BY <1>1, <2>1, FlagsAssumption DEF FlagsInv, FlagsTypeOK, ServedBy
  <2>3. OnBy(flags[f], f, c)
    BY <2>2, OnByWidens
  <2>4. Plan[flags[f]][f].ends = Plan[1][f].ends
    BY <2>2, PlanAssumption DEF Widens
  <2> QED
    BY <1>1, <2>2, <2>3, <2>4, OnIsOnBy DEF FlagsInv
<1> QED
  BY <1>1, FlagsInvariance, PTL

------------------------------------------------------------------------------
(* EventBus.                                                               *)

Publication == [event : Names, batch : Nat, met : Seq(Listeners), called : Seq(Listeners)]
Task == [at : {"idle", "handler", "redis", "next"}, of : Nat, todo : Seq(Listeners),
         many : Seq(Names)]

BusShape ==
  /\ handlers \in [Names -> Seq(Listeners)] /\ publishing \in [Publishers -> Task]
  /\ publications \in Seq(Publication)
  /\ \A k \in DOMAIN publications : publications[k].batch \in 1..k
  /\ outside \in Seq(Nat) /\ \A i \in DOMAIN outside : outside[i] \in DOMAIN publications

Heard(x) == IF x.event = ANY THEN x.met \o x.met ELSE x.met
Complete(k) == publications[k].called = Heard(publications[k])
SameBatch(j, k) == publications[j].batch = publications[k].batch

(* What a task in a publication knows of it.                               *)
Progress(p) ==
  LET k == publishing[p].of
  IN publishing[p].at # "idle" =>
       /\ k \in DOMAIN publications
       /\ publishing[p].at = "handler" =>
            publications[k].called \o publishing[p].todo = Heard(publications[k])
       /\ publishing[p].at # "handler" => Complete(k)
       /\ publishing[p].at = "next" => publishing[p].many # <<>>
       /\ \A j \in DOMAIN publications : j > k => ~SameBatch(j, k)

OwnBatch(p, q) ==
  p # q /\ publishing[p].at # "idle" /\ publishing[q].at # "idle" =>
    ~SameBatch(publishing[p].of, publishing[q].of)

(* HeardExact, in parts.                                                   *)
PrefixesCalled ==
  \A k \in DOMAIN publications : IsPrefix(publications[k].called, Heard(publications[k]))
OutsideComplete == \A i \in DOMAIN outside : Complete(outside[i])
BatchesInTurn ==
  \A j, k \in DOMAIN publications : j > k /\ SameBatch(j, k) => Complete(k)

BusInv ==
  /\ BusShape /\ (\A p \in Publishers : Progress(p)) /\ (\A p, q \in Publishers : OwnBatch(p, q))
  /\ PrefixesCalled /\ OutsideComplete /\ BatchesInTurn

LEMMA IsPrefixOfConcat ==
  ASSUME NEW S, NEW a \in Seq(S), NEW b \in Seq(S)
  PROVE  IsPrefix(a, a \o b)
<1>1. Len(a) <= Len(a \o b)
  OBVIOUS
<1>2. SubSeq(a, 1, Len(a)) = a
  OBVIOUS
<1>3. SubSeq(a \o b, 1, Len(a)) = a
  OBVIOUS
<1> QED
  BY <1>1, <1>2, <1>3 DEF IsPrefix

(* Moving the first of b to the end of a.                                  *)
LEMMA CallsNext ==
  ASSUME NEW S, NEW a \in Seq(S), NEW b \in Seq(S), b # <<>>
  PROVE  /\ Head(b) \in S /\ Tail(b) \in Seq(S) /\ Append(a, Head(b)) \in Seq(S)
         /\ Append(a, Head(b)) \o Tail(b) = a \o b
<1>1. Head(b) \in S /\ Tail(b) \in Seq(S) /\ Append(a, Head(b)) \in Seq(S)
  OBVIOUS
<1>2. Len(Append(a, Head(b)) \o Tail(b)) = Len(a \o b)
  BY <1>1
<1>3. \A i \in 1..Len(a \o b) : (Append(a, Head(b)) \o Tail(b))[i] = (a \o b)[i]
  BY <1>1
<1>4. Append(a, Head(b)) \o Tail(b) \in Seq(S) /\ a \o b \in Seq(S)
  BY <1>1
<1> QED
  BY <1>1, <1>2, <1>3, <1>4

LEMMA EmptyConcat ==
  ASSUME NEW S, NEW a \in Seq(S)
  PROVE  a \o <<>> = a
OBVIOUS

LEMMA ConcatLonger ==
  ASSUME NEW S, NEW a \in Seq(S), NEW b \in Seq(S), a \o b = a
  PROVE  b = <<>>
<1>1. Len(a \o b) = Len(a) + Len(b)
  OBVIOUS
<1>2. Len(b) = 0
  BY <1>1
<1> QED
  BY <1>2

LEMMA ProceedsFacts ==
  ASSUME NEW p \in Publishers, publishing \in [Publishers -> Task],
         NEW past \in Seq(Publication), NEW k \in 1..Len(past),
         NEW todo \in Seq(Listeners), NEW many \in Seq(Names),
         past[k].called \o todo = Heard(past[k]), Proceeds(p, k, todo, many, past)
  PROVE  /\ publishing' \in [Publishers -> Task]
         /\ \A q \in Publishers \ {p} : publishing'[q] = publishing[q]
         /\ publications' \in Seq(Publication) /\ Len(publications') = Len(past)
         /\ \A j \in 1..Len(past) : j # k => publications'[j] = past[j]
         /\ publications'[k].event = past[k].event /\ publications'[k].batch = past[k].batch
         /\ publications'[k].met = past[k].met
         /\ todo = <<>> => publications'[k].called = past[k].called
         /\ IsPrefix(publications'[k].called, Heard(past[k]))
         /\ publishing'[p].at # "idle" => publishing'[p].of = k
         /\ publishing'[p].at = "handler" =>
              publications'[k].called \o publishing'[p].todo = Heard(past[k])
         /\ publishing'[p].at \in {"redis", "next"} => publications'[k].called = Heard(past[k])
         /\ publishing'[p].at = "next" => publishing'[p].many # <<>>
<1>1. past[k] \in Publication /\ past[k].called \in Seq(Listeners)
  <2>1. past[k] \in Publication
    OBVIOUS
  <2> QED
    BY <2>1 DEF Publication
<1>2. CASE todo # <<>>
  <2> DEFINE next == [at |-> "handler", of |-> k, todo |-> Tail(todo), many |-> many]
             called == Append(past[k].called, Head(todo))
             heard == [past[k] EXCEPT !.called = called]
  <2>1. publishing' = [publishing EXCEPT ![p] = next] /\ publications' = [past EXCEPT ![k] = heard]
    BY <1>2 DEF Proceeds
  <2>2. /\ Tail(todo) \in Seq(Listeners) /\ called \in Seq(Listeners)
        /\ called \o Tail(todo) = Heard(past[k])
    BY <1>1, <1>2, CallsNext
  <2>3. next \in Task /\ next.at = "handler" /\ next.of = k /\ next.todo = Tail(todo)
    BY <2>2 DEF Task
  <2>4. /\ heard \in Publication /\ heard.called = called /\ heard.event = past[k].event
        /\ heard.batch = past[k].batch /\ heard.met = past[k].met
    <3> HIDE DEF called
    <3> QED
      BY <1>1, <2>2 DEF Publication
  <2>5. IsPrefix(called, Heard(past[k]))
    <3> HIDE DEF called
    <3> QED
      BY <2>2, IsPrefixOfConcat
  <2> HIDE DEF next, called, heard
  <2>6. /\ publishing' \in [Publishers -> Task] /\ publishing'[p] = next
        /\ \A q \in Publishers \ {p} : publishing'[q] = publishing[q]
    BY <2>1, <2>3
  <2>7. /\ publications' \in Seq(Publication) /\ Len(publications') = Len(past)
        /\ publications'[k] = heard /\ \A j \in 1..Len(past) : j # k => publications'[j] = past[j]
    BY <2>1, <2>4
  <2> QED
    BY <1>2, <2>2, <2>3, <2>4, <2>5, <2>6, <2>7
<1>3. CASE todo = <<>>
  <2> DEFINE next == IF bus = "redis" THEN [at |-> "redis", of |-> k, todo |-> <<>>, many |-> many]
                     ELSE IF many # <<>> THEN [at |-> "next", of |-> k, todo |-> <<>>, many |-> many]
                     ELSE NoPublication
  <2>1. publishing' = [publishing EXCEPT ![p] = next] /\ publications' = past
    BY <1>3 DEF Proceeds
  <2>2. past[k].called = Heard(past[k])
    BY <1>1, <1>3, EmptyConcat
  <2>3. next \in Task /\ next.at # "handler" /\ (next.at # "idle" => next.of = k) /\ (next.at = "next" => next.many # <<>>)
    BY DEF Task, NoPublication
  <2>4. IsPrefix(past[k].called, Heard(past[k]))
    BY <1>1, <1>3, IsPrefixOfConcat
  <2> HIDE DEF next
  <2>5. /\ publishing' \in [Publishers -> Task] /\ publishing'[p] = next
        /\ \A q \in Publishers \ {p} : publishing'[q] = publishing[q]
    BY <2>1, <2>3
  <2> QED
    BY <1>3, <2>1, <2>2, <2>3, <2>4, <2>5
<1> QED
  BY <1>2, <1>3

------------------------------------------------------------------------------
(* What the invariant says of tasks and publications, of one that Proceeds *)
(* on `past`: either its own publication, or a new one at the end.         *)
LEMMA ProceedsKeeps ==
  ASSUME BusInv, NEW p \in Publishers, NEW past \in Seq(Publication), NEW k \in 1..Len(past),
         NEW todo \in Seq(Listeners), NEW many \in Seq(Names),
         past[k].called \o todo = Heard(past[k]), Proceeds(p, k, todo, many, past),
         UNCHANGED <<handlers, outside>>,
         \A j \in DOMAIN publications : j \in DOMAIN past /\ past[j] = publications[j],
         DOMAIN past \subseteq DOMAIN publications \cup {k},
         past[k].batch \in 1..k,
         k \in DOMAIN publications => publishing[p].at = "handler" /\ publishing[p].of = k,
         k \notin DOMAIN publications =>
           /\ \A j \in DOMAIN publications : j < k
           /\ \A j \in DOMAIN publications : publications[j].batch = past[k].batch => Complete(j)
           /\ \A q \in Publishers \ {p} : publishing[q].at # "idle" =>
                publications[publishing[q].of].batch # past[k].batch
  PROVE  BusInv'
<1>1. /\ publishing' \in [Publishers -> Task]
      /\ \A q \in Publishers \ {p} : publishing'[q] = publishing[q]
      /\ publications' \in Seq(Publication) /\ Len(publications') = Len(past)
      /\ \A j \in 1..Len(past) : j # k => publications'[j] = past[j]
      /\ publications'[k].event = past[k].event /\ publications'[k].batch = past[k].batch
      /\ publications'[k].met = past[k].met
      /\ todo = <<>> => publications'[k].called = past[k].called
      /\ IsPrefix(publications'[k].called, Heard(past[k]))
      /\ publishing'[p].at # "idle" => publishing'[p].of = k
      /\ publishing'[p].at = "handler" =>
           publications'[k].called \o publishing'[p].todo = Heard(past[k])
      /\ publishing'[p].at \in {"redis", "next"} => publications'[k].called = Heard(past[k])
      /\ publishing'[p].at = "next" => publishing'[p].many # <<>>
  BY ProceedsFacts DEF BusInv, BusShape
<1>2. /\ DOMAIN publications' = DOMAIN past /\ DOMAIN past = 1..Len(past)
      /\ DOMAIN publications = 1..Len(publications) /\ k \in DOMAIN past
      /\ k \in Nat /\ \A j \in DOMAIN past : j \in Nat
  BY <1>1 DEF BusInv, BusShape
<1>3. /\ \A j \in DOMAIN publications \ {k} : publications'[j] = publications[j]
      /\ \A j \in DOMAIN publications : publications'[j].batch = publications[j].batch
      /\ \A j \in DOMAIN publications' : j \in DOMAIN publications \/ j = k
      /\ DOMAIN publications \subseteq DOMAIN publications'
      /\ Heard(publications'[k]) = Heard(past[k])
  BY <1>1, <1>2 DEF Heard
<1>4. \A j \in DOMAIN publications : Complete(j) => Complete(j)'
  <2> SUFFICES ASSUME NEW j \in DOMAIN publications, Complete(j) PROVE Complete(j)'
    OBVIOUS
  <2>1. CASE j # k
    BY <1>3, <2>1 DEF Complete, Heard
  <2>2. CASE j = k
    <3>1. past[k].called = Heard(past[k]) /\ past[k].called \in Seq(Listeners)
      <4>1. past[k] \in Publication
        OBVIOUS
      <4> QED
        BY <2>2, <4>1 DEF Complete, Publication
    <3>2. todo = <<>>
      BY <3>1, ConcatLonger
    <3> QED
      BY <1>1, <1>3, <2>2, <3>1, <3>2 DEF Complete
  <2> QED
    BY <2>1, <2>2
<1>5. \A q \in Publishers \ {p} : publishing[q].at # "idle" =>
        /\ publishing[q].of \in DOMAIN publications /\ publishing[q].of # k
        /\ \A j \in DOMAIN publications : j > publishing[q].of => ~SameBatch(j, publishing[q].of)
  <2> SUFFICES ASSUME NEW q \in Publishers, q # p, publishing[q].at # "idle"
               PROVE  /\ publishing[q].of \in DOMAIN publications /\ publishing[q].of # k
                      /\ \A j \in DOMAIN publications : j > publishing[q].of => ~SameBatch(j, publishing[q].of)
    OBVIOUS
  <2>1. Progress(q) /\ OwnBatch(p, q)
    BY DEF BusInv
  <2> QED
    BY <2>1 DEF Progress, OwnBatch, SameBatch
<1>6. BusShape'
  <2>1. \A j \in DOMAIN publications' : publications'[j].batch \in 1..j
    BY <1>1, <1>2, <1>3 DEF BusInv, BusShape
  <2>2. \A i \in DOMAIN outside' : outside'[i] \in DOMAIN publications'
    BY <1>3 DEF BusInv, BusShape
  <2> QED
    BY <1>1, <2>1, <2>2 DEF BusInv, BusShape
<1>7. ASSUME NEW q \in Publishers PROVE Progress(q)'
  <2>1. CASE q = p
    <3> SUFFICES ASSUME publishing'[p].at # "idle" PROVE Progress(p)'
      BY <2>1 DEF Progress
    <3>1. publishing'[p].of = k
      BY <1>1
    <3>2. \A j \in DOMAIN publications' : j > k => publications'[j].batch # publications'[k].batch
      <4>1. CASE k \in DOMAIN publications
        <5>1. Progress(p)
          BY DEF BusInv
        <5> QED
          BY <1>2, <1>3, <4>1, <5>1 DEF Progress, SameBatch
      <4>2. CASE k \notin DOMAIN publications
        BY <1>2, <1>3, <4>2
      <4> QED
        BY <4>1, <4>2
    <3>3. publishing'[p].at # "handler" => publishing'[p].at \in {"redis", "next"}
      BY <1>1 DEF Task
    <3> QED
      BY <1>1, <1>2, <1>3, <3>1, <3>2, <3>3 DEF Progress, SameBatch, Complete
  <2>2. CASE q # p
    <3> SUFFICES ASSUME publishing[q].at # "idle" PROVE Progress(q)'
      BY <1>1, <2>2 DEF Progress
    <3>1. Progress(q) /\ publishing'[q] = publishing[q]
      BY <1>1, <2>2 DEF BusInv
    <3>2. publishing[q].of \in DOMAIN publications /\ publications'[publishing[q].of] = publications[publishing[q].of]
      BY <1>3, <1>5, <2>2
    <3>3. \A j \in DOMAIN publications' :
             j > publishing[q].of => publications'[j].batch # publications[publishing[q].of].batch
      BY <1>1, <1>3, <1>5, <2>2, <3>2 DEF SameBatch
    <3> QED
      BY <1>3, <3>1, <3>2, <3>3 DEF Progress, SameBatch, Complete
  <2> QED
    BY <2>1, <2>2
<1>8. ASSUME NEW q \in Publishers, NEW r \in Publishers PROVE OwnBatch(q, r)'
  <2>1. OwnBatch(q, r)
    BY DEF BusInv
  <2>2. ASSUME NEW s \in Publishers, s # p, publishing[s].at # "idle", publishing'[p].at # "idle"
        PROVE  publications'[publishing[s].of].batch # publications'[publishing'[p].of].batch
    <3>1. CASE k \in DOMAIN publications
      <4>1. OwnBatch(s, p)
        BY <2>2 DEF BusInv
      <4> QED
        BY <1>1, <1>3, <1>5, <2>2, <3>1, <4>1 DEF OwnBatch, SameBatch
    <3>2. CASE k \notin DOMAIN publications
      BY <1>1, <1>3, <1>5, <2>2, <3>2
    <3> QED
      BY <3>1, <3>2
  <2>3. CASE q # p /\ r # p
    BY <1>1, <1>3, <1>5, <2>1, <2>3 DEF OwnBatch, SameBatch
  <2>4. CASE q = p /\ r # p
    BY <1>1, <2>2, <2>4 DEF OwnBatch, SameBatch
  <2>5. CASE q # p /\ r = p
    BY <1>1, <2>2, <2>5 DEF OwnBatch, SameBatch
  <2>6. CASE q = r
    BY <2>6 DEF OwnBatch
  <2> QED
    BY <2>3, <2>4, <2>5, <2>6
<1>9. PrefixesCalled'
  <2> SUFFICES ASSUME NEW j \in DOMAIN publications'
               PROVE  IsPrefix(publications'[j].called, Heard(publications'[j]))
    BY DEF PrefixesCalled, Heard
  <2>1. CASE j = k
    BY <1>1, <1>3, <2>1
  <2>2. CASE j # k
    <3>1. j \in DOMAIN publications /\ publications'[j] = publications[j]
      BY <1>3, <2>2
    <3> QED
      BY <3>1 DEF BusInv, PrefixesCalled
  <2> QED
    BY <2>1, <2>2
<1>10. OutsideComplete'
  BY <1>4 DEF BusInv, BusShape, OutsideComplete
<1>11. BatchesInTurn'
  <2> SUFFICES ASSUME NEW i \in DOMAIN publications', NEW j \in DOMAIN publications',
                      i > j, publications'[i].batch = publications'[j].batch
               PROVE  Complete(j)'
    BY DEF BatchesInTurn, SameBatch
  <2>1. CASE i \in DOMAIN publications /\ j \in DOMAIN publications
    BY <1>3, <1>4, <2>1 DEF BusInv, BatchesInTurn, SameBatch
  <2>2. CASE k \notin DOMAIN publications /\ i = k
    BY <1>1, <1>2, <1>3, <1>4, <2>2
  <2>3. CASE k \notin DOMAIN publications /\ j = k
    BY <1>2, <1>3, <2>3
  <2> QED
    BY <1>3, <2>1, <2>2, <2>3
<1> QED
  BY <1>6, <1>7, <1>8, <1>9, <1>10, <1>11 DEF BusInv

(* A publication begins, of n, in the given batch (0: one of its own).     *)
LEMMA BeginsKeeps ==
  ASSUME BusInv, NEW p \in Publishers, NEW n \in Names, NEW batch \in Nat, NEW many \in Seq(Names),
         Begins(p, n, batch, many),
         batch # 0 => /\ publishing[p].at = "next"
                      /\ batch = publications[publishing[p].of].batch
  PROVE  BusInv'
<1> DEFINE k == Len(publications) + 1
           publication == [event |-> n, batch |-> IF batch = 0 THEN k ELSE batch,
                           met |-> IF n = ANY THEN handlers[ANY] ELSE handlers[n] \o handlers[ANY],
                           called |-> <<>>]
           past == Append(publications, publication)
<1>1. /\ Proceeds(p, k, Resolved(n), many, past) /\ UNCHANGED <<handlers, outside>>
  BY DEF Begins
<1>2. /\ publications \in Seq(Publication) /\ Len(publications) \in Nat /\ k \in Nat
      /\ DOMAIN publications = 1..Len(publications) /\ k \notin DOMAIN publications
      /\ \A j \in DOMAIN publications : j < k /\ publications[j].batch \in 1..j
  BY DEF BusInv, BusShape
<1>3. handlers[n] \in Seq(Listeners) /\ handlers[ANY] \in Seq(Listeners) /\ Resolved(n) \in Seq(Listeners)
  BY DEF BusInv, BusShape, Resolved, Names
<1>4. batch # 0 => batch \in 1..k /\ publishing[p].of \in DOMAIN publications
  <2>1. batch # 0 => Progress(p) /\ publishing[p].at # "idle"
    BY DEF BusInv
  <2>2. batch # 0 => publishing[p].of \in DOMAIN publications
    BY <2>1 DEF Progress
  <2>3. batch # 0 => publishing[p].of \in 1..Len(publications) /\ batch \in 1..publishing[p].of
    BY <1>2, <2>2
  <2> QED
    BY <1>2, <2>2, <2>3
<1>5. /\ publication \in Publication /\ publication.called = <<>> /\ publication.batch \in 1..k
      /\ Heard(publication) = Resolved(n)
  <2>1. publication \in Publication
    BY <1>2, <1>3 DEF Publication
  <2>2. publication.batch \in 1..k
    BY <1>2, <1>4
  <2>3. Heard(publication) = Resolved(n)
    BY DEF Heard, Resolved
  <2> QED
    BY <2>1, <2>2, <2>3
<1>6. /\ publication.batch = IF batch = 0 THEN k ELSE batch
  OBVIOUS
<1> HIDE DEF publication
<1>7. /\ past \in Seq(Publication) /\ Len(past) = k /\ k \in 1..Len(past) /\ past[k] = publication
      /\ \A j \in DOMAIN publications : j \in DOMAIN past /\ past[j] = publications[j]
      /\ DOMAIN past \subseteq DOMAIN publications \cup {k}
  BY <1>2, <1>5
<1> HIDE DEF past
<1>8. past[k].called \o Resolved(n) = Heard(past[k])
  BY <1>3, <1>5, <1>7
<1>9. \A j \in DOMAIN publications : publications[j].batch = past[k].batch => Complete(j)
  <2> SUFFICES ASSUME NEW j \in DOMAIN publications, publications[j].batch = publication.batch
               PROVE  Complete(j)
    BY <1>7
  <2>1. batch # 0 /\ publications[j].batch = batch
    BY <1>2, <1>6
  <2> DEFINE q == publishing[p].of
  <2>2. /\ q \in DOMAIN publications /\ publications[q].batch = batch /\ Complete(q)
        /\ j > q => ~SameBatch(j, q)
    <3>1. Progress(p) /\ publishing[p].at = "next"
      BY <2>1 DEF BusInv
    <3> QED
      BY <2>1, <3>1 DEF Progress
  <2>3. q \in Nat /\ j \in Nat
    BY <1>2, <2>2
  <2> HIDE DEF q
  <2>4. j > q \/ j = q \/ q > j
    BY <2>3
  <2>5. SameBatch(q, j)  /\ SameBatch(j, q)
    BY <2>1, <2>2 DEF SameBatch
  <2> QED
    BY <2>2, <2>4, <2>5 DEF BusInv, BatchesInTurn
<1>10. \A q \in Publishers \ {p} : publishing[q].at # "idle" =>
         publications[publishing[q].of].batch # past[k].batch
  <2> SUFFICES ASSUME NEW q \in Publishers \ {p}, publishing[q].at # "idle"
               PROVE  publications[publishing[q].of].batch # publication.batch
    BY <1>7
  <2>1. Progress(q) /\ OwnBatch(q, p)
    BY DEF BusInv
  <2> QED
    BY <1>2, <1>6, <2>1 DEF Progress, OwnBatch, SameBatch
<1> HIDE DEF k
<1> QED
  BY <1>1, <1>2, <1>3, <1>5, <1>7, <1>8, <1>9, <1>10, ProceedsKeeps

(* A task's publication is over; all others are as before.                 *)
LEMMA OverKeeps ==
  ASSUME BusInv, NEW p \in Publishers, Over(p), UNCHANGED <<handlers, publications>>,
         \/ UNCHANGED outside
         \/ publishing[p].at = "redis" /\ outside' = Append(outside, publishing[p].of)
  PROVE  BusInv'
<1>1. publishing' \in [Publishers -> Task] /\ publishing'[p].at = "idle"
      /\ \A q \in Publishers \ {p} : publishing'[q] = publishing[q]
  <2>1. NoPublication \in Task /\ NoPublication.at = "idle"
    BY DEF NoPublication, Task
  <2> HIDE DEF Task
  <2> QED
    BY <2>1 DEF Over, BusInv, BusShape
<1>2. publishing[p].at = "redis" => publishing[p].of \in DOMAIN publications /\ Complete(publishing[p].of)
                                    /\ publishing[p].of \in Nat
  <2>1. Progress(p) /\ publishing[p] \in Task
    BY DEF BusInv, BusShape
  <2> QED
    BY <2>1 DEF Progress, Task
<1>3. /\ outside' \in Seq(Nat)
      /\ \A i \in DOMAIN outside' : outside'[i] \in DOMAIN publications /\ Complete(outside'[i])
  <2>1. CASE UNCHANGED outside
    BY <2>1 DEF BusInv, BusShape, OutsideComplete
  <2>2. CASE publishing[p].at = "redis" /\ outside' = Append(outside, publishing[p].of)
    <3>1. outside \in Seq(Nat) /\ publishing[p].of \in Nat
      BY <1>2, <2>2 DEF BusInv, BusShape
    <3>2. /\ outside' \in Seq(Nat) /\ DOMAIN outside' = DOMAIN outside \cup {Len(outside) + 1}
          /\ \A i \in DOMAIN outside : outside'[i] = outside[i]
          /\ outside'[Len(outside) + 1] = publishing[p].of
      BY <2>2, <3>1
    <3> QED
      BY <1>2, <2>2, <3>2 DEF BusInv, BusShape, OutsideComplete
  <2> QED
    BY <2>1, <2>2
<1>4. BusShape' /\ OutsideComplete'
  BY <1>1, <1>3 DEF BusInv, BusShape, OutsideComplete, Complete
<1>5. \A q \in Publishers : Progress(q)'
  <2> SUFFICES ASSUME NEW q \in Publishers PROVE Progress(q)'
    OBVIOUS
  <2>1. Progress(q)
    BY DEF BusInv
  <2> QED
    BY <1>1, <2>1 DEF Progress, Complete, SameBatch
<1>6. \A q, r \in Publishers : OwnBatch(q, r)'
  <2> SUFFICES ASSUME NEW q \in Publishers, NEW r \in Publishers PROVE OwnBatch(q, r)'
    OBVIOUS
  <2>1. OwnBatch(q, r)
    BY DEF BusInv
  <2> QED
    BY <1>1, <2>1 DEF OwnBatch, SameBatch
<1>7. PrefixesCalled' /\ BatchesInTurn'
  BY DEF BusInv, PrefixesCalled, BatchesInTurn, Complete, SameBatch
<1> QED
  BY <1>4, <1>5, <1>6, <1>7 DEF BusInv

LEMMA BusStep == BusInv /\ [BusNext]_busVars => BusInv'
<1> SUFFICES ASSUME BusInv, [BusNext]_busVars PROVE BusInv'
  OBVIOUS
<1>1. ASSUME NEW n \in Names, NEW h \in Listeners, Subscribes(n, h) PROVE BusInv'
  <2>1. handlers' \in [Names -> Seq(Listeners)] /\ UNCHANGED <<publishing, outside, publications>>
    BY <1>1 DEF Subscribes, BusInv, BusShape
  <2>2. BusShape' /\ PrefixesCalled' /\ OutsideComplete' /\ BatchesInTurn'
    BY <2>1 DEF BusInv, BusShape, PrefixesCalled, OutsideComplete, BatchesInTurn, Complete, SameBatch
  <2>3. /\ \A p \in Publishers : Progress(p)'
        /\ \A p, q \in Publishers : OwnBatch(p, q)'
    BY <2>1 DEF BusInv, Progress, OwnBatch, Complete, SameBatch
  <2> QED
    BY <2>2, <2>3 DEF BusInv
<1>2. ASSUME NEW p \in Publishers, NEW n \in Names, Publish(p, n) PROVE BusInv'
  <2>1. Begins(p, n, 0, <<>>) /\ <<>> \in Seq(Names) /\ 0 \in Nat
    BY <1>2 DEF Publish
  <2> QED
    BY <2>1, BeginsKeeps
<1>3. ASSUME NEW p \in Publishers, NEW n \in Names, NEW more \in Names, PublishMany(p, n, <<more>>)
      PROVE  BusInv'
  <2>1. Begins(p, n, 0, <<more>>) /\ 0 \in Nat
    BY <1>3 DEF PublishMany
  <2>2. <<more>> \in Seq(Names)
    OBVIOUS
  <2> QED
    BY <2>1, <2>2, BeginsKeeps
<1>4. ASSUME NEW p \in Publishers, PublishesNext(p) PROVE BusInv'
  <2> DEFINE many == publishing[p].many
             batch == publications[publishing[p].of].batch
  <2>1. Progress(p) /\ publishing[p].at = "next" /\ publishing[p] \in Task
    BY <1>4 DEF PublishesNext, BusInv, BusShape
  <2>2. many \in Seq(Names) /\ many # <<>>
    BY <2>1 DEF Progress, Task
  <2>3. Head(many) \in Names /\ Tail(many) \in Seq(Names)
    BY <2>2
  <2>4. batch \in Nat
    <3>1. publishing[p].of \in DOMAIN publications
      BY <2>1 DEF Progress
    <3> QED
      BY <3>1 DEF BusInv, BusShape
  <2>5. Begins(p, Head(many), batch, Tail(many))
    BY <1>4 DEF PublishesNext
  <2> HIDE DEF many
  <2> QED
    BY <2>1, <2>3, <2>4, <2>5, BeginsKeeps
<1>5. ASSUME NEW p \in Publishers, HandlerReturns(p) PROVE BusInv'
  <2>1. Progress(p) /\ publishing[p].at = "handler" /\ publishing[p] \in Task
    BY <1>5 DEF HandlerReturns, BusInv, BusShape
  <2>2. /\ publishing[p].of \in DOMAIN publications /\ publishing[p].todo \in Seq(Listeners)
        /\ publishing[p].many \in Seq(Names)
        /\ publications[publishing[p].of].called \o publishing[p].todo = Heard(publications[publishing[p].of])
    BY <2>1 DEF Progress, Task
  <2>3. Proceeds(p, publishing[p].of, publishing[p].todo, publishing[p].many, publications)
        /\ UNCHANGED <<handlers, outside>>
    BY <1>5 DEF HandlerReturns
  <2>4. /\ publications \in Seq(Publication) /\ publishing[p].of \in 1..Len(publications)
        /\ publications[publishing[p].of].batch \in 1..publishing[p].of
    BY <2>2 DEF BusInv, BusShape
  <2> QED
    BY <2>1, <2>2, <2>3, <2>4, ProceedsKeeps
<1>6. ASSUME NEW p \in Publishers, PublishRaises(p) PROVE BusInv'
  BY <1>6, OverKeeps DEF PublishRaises
<1>7. ASSUME NEW p \in Publishers, RedisTakes(p) PROVE BusInv'
  BY <1>7, OverKeeps DEF RedisTakes
<1>8. CASE UNCHANGED busVars
  BY <1>8 DEF busVars, BusInv, BusShape, Progress, OwnBatch, PrefixesCalled, OutsideComplete, BatchesInTurn,
              Complete, SameBatch
<1> QED
  BY <1>1, <1>2, <1>3, <1>4, <1>5, <1>6, <1>7, <1>8 DEF BusNext

LEMMA BusInvariance == BusSpec => []BusInv
<1>1. BusInit => BusInv
  <2> SUFFICES ASSUME BusInit PROVE BusInv
    OBVIOUS
  <2>1. NoPublication \in Task /\ NoPublication.at = "idle"
    BY DEF NoPublication, Task
  <2>2. \A p \in Publishers : publishing[p].at = "idle"
    BY <2>1 DEF BusInit
  <2>3. BusShape
    <3> HIDE DEF Task, NoPublication
    <3> QED
      BY <2>1 DEF BusInit, BusShape
  <2> QED
    BY <2>2, <2>3
    DEF BusInit, BusInv, Progress, OwnBatch, PrefixesCalled, OutsideComplete, BatchesInTurn
<1> QED
  BY <1>1, BusStep, PTL DEF BusSpec

(* A publication calls its subscribers of the moment it began, in order    *)
(* and each once a subscription; Redis, and the next event of a batch,     *)
(* come after all of them: for any names, listeners and publishers,        *)
(* whatever raises and whoever subscribes meanwhile.                       *)
THEOREM BusIsHeardExactly == BusSpec => []HeardExact
<1>1. ASSUME BusInv PROVE HeardExact
  <2> SUFFICES ASSUME NEW k \in DOMAIN publications
               PROVE  /\ IsPrefix(publications[k].called, HeardBy(k))
                      /\ (\/ k \in ToSet(outside)
                          \/ \E j \in DOMAIN publications : j > k /\ publications[j].batch = publications[k].batch)
                         => publications[k].called = HeardBy(k)
    BY DEF HeardExact
  <2>1. HeardBy(k) = Heard(publications[k])
    BY DEF HeardBy, Heard
  <2>2. k \in ToSet(outside) => Complete(k)
    BY <1>1 DEF BusInv, OutsideComplete, ToSet
  <2> QED
    BY <1>1, <2>1, <2>2 DEF BusInv, PrefixesCalled, BatchesInTurn, SameBatch, Complete
<1> QED
  BY <1>1, BusInvariance, PTL

------------------------------------------------------------------------------
(* Repositories.                                                           *)

Call == [op : {"none", "create", "update", "delete"}, at : {"idle", "set", "srem", "del"},
         id : Ids \cup {NoEntity}, tenant : Tenants \cup {Shared},
         row : Entity \cup {NoEntity}, set : SUBSET Fields]

Fits(c) ==
  \/ c = NoCall
  \/ /\ c.op # "none" /\ c.id \in Ids /\ c.at # "idle" /\ backend # "memory"
     /\ c.at = "set" <=> c.op # "delete"
     /\ c.at = "set" => c.row \in Entity
     /\ backend = "sql" => c.op # "create" /\ c.at # "srem"

RepoShape ==
  /\ backend \in {"redis", "sql", "memory"}
  /\ stored \in [Ids -> Entity \cup {NoEntity}] /\ latest \in [Ids -> Entity \cup {NoEntity}]
  /\ ids \subseteq Ids /\ died \subseteq Ids /\ fresh \in 0..MaxUpdates
  /\ writer \in [Writers -> Call] /\ \A w \in Writers : Fits(writer[w])

(* Two calls that are in progress on a row at once are in raced.           *)
RacesNoted ==
  \A v, w \in Writers : v # w /\ writer[v].op # "none" /\ writer[v].id = writer[w].id =>
    <<writer[v].id, {writer[v].op, writer[w].op}>> \in raced

(* Between its commands a create or an update has listed its row, a delete *)
(* has not: no other kind of call was there to undo it.                    *)
AtCmd(i, at) == \E w \in Writers : writer[w].id = i /\ writer[w].at = at
DeleteRaced(i) == \E k \in {"create", "update"} : <<i, {k, "delete"}>> \in raced
ListedAsMeant(i) ==
  /\ AtCmd(i, "set") => i \in ids
  /\ AtCmd(i, "del") => i \notin ids
  /\ ~AtCmd(i, "del") /\ stored[i] # NoEntity => i \in ids
  /\ ~AtCmd(i, "set") /\ i \in ids => stored[i] # NoEntity
ListingSound ==
  backend = "redis" => \A i \in Ids : i \notin died /\ ~DeleteRaced(i) => ListedAsMeant(i)

(* The row an update is to write still is what was read, merged.           *)
UpdateRaced(i) == backend = "redis" /\ \E p \in raced : p[1] = i /\ "update" \in p[2]
MergesAll(w) ==
  backend = "redis" /\ writer[w].op = "update" /\ ~UpdateRaced(writer[w].id) =>
    Merged(writer[w]) = writer[w].row
ValuesSound ==
  /\ \A i \in Ids : ~UpdateRaced(i) => stored[i] = latest[i]
  /\ \A w \in Writers : MergesAll(w)

RepoInv == RepoShape /\ RacesNoted /\ ListingSound /\ ValuesSound

LEMMA NoCallFacts ==
  /\ NoCall \in Call /\ NoCall.op = "none" /\ NoCall.at = "idle" /\ NoCall.id = NoEntity
  /\ NoCall.id \notin Ids
BY RepoAssumption DEF NoCall, Call

(* A writer that is in a call.                                             *)
LEMMA CallUnderWay ==
  ASSUME RepoInv, NEW w \in Writers, writer[w].at # "idle" \/ writer[w].op # "none" \/ writer[w].id \in Ids
  PROVE  /\ writer[w] \in Call /\ writer[w].op # "none" /\ writer[w].id \in Ids
         /\ writer[w].at # "idle" /\ backend # "memory"
         /\ writer[w].at = "set" <=> writer[w].op # "delete"
         /\ writer[w].at = "set" => writer[w].row \in Entity
         /\ backend = "sql" => writer[w].op # "create" /\ writer[w].at # "srem"
<1>1. writer[w] \in Call /\ Fits(writer[w])
  BY DEF RepoInv, RepoShape
<1>2. writer[w] # NoCall
  BY NoCallFacts
<1> QED
  BY <1>1, <1>2 DEF Fits

(* Two calls on one row, of which one deletes and the other does not.      *)
LEMMA DeleteMeets ==
  ASSUME RepoInv, NEW v \in Writers, NEW w \in Writers, NEW i \in Ids,
         writer[v].id = i, writer[w].id = i, writer[v].op = "delete", writer[w].op # "delete"
  PROVE  DeleteRaced(i)
<1>1. writer[w].op \in {"create", "update"} /\ v # w
  <2>1. writer[w] \in Call /\ writer[w].op # "none"
    BY CallUnderWay
  <2> QED
    BY <2>1 DEF Call
<1>2. <<i, {writer[w].op, "delete"}>> \in raced
  BY <1>1 DEF RepoInv, RacesNoted
<1> QED
  BY <1>1, <1>2 DEF DeleteRaced

(* Two calls on one row, of which one updates.                             *)
LEMMA UpdateMeets ==
  ASSUME RepoInv, backend = "redis", NEW v \in Writers, NEW w \in Writers, NEW i \in Ids, v # w,
         writer[v].id = i, writer[w].id = i, writer[v].op = "update"
  PROVE  UpdateRaced(i)
<1> DEFINE pair == <<i, {writer[v].op, writer[w].op}>>
<1>1. pair \in raced
  BY DEF RepoInv, RacesNoted
<1>2. pair[1] = i /\ "update" \in pair[2]
  OBVIOUS
<1> HIDE DEF pair
<1> QED
  BY <1>1, <1>2 DEF UpdateRaced

LEMMA CallsFacts ==
  ASSUME RepoInv, NEW w \in Writers, NEW call \in Call, call.id \in Ids, call.op # "none",
         Calls(w, call)
  PROVE  /\ writer' \in [Writers -> Call] /\ writer'[w] = call
         /\ \A v \in Writers \ {w} : writer'[v] = writer[v]
         /\ raced \subseteq raced' /\ RacesNoted'
         /\ \A v \in Writers : writer[v].id = call.id => <<call.id, {call.op, writer[v].op}>> \in raced'
<1>1. /\ writer' \in [Writers -> Call] /\ writer'[w] = call
      /\ \A v \in Writers \ {w} : writer'[v] = writer[v]
  BY DEF Calls, RepoInv, RepoShape
<1>2. /\ raced \subseteq raced'
      /\ \A v \in Writers : writer[v].id = call.id => <<call.id, {call.op, writer[v].op}>> \in raced'
  BY DEF Calls, Overlaps, Writing
<1>3. RacesNoted'
  <2> SUFFICES ASSUME NEW v \in Writers, NEW u \in Writers, v # u, writer'[v].op # "none",
                      writer'[v].id = writer'[u].id
               PROVE  <<writer'[v].id, {writer'[v].op, writer'[u].op}>> \in raced'
    BY DEF RacesNoted
  <2>1. CASE v = w
    BY <1>1, <1>2, <2>1
  <2>2. CASE u = w
    <3>1. {writer'[v].op, writer'[u].op} = {call.op, writer[v].op}
      BY <1>1, <2>2
    <3> QED
      BY <1>1, <1>2, <2>2, <3>1
  <2>3. CASE v # w /\ u # w
    BY <1>1, <1>2, <2>3 DEF RepoInv, RacesNoted
  <2> QED
    BY <2>1, <2>2, <2>3
<1> QED
  BY <1>1, <1>2, <1>3

LEMMA DoneFacts ==
  ASSUME RepoInv, NEW w \in Writers, Done(w), UNCHANGED <<backend, raced>>
  PROVE  /\ writer' \in [Writers -> Call] /\ writer'[w] = NoCall
         /\ \A v \in Writers \ {w} : writer'[v] = writer[v]
         /\ \A v \in Writers : Fits(writer[v])'
         /\ RacesNoted'
<1>1. /\ writer' \in [Writers -> Call] /\ writer'[w] = NoCall
      /\ \A v \in Writers \ {w} : writer'[v] = writer[v]
  BY NoCallFacts DEF Done, RepoInv, RepoShape
<1>2. \A v \in Writers : Fits(writer[v])'
  BY <1>1 DEF RepoInv, RepoShape, Fits
<1>3. RacesNoted'
  <2> SUFFICES ASSUME NEW v \in Writers, NEW u \in Writers, v # u, writer'[v].op # "none",
                      writer'[v].id = writer'[u].id
               PROVE  <<writer'[v].id, {writer'[v].op, writer'[u].op}>> \in raced'
    BY DEF RacesNoted
  <2>1. v # w
    BY <1>1, NoCallFacts
  <2>2. writer[v].id \in Ids /\ writer'[v] = writer[v]
    BY <1>1, <2>1, CallUnderWay
  <2>3. u # w
    BY <1>1, <2>2, NoCallFacts
  <2> QED
    BY <1>1, <2>1, <2>3 DEF RepoInv, RacesNoted
<1> QED
  BY <1>1, <1>2, <1>3

(* A row that no call of this step is about.                               *)
LEMMA ListedElsewhere ==
  ASSUME NEW i \in Ids, NEW w \in Writers, ListedAsMeant(i), stored'[i] = stored[i], i \in ids' <=> i \in ids,
         \A v \in Writers \ {w} : writer'[v] = writer[v],
         writer[w].id # i, writer'[w].id # i
  PROVE  ListedAsMeant(i)'
<1>1. \A at : AtCmd(i, at)' <=> AtCmd(i, at)
  BY DEF AtCmd
<1> QED
  BY <1>1 DEF ListedAsMeant

LEMMA MergesAllKept ==
  ASSUME RepoInv, backend' = backend, raced \subseteq raced', NEW v \in Writers, writer'[v] = writer[v],
         writer[v].op = "update" => latest'[writer[v].id] = latest[writer[v].id]
                                    \/ (backend = "redis" => UpdateRaced(writer[v].id))
  PROVE  MergesAll(v)'
<1> SUFFICES ASSUME backend = "redis", writer[v].op = "update", ~UpdateRaced(writer[v].id)'
             PROVE  Merged(writer[v])' = writer[v].row
  BY DEF MergesAll
<1>1. ~UpdateRaced(writer[v].id)
  BY DEF UpdateRaced
<1>2. Merged(writer[v])' = Merged(writer[v])
  BY <1>1 DEF Merged
<1> QED
  BY <1>1, <1>2 DEF RepoInv, ValuesSound, MergesAll

(* The writes that are one step, of the memory and SQL repositories.       *)
LEMMA PutsKeeps ==
  ASSUME RepoInv, backend # "redis", NEW i \in Ids, NEW row \in Entity \cup {NoEntity}, Puts(i, row),
         fresh' \in 0..MaxUpdates, raced \subseteq raced', UNCHANGED <<backend, ids, writer, died>>
  PROVE  RepoInv'
<1>1. /\ stored' \in [Ids -> Entity \cup {NoEntity}] /\ latest' \in [Ids -> Entity \cup {NoEntity}]
      /\ \A j \in Ids : j # i => stored'[j] = stored[j] /\ latest'[j] = latest[j]
      /\ stored'[i] = latest'[i]
  BY DEF Puts, RepoInv, RepoShape
<1>2. RepoShape'
  BY <1>1 DEF RepoInv, RepoShape, Fits
<1>3. RacesNoted'
  BY DEF RepoInv, RacesNoted
<1>4. \A j \in Ids : stored'[j] = latest'[j]
  BY <1>1 DEF RepoInv, ValuesSound, UpdateRaced
<1> QED
  BY <1>2, <1>3, <1>4 DEF RepoInv, ListingSound, ValuesSound, MergesAll

(* A call begins: on row i, which others may be writing.                   *)
LEMMA CallsKeeps ==
  ASSUME RepoInv, NEW w \in Writers, NEW call \in Call, call.id \in Ids, call.op # "none",
         Calls(w, call), backend # "memory", Fits(call), UNCHANGED <<backend, stored, latest, died>>,
         fresh' \in 0..MaxUpdates, ids' = ids \cup (IF call.op = "create" THEN {call.id} ELSE {}),
         call.op = "update" =>
           stored[call.id] # NoEntity /\ (backend = "redis" /\ ~UpdateRaced(call.id) => Merged(call) = call.row),
         call.op = "delete" => call.at # "del" \/ backend = "sql"
  PROVE  RepoInv'
<1> DEFINE i == call.id
<1>1. /\ writer' \in [Writers -> Call] /\ writer'[w] = call /\ writer[w] = NoCall
      /\ \A v \in Writers \ {w} : writer'[v] = writer[v]
      /\ raced \subseteq raced' /\ RacesNoted'
      /\ \A v \in Writers : writer[v].id = i => <<i, {call.op, writer[v].op}>> \in raced'
  BY CallsFacts DEF Calls
<1>2. RepoShape'
  <2>1. \A v \in Writers : Fits(writer[v])'
    BY <1>1 DEF RepoInv, RepoShape, Fits
  <2> QED
    BY <1>1, <2>1 DEF RepoInv, RepoShape
<1>3. ListingSound'
  <2> SUFFICES ASSUME backend = "redis", NEW j \in Ids, j \notin died, ~DeleteRaced(j)'
               PROVE  ListedAsMeant(j)'
    BY DEF ListingSound
  <2>1. ListedAsMeant(j)
    BY <1>1 DEF RepoInv, ListingSound, DeleteRaced
  <2>2. CASE j # i
    BY <1>1, <2>1, <2>2, NoCallFacts, ListedElsewhere
  <2>3. CASE j = i
    <3>1. \A at : AtCmd(i, at)' <=> AtCmd(i, at) \/ at = call.at
      BY <1>1, NoCallFacts DEF AtCmd
    <3>2. call.op # "delete" => ~AtCmd(i, "del")
      <4> SUFFICES ASSUME call.op # "delete", NEW v \in Writers, writer[v].id = i, writer[v].at = "del"
                   PROVE  FALSE
        BY DEF AtCmd
      <4>1. writer[v].op = "delete"
        BY CallUnderWay
      <4>2. call.op \in {"create", "update"}
        BY DEF Call
      <4> QED
        BY <1>1, <2>3, <4>1, <4>2 DEF DeleteRaced
    <3>3. call.at = "set" <=> call.op # "delete"
      BY NoCallFacts DEF Fits
    <3>4. call.op \in {"create", "update", "delete"} /\ call.at # "del"
      BY <3>3 DEF Call
    <3>5. call.op = "create" => i \in ids'
      OBVIOUS
    <3>6. call.op # "create" => ids' = ids
      OBVIOUS
    <3>7. call.op = "update" => i \in ids
      BY <2>1, <2>3, <3>2 DEF ListedAsMeant
    <3> HIDE DEF i
    <3> QED
      BY <2>1, <2>3, <3>1, <3>2, <3>3, <3>4, <3>5, <3>6, <3>7 DEF ListedAsMeant
  <2> QED
    BY <2>2, <2>3
<1>4. \A j \in Ids : ~UpdateRaced(j)' => stored'[j] = latest'[j]
  BY <1>1 DEF RepoInv, ValuesSound, UpdateRaced
<1>5. ASSUME NEW v \in Writers PROVE MergesAll(v)'
  <2>1. CASE v # w
    BY <1>1, <2>1, MergesAllKept
  <2>2. CASE v = w
    <3> SUFFICES ASSUME backend = "redis", call.op = "update", ~UpdateRaced(i)'
                 PROVE  Merged(call)' = call.row
      BY <1>1, <2>2 DEF MergesAll
    <3>1. ~UpdateRaced(i)
      BY <1>1 DEF UpdateRaced
    <3>2. Merged(call)' = Merged(call)
      BY DEF Merged
    <3> QED
      BY <3>1, <3>2
  <2> QED
    BY <2>1, <2>2
<1> QED
  BY <1>1, <1>2, <1>3, <1>4, <1>5 DEF RepoInv, ValuesSound

LEMMA CreatedIsEntity ==
  ASSUME RepoInv, NewValue, NEW tenant \in Tenants \cup {Shared}
  PROVE  Created(tenant) \in Entity /\ fresh' \in 0..MaxUpdates
<1>1. fresh + 1 \in 0..MaxUpdates
  BY RepoAssumption DEF NewValue, RepoInv, RepoShape
<1> QED
  BY <1>1 DEF NewValue, Created, Entity

LEMMA PatchedIsMerged ==
  ASSUME RepoInv, NewValue, NEW i \in Ids, NEW tenant \in Tenants \cup {Shared}, NEW f \in Fields,
         Stored(i)
  PROVE  /\ Patched(stored[i], tenant, f, fresh + 1) \in Entity
         /\ \A call : /\ backend = "redis" /\ stored[i] = latest[i] /\ call.op = "update" /\ call.id = i
                      /\ call.tenant = tenant /\ call.set = {f}
                      /\ call.row = Patched(stored[i], tenant, f, fresh + 1)
                      => Merged(call) = call.row
<1>1. fresh + 1 \in 0..MaxUpdates
  BY RepoAssumption DEF NewValue, RepoInv, RepoShape
<1>2. stored[i] \in Entity
  BY DEF Stored, RepoInv, RepoShape
<1> DEFINE vals == [stored[i].val EXCEPT ![f] = fresh + 1]
           row == Patched(stored[i], tenant, f, fresh + 1)
<1>3. /\ stored[i].tenant \in Tenants \cup {Shared} /\ stored[i].val \in [Fields -> 0..MaxUpdates]
  BY <1>2 DEF Entity
<1>4. vals \in [Fields -> 0..MaxUpdates] /\ vals[f] = fresh + 1
      /\ \A g \in Fields : g # f => vals[g] = stored[i].val[g]
  BY <1>1, <1>3
<1>5. row = [tenant |-> IF tenant = Shared THEN stored[i].tenant ELSE tenant, val |-> vals]
  BY DEF Patched
<1>6. row \in Entity
  <2> HIDE DEF vals
  <2> QED
    BY <1>3, <1>4, <1>5 DEF Entity
<1>7. ASSUME NEW call, backend = "redis", stored[i] = latest[i], call.op = "update", call.id = i,
             call.tenant = tenant, call.set = {f}, call.row = row
      PROVE  Merged(call) = call.row
  <2>1. Merged(call) =
          [tenant |-> IF tenant = Shared THEN stored[i].tenant ELSE tenant,
           val |-> [g \in Fields |-> IF g \in {f} THEN row.val[g] ELSE stored[i].val[g]]]
    BY <1>7 DEF Merged, Stored
  <2>2. row.val = vals
    BY <1>5
  <2> HIDE DEF vals, row
  <2>3. vals = [g \in Fields |-> IF g \in {f} THEN row.val[g] ELSE stored[i].val[g]]
    BY <1>4, <2>2
  <2> QED
    BY <1>5, <1>7, <2>1, <2>3
<1> QED
  BY <1>6, <1>7

(* SET, of the Redis repository.                                           *)
LEMMA SetKeeps ==
  ASSUME RepoInv, NEW w \in Writers, Set(w)
  PROVE  RepoInv'
<1> DEFINE c == writer[w]
           i == writer[w].id
<1>1. /\ c \in Call /\ i \in Ids /\ c.op # "delete" /\ c.op # "none" /\ c.row \in Entity
      /\ c.at = "set" /\ backend = "redis"
  BY CallUnderWay DEF Set
<1>2. /\ writer' \in [Writers -> Call] /\ writer'[w] = NoCall
      /\ \A v \in Writers \ {w} : writer'[v] = writer[v]
      /\ \A v \in Writers : Fits(writer[v])'
      /\ RacesNoted'
  BY DoneFacts DEF Set
<1>3. Merged(c) \in Entity
  <2>1. CASE c.op = "create" \/ latest[i] = NoEntity
    BY <1>1, <2>1 DEF Merged
  <2>2. CASE ~(c.op = "create" \/ latest[i] = NoEntity)
    <3>1. latest[i] \in Entity
      BY <1>1, <2>2 DEF RepoInv, RepoShape
    <3>2. /\ latest[i].tenant \in Tenants \cup {Shared} /\ c.tenant \in Tenants \cup {Shared}
          /\ latest[i].val \in [Fields -> 0..MaxUpdates] /\ c.row.val \in [Fields -> 0..MaxUpdates]
      BY <1>1, <3>1 DEF Entity, Call
    <3>3. [f \in Fields |-> IF f \in c.set THEN c.row.val[f] ELSE latest[i].val[f]] \in [Fields -> 0..MaxUpdates]
      BY <3>2
    <3> QED
      BY <2>2, <3>2, <3>3 DEF Merged, Entity
  <2> QED
    BY <2>1, <2>2
<1>4. /\ stored' \in [Ids -> Entity \cup {NoEntity}] /\ latest' \in [Ids -> Entity \cup {NoEntity}]
      /\ stored'[i] = c.row /\ latest'[i] = Merged(c)
      /\ \A j \in Ids : j # i => stored'[j] = stored[j] /\ latest'[j] = latest[j]
  BY <1>1, <1>3 DEF Set, RepoInv, RepoShape
<1>5. UNCHANGED <<backend, ids, fresh, raced, died>>
  BY DEF Set
<1>6. RepoShape'
  BY <1>2, <1>4, <1>5 DEF RepoInv, RepoShape
<1>7. ListingSound'
  <2> SUFFICES ASSUME NEW j \in Ids, j \notin died, ~DeleteRaced(j)
               PROVE  ListedAsMeant(j)'
    BY <1>5 DEF ListingSound, DeleteRaced
  <2>1. ListedAsMeant(j)
    BY <1>1 DEF RepoInv, ListingSound
  <2>2. CASE j # i
    BY <1>2, <1>4, <1>5, <2>1, <2>2, NoCallFacts, ListedElsewhere
  <2>3. CASE j = i
    <3>1. j \in ids /\ stored'[j] # NoEntity
      BY <1>1, <1>4, <2>1, <2>3, RepoAssumption DEF ListedAsMeant, AtCmd
    <3>2. ~AtCmd(j, "del")'
      <4> SUFFICES ASSUME NEW v \in Writers, writer'[v].id = j, writer'[v].at = "del" PROVE FALSE
        BY DEF AtCmd
      <4>1. writer'[v] = writer[v]
        BY <1>2, NoCallFacts
      <4>2. writer[v].op = "delete"
        BY <4>1, CallUnderWay
      <4> QED
        BY <1>1, <2>3, <4>1, <4>2, DeleteMeets
    <3> QED
      BY <1>5, <3>1, <3>2 DEF ListedAsMeant
  <2> QED
    BY <2>2, <2>3
<1>8. \A j \in Ids : ~UpdateRaced(j)' => stored'[j] = latest'[j]
  <2> SUFFICES ASSUME NEW j \in Ids, ~UpdateRaced(j) PROVE stored'[j] = latest'[j]
    BY <1>5 DEF UpdateRaced
  <2>1. CASE j # i
    BY <1>4, <2>1 DEF RepoInv, ValuesSound
  <2>2. CASE j = i /\ c.op = "create"
    BY <1>4, <2>2 DEF Merged
  <2>3. CASE j = i /\ c.op = "update"
    BY <1>1, <1>4, <2>3 DEF RepoInv, ValuesSound, MergesAll
  <2> QED
    BY <1>1, <2>1, <2>2, <2>3 DEF Call
<1>9. ASSUME NEW v \in Writers PROVE MergesAll(v)'
  <2>1. CASE v = w
    BY <1>2, <2>1, NoCallFacts DEF MergesAll
  <2>2. CASE v # w /\ writer[v].op = "update" /\ writer[v].id = i
    BY <1>1, <1>2, <1>5, <2>2, UpdateMeets, MergesAllKept
  <2>3. CASE v # w /\ writer[v].op = "update" /\ writer[v].id # i
    <3>1. writer[v].id \in Ids
      BY <2>3, CallUnderWay
    <3> QED
      BY <1>2, <1>4, <1>5, <2>3, <3>1, MergesAllKept
  <2>4. CASE v # w /\ writer[v].op # "update"
    BY <1>2, <2>4 DEF MergesAll
  <2> QED
    BY <2>1, <2>2, <2>3, <2>4
<1> QED
  BY <1>2, <1>6, <1>7, <1>8, <1>9 DEF RepoInv, ValuesSound

(* The commit of a SQL transaction.                                        *)
LEMMA CommitKeeps ==
  ASSUME RepoInv, NEW w \in Writers, CommitUpdate(w)
  PROVE  RepoInv'
<1> DEFINE c == writer[w]
           i == writer[w].id
<1>1. /\ c \in Call /\ i \in Ids /\ c.op = "update" /\ c.row \in Entity
      /\ c.at = "set" /\ backend = "sql"
  <2>1. c.at = "set" /\ backend = "sql"
    BY DEF CommitUpdate
  <2> QED
    BY <2>1, CallUnderWay DEF Call
<1>2. /\ writer' \in [Writers -> Call] /\ writer'[w] = NoCall
      /\ \A v \in Writers : Fits(writer[v])'
      /\ RacesNoted'
  BY DoneFacts DEF CommitUpdate
<1>3. UNCHANGED <<backend, ids, fresh, raced, died>>
  BY DEF CommitUpdate
<1>4. \A j \in Ids : stored[j] = latest[j]
  BY <1>1 DEF RepoInv, ValuesSound, UpdateRaced
<1>5. /\ stored' \in [Ids -> Entity \cup {NoEntity}] /\ latest' \in [Ids -> Entity \cup {NoEntity}]
      /\ \A j \in Ids : stored'[j] = latest'[j]
  <2>1. CASE ~Stored(i)
    BY <1>4, <2>1 DEF CommitUpdate, RepoInv, RepoShape
  <2>2. CASE Stored(i)
    <3> DEFINE row == stored[i]
               vals == [f \in Fields |-> IF f \in c.set THEN c.row.val[f] ELSE row.val[f]]
    <3>1. row \in Entity
      BY <1>1, <2>2 DEF Stored, RepoInv, RepoShape
    <3>2. /\ row.tenant \in Tenants \cup {Shared}
          /\ row.val \in [Fields -> 0..MaxUpdates] /\ c.row.val \in [Fields -> 0..MaxUpdates]
      BY <1>1, <3>1 DEF Entity
    <3>3. vals \in [Fields -> 0..MaxUpdates]
      BY <3>2
    <3>4. Merged(c) = [tenant |-> row.tenant, val |-> vals]
      BY <1>1, <1>4, <2>2 DEF Merged, Stored
    <3>5. [row EXCEPT !.val = vals] = [tenant |-> row.tenant, val |-> vals]
      <4> HIDE DEF row, vals
      <4> QED
        BY <3>1 DEF Entity
    <3>6. Merged(c) \in Entity
      <4> HIDE DEF row, vals
      <4> QED
        BY <3>2, <3>3, <3>4 DEF Entity
    <3>7. stored' = [stored EXCEPT ![i] = [row EXCEPT !.val = vals]]
      BY <2>2 DEF CommitUpdate
    <3>8. latest' = [latest EXCEPT ![i] = Merged(c)]
      BY <2>2 DEF CommitUpdate
    <3>9. stored' = [stored EXCEPT ![i] = Merged(c)]
      BY <3>4, <3>5, <3>7
    <3> HIDE DEF c, i
    <3> QED
      BY <1>1, <1>4, <3>6, <3>8, <3>9 DEF RepoInv, RepoShape
  <2> QED
    BY <2>1, <2>2
<1> QED
  BY <1>1, <1>2, <1>3, <1>5 DEF RepoInv, RepoShape, ListingSound, ValuesSound, MergesAll

(* SREM: the row is no longer listed, and is there until DEL.              *)
LEMMA SRemKeeps ==
  ASSUME RepoInv, NEW w \in Writers, SRem(w)
  PROVE  RepoInv'
<1> DEFINE c == writer[w]
           i == writer[w].id
           next == [writer[w] EXCEPT !.at = "del"]
<1>1. /\ c \in Call /\ i \in Ids /\ c.op = "delete" /\ backend = "redis" /\ c.at = "srem"
  <2>1. c.at = "srem"
    BY DEF SRem
  <2> QED
    BY <2>1, CallUnderWay DEF RepoInv, RepoShape
<1>2. /\ next \in Call /\ next.op = "delete" /\ next.id = i /\ next.at = "del"
  BY <1>1 DEF Call
<1>3. /\ UNCHANGED <<backend, stored, fresh, latest, raced, died>> /\ ids' = ids \ {i}
      /\ writer' = [writer EXCEPT ![w] = next]
  BY DEF SRem
<1> HIDE DEF next
<1>4. /\ writer' \in [Writers -> Call] /\ writer'[w] = next
      /\ \A v \in Writers \ {w} : writer'[v] = writer[v]
  BY <1>2, <1>3 DEF RepoInv, RepoShape
<1>5. RepoShape'
  <2>1. Fits(next)
    BY <1>1, <1>2 DEF Fits
  <2>2. \A v \in Writers : Fits(writer[v])'
    BY <1>3, <1>4, <2>1 DEF RepoInv, RepoShape, Fits
  <2> QED
    BY <1>3, <1>4, <2>2 DEF RepoInv, RepoShape
<1>6. \A v \in Writers : writer'[v].op = writer[v].op /\ writer'[v].id = writer[v].id
  BY <1>1, <1>2, <1>4
<1>7. RacesNoted'
  BY <1>3, <1>6 DEF RepoInv, RacesNoted
<1>8. ListingSound'
  <2> SUFFICES ASSUME NEW j \in Ids, j \notin died, ~DeleteRaced(j)
               PROVE  ListedAsMeant(j)'
    BY <1>3 DEF ListingSound, DeleteRaced
  <2>1. ListedAsMeant(j)
    BY <1>1 DEF RepoInv, ListingSound
  <2>2. CASE j # i
    BY <1>2, <1>3, <1>4, <2>1, <2>2, ListedElsewhere
  <2>3. CASE j = i
    <3>1. j \notin ids' /\ AtCmd(j, "del")'
      BY <1>2, <1>3, <1>4, <2>3 DEF AtCmd
    <3>2. ~AtCmd(j, "set")'
      <4> SUFFICES ASSUME NEW v \in Writers, writer'[v].id = j, writer'[v].at = "set" PROVE FALSE
        BY DEF AtCmd
      <4>1. writer'[v] = writer[v]
        BY <1>2, <1>4
      <4>2. writer[v].op # "delete"
        BY <4>1, CallUnderWay
      <4> QED
        BY <1>1, <2>3, <4>1, <4>2, DeleteMeets
    <3> QED
      BY <3>1, <3>2 DEF ListedAsMeant
  <2> QED
    BY <2>2, <2>3
<1>9. \A j \in Ids : ~UpdateRaced(j)' => stored'[j] = latest'[j]
  BY <1>3 DEF RepoInv, ValuesSound, UpdateRaced
<1>10. ASSUME NEW v \in Writers PROVE MergesAll(v)'
  <2>1. CASE v = w
    BY <1>2, <1>4, <2>1 DEF MergesAll
  <2>2. CASE v # w
    BY <1>3, <1>4, <2>2, MergesAllKept
  <2> QED
    BY <2>1, <2>2
<1> QED
  BY <1>5, <1>7, <1>8, <1>9, <1>10 DEF RepoInv, ValuesSound

LEMMA DelKeeps ==
  ASSUME RepoInv, NEW w \in Writers, Del(w)
  PROVE  RepoInv'
<1> DEFINE i == writer[w].id
<1>1. /\ i \in Ids /\ writer[w].op = "delete" /\ writer[w].at = "del" /\ backend # "memory"
  <2>1. writer[w].at = "del"
    BY DEF Del
  <2> QED
    BY <2>1, CallUnderWay
<1>2. /\ writer' \in [Writers -> Call] /\ writer'[w] = NoCall
      /\ \A v \in Writers \ {w} : writer'[v] = writer[v]
      /\ \A v \in Writers : Fits(writer[v])'
      /\ RacesNoted'
  BY DoneFacts DEF Del
<1>3. UNCHANGED <<backend, ids, fresh, raced, died>>
  BY DEF Del
<1>4. /\ stored' \in [Ids -> Entity \cup {NoEntity}] /\ latest' \in [Ids -> Entity \cup {NoEntity}]
      /\ stored'[i] = NoEntity /\ latest'[i] = NoEntity
      /\ \A j \in Ids : j # i => stored'[j] = stored[j] /\ latest'[j] = latest[j]
  BY <1>1 DEF Del, Puts, RepoInv, RepoShape
<1>5. RepoShape'
  BY <1>2, <1>3, <1>4 DEF RepoInv, RepoShape
<1>6. ListingSound'
  <2> SUFFICES ASSUME backend = "redis", NEW j \in Ids, j \notin died, ~DeleteRaced(j)
               PROVE  ListedAsMeant(j)'
    BY <1>3 DEF ListingSound, DeleteRaced
  <2>1. ListedAsMeant(j)
    BY DEF RepoInv, ListingSound
  <2>2. CASE j # i
    BY <1>2, <1>3, <1>4, <2>1, <2>2, NoCallFacts, ListedElsewhere
  <2>3. CASE j = i
    <3>1. j \notin ids
      BY <1>1, <2>1, <2>3 DEF ListedAsMeant, AtCmd
    <3>2. AtCmd(j, "set")' => AtCmd(j, "set")
      BY <1>2, NoCallFacts DEF AtCmd
    <3>3. ~AtCmd(j, "set")
      BY <2>1, <3>1 DEF ListedAsMeant
    <3> QED
      BY <1>3, <1>4, <2>3, <3>1, <3>2, <3>3 DEF ListedAsMeant
  <2> QED
    BY <2>2, <2>3
<1>7. \A j \in Ids : ~UpdateRaced(j)' => stored'[j] = latest'[j]
  BY <1>3, <1>4 DEF RepoInv, ValuesSound, UpdateRaced
<1>8. ASSUME NEW v \in Writers PROVE MergesAll(v)'
  <2>1. CASE v = w
    BY <1>2, <2>1, NoCallFacts DEF MergesAll
  <2>2. CASE v # w /\ writer[v].op = "update" /\ writer[v].id = i
    BY <1>1, <1>2, <1>3, <2>2, UpdateMeets, MergesAllKept
  <2>3. CASE v # w /\ writer[v].op = "update" /\ writer[v].id # i
    <3>1. writer[v].id \in Ids
      BY <2>3, CallUnderWay
    <3> QED
      BY <1>2, <1>3, <1>4, <2>3, <3>1, MergesAllKept
  <2>4. CASE v # w /\ writer[v].op # "update"
    BY <1>2, <2>4 DEF MergesAll
  <2> QED
    BY <2>1, <2>2, <2>3, <2>4
<1> QED
  BY <1>2, <1>5, <1>6, <1>7, <1>8 DEF RepoInv, ValuesSound

LEMMA WriterDiesKeeps ==
  ASSUME RepoInv, NEW w \in Writers, WriterDies(w)
  PROVE  RepoInv'
<1> DEFINE i == writer[w].id
<1>1. i \in Ids
  BY DEF WriterDies, RepoInv, RepoShape, Fits
<1>2. /\ writer' \in [Writers -> Call] /\ writer'[w] = NoCall
      /\ \A v \in Writers \ {w} : writer'[v] = writer[v]
      /\ \A v \in Writers : Fits(writer[v])'
      /\ RacesNoted'
  BY DoneFacts DEF WriterDies
<1>3. /\ UNCHANGED <<backend, stored, ids, fresh, latest, raced>> /\ died \subseteq died' /\ died' \subseteq Ids
      /\ backend = "redis" => i \in died'
  BY <1>1 DEF WriterDies, RepoInv, RepoShape
<1>4. RepoShape'
  BY <1>2, <1>3 DEF RepoInv, RepoShape
<1>5. ListingSound'
  <2> SUFFICES ASSUME backend = "redis", NEW j \in Ids, j \notin died', ~DeleteRaced(j)
               PROVE  ListedAsMeant(j)'
    BY <1>3 DEF ListingSound, DeleteRaced
  <2>1. ListedAsMeant(j) /\ j # i
    BY <1>3 DEF RepoInv, ListingSound
  <2> QED
    BY <1>2, <1>3, <2>1, NoCallFacts, ListedElsewhere
<1>6. \A j \in Ids : ~UpdateRaced(j)' => stored'[j] = latest'[j]
  BY <1>3 DEF RepoInv, ValuesSound, UpdateRaced
<1>7. ASSUME NEW v \in Writers PROVE MergesAll(v)'
  <2>1. CASE v = w
    BY <1>2, <2>1, NoCallFacts DEF MergesAll
  <2>2. CASE v # w
    BY <1>2, <1>3, <2>2, MergesAllKept
  <2> QED
    BY <2>1, <2>2
<1> QED
  BY <1>2, <1>4, <1>5, <1>6, <1>7 DEF RepoInv, ValuesSound

(* One case for each thing a writer does.                                  *)
LEMMA RepoStep == RepoInv /\ [RepoNext]_repoVars => RepoInv'
<1> SUFFICES ASSUME RepoInv, [RepoNext]_repoVars PROVE RepoInv'
  OBVIOUS
<1>1. ASSUME NEW w \in Writers, NEW i \in Ids, NEW tenant \in Tenants \cup {Shared}, Create(w, i, tenant)
      PROVE  RepoInv'
  <2>1. Created(tenant) \in Entity /\ fresh' \in 0..MaxUpdates
    BY <1>1, CreatedIsEntity DEF Create
  <2>2. raced \subseteq raced'
    BY <1>1 DEF Create, Overlaps
  <2> QED
    BY <1>1, <2>1, <2>2, PutsKeeps DEF Create
<1>2. ASSUME NEW w \in Writers, NEW i \in Ids, NEW tenant \in Tenants \cup {Shared}, CreateSAdd(w, i, tenant)
      PROVE  RepoInv'
  <2> DEFINE call == [NoCall EXCEPT !.op = "create", !.at = "set", !.id = i, !.row = Created(tenant)]
  <2>1. Created(tenant) \in Entity /\ fresh' \in 0..MaxUpdates
    BY <1>2, CreatedIsEntity DEF CreateSAdd
  <2>2. call \in Call /\ call.id = i /\ call.op = "create" /\ call.at = "set" /\ call.row = Created(tenant)
    BY <2>1, NoCallFacts DEF Call
  <2>3. Calls(w, call) /\ backend = "redis" /\ ids' = ids \cup {i}
    BY <1>2 DEF CreateSAdd
  <2>4. UNCHANGED <<backend, stored, latest, died>>
    BY <1>2 DEF CreateSAdd
  <2> HIDE DEF call
  <2>5. Fits(call)
    BY <2>1, <2>2, <2>3 DEF Fits
  <2>6. ids' = ids \cup (IF call.op = "create" THEN {call.id} ELSE {}) /\ backend # "memory"
    BY <2>2, <2>3
  <2> QED
    BY <2>1, <2>2, <2>3, <2>4, <2>5, <2>6, CallsKeeps
<1>3. ASSUME NEW w \in Writers, NEW i \in Ids, NEW tenant \in Tenants \cup {Shared}, DeleteReads(w, i, tenant)
      PROVE  RepoInv'
  <2> DEFINE call == [NoCall EXCEPT !.op = "delete", !.at = IF backend = "redis" THEN "srem" ELSE "del", !.id = i]
  <2>1. call \in Call /\ call.id = i /\ call.op = "delete" /\ call.at = IF backend = "redis" THEN "srem" ELSE "del"
    BY NoCallFacts DEF Call
  <2>2. Calls(w, call) /\ backend \in {"redis", "sql"} /\ UNCHANGED <<backend, stored, latest, died, ids, fresh>>
    BY <1>3 DEF DeleteReads, RepoInv, RepoShape
  <2> HIDE DEF call
  <2>3. Fits(call)
    BY <2>1, <2>2 DEF Fits
  <2>4. fresh' \in 0..MaxUpdates
    BY <2>2 DEF RepoInv, RepoShape
  <2> QED
    BY <2>1, <2>2, <2>3, <2>4, CallsKeeps
<1>4. ASSUME NEW w \in Writers, NEW i \in Ids, NEW tenant \in Tenants \cup {Shared}, DeleteInMemory(w, i, tenant)
      PROVE  RepoInv'
  <2>1. fresh' \in 0..MaxUpdates
    BY <1>4 DEF DeleteInMemory, RepoInv, RepoShape
  <2> QED
    BY <1>4, <2>1, PutsKeeps DEF DeleteInMemory
<1>5. ASSUME NEW w \in Writers, NEW i \in Ids, NEW tenant \in Tenants \cup {Shared}, NEW f \in Fields,
             UpdateReads(w, i, tenant, f)
      PROVE  RepoInv'
  <2> DEFINE row == Patched(stored[i], tenant, f, fresh + 1)
             call == [op |-> "update", at |-> "set", id |-> i, tenant |-> tenant, set |-> {f}, row |-> row]
  <2>1. row \in Entity /\ fresh' \in 0..MaxUpdates
    BY <1>5, PatchedIsMerged, CreatedIsEntity DEF UpdateReads
  <2>2. /\ call \in Call /\ call.id = i /\ call.op = "update" /\ call.at = "set" /\ call.row = row
        /\ call.tenant = tenant /\ call.set = {f}
    <3> HIDE DEF row
    <3> QED
      BY <2>1 DEF Call
  <2>3. Calls(w, call) /\ backend \in {"redis", "sql"} /\ UNCHANGED <<backend, stored, ids, latest, died>>
    BY <1>5 DEF UpdateReads, RepoInv, RepoShape
  <2>4. NewValue /\ Stored(i)
    BY <1>5 DEF UpdateReads
  <2> HIDE DEF call
  <2>5. Fits(call)
    BY <2>1, <2>2, <2>3 DEF Fits
  <2>6. backend = "redis" /\ ~UpdateRaced(i) => Merged(call) = call.row
    BY <2>2, <2>4, PatchedIsMerged DEF RepoInv, ValuesSound
  <2>7. stored[i] # NoEntity
    BY <2>4 DEF Stored
  <2> QED
    BY <2>1, <2>2, <2>3, <2>5, <2>6, <2>7, CallsKeeps
<1>6. ASSUME NEW w \in Writers, NEW i \in Ids, NEW tenant \in Tenants \cup {Shared}, NEW f \in Fields,
             UpdateInMemory(w, i, tenant, f)
      PROVE  RepoInv'
  <2>1. Patched(stored[i], tenant, f, fresh + 1) \in Entity /\ fresh' \in 0..MaxUpdates
    BY <1>6, PatchedIsMerged, CreatedIsEntity DEF UpdateInMemory
  <2> QED
    BY <1>6, <2>1, PutsKeeps DEF UpdateInMemory
<1>7. CASE UNCHANGED repoVars
  <2>1. RepoShape' /\ RacesNoted'
    BY <1>7 DEF repoVars, RepoInv, RepoShape, RacesNoted, Fits
  <2>2. ListingSound'
    BY <1>7 DEF repoVars, RepoInv, ListingSound, ListedAsMeant, DeleteRaced, AtCmd
  <2>3. ValuesSound'
    BY <1>7 DEF repoVars, RepoInv, ValuesSound, UpdateRaced, MergesAll, Merged
  <2> QED
    BY <2>1, <2>2, <2>3 DEF RepoInv
<1> QED
  BY <1>1, <1>2, <1>3, <1>4, <1>5, <1>6, <1>7, SetKeeps, CommitKeeps, SRemKeeps, DelKeeps, WriterDiesKeeps
  DEF RepoNext

LEMMA RepoInvariance == RepoSpec => []RepoInv
<1>1. RepoInit => RepoInv
  <2> SUFFICES ASSUME RepoInit PROVE RepoInv
    OBVIOUS
  <2>1. \A w \in Writers : writer[w] = NoCall
    BY DEF RepoInit
  <2>2. RepoShape
    BY <2>1, NoCallFacts, RepoAssumption DEF RepoInit, RepoShape, Fits
  <2>3. RacesNoted /\ ValuesSound
    BY <2>1, NoCallFacts DEF RepoInit, RacesNoted, ValuesSound, MergesAll
  <2>4. ListingSound
    BY <2>1, NoCallFacts DEF RepoInit, ListingSound, ListedAsMeant, AtCmd
  <2> QED
    BY <2>2, <2>3, <2>4 DEF RepoInv
<1> QED
  BY <1>1, RepoStep, PTL DEF RepoSpec

(* When no call on a row is under way, the Redis repository lists it just  *)
(* when it holds it, unless a writer died or a delete overlapped a create  *)
(* or an update; and every repository holds what the acknowledged writes   *)
(* made of it, in Redis unless an update overlapped another call: for any  *)
(* writers, tenants, rows and fields.                                      *)
THEOREM RepositoriesKeepRows == RepoSpec => []RowsSound
<1>1. ASSUME RepoInv PROVE RowsSound
  <2>1. ListedIffStored
    <3> SUFFICES ASSUME backend = "redis", NEW i \in Ids, Quiet(i), ~DeleteRaced(i)
                 PROVE  i \in ids <=> Stored(i)
      BY DEF ListedIffStored, DeleteRaced
    <3>1. \A at : ~AtCmd(i, at)
      BY DEF AtCmd, Quiet, Writing
    <3>2. ListedAsMeant(i)
      BY <1>1 DEF RepoInv, ListingSound, Quiet
    <3> QED
      BY <3>1, <3>2 DEF ListedAsMeant, Stored
  <2>2. WritesKept
    BY <1>1 DEF WritesKept, RepoInv, ValuesSound, UpdateRaced
  <2> QED
    BY <2>1, <2>2 DEF RowsSound
<1> QED
  BY <1>1, RepoInvariance, PTL

------------------------------------------------------------------------------
(* Paging.                                                                 *)

Walking == [store : {"sql", "memory"}, mode : {"cursor", "keyset"}, nulls : {"first", "last"},
            at : {"count", "select", "done"}, cursor : {Unset} \cup Nat, total : Nat]

PagingShape ==
  /\ table \in [Rows -> Values \cup {Null, Absent}] /\ walk \in Walking
  /\ got \in [Rows -> 0..2] /\ steady \subseteq Present
  /\ pageEnds \subseteq Values \cup {Null} /\ writes \in Nat
  /\ walk.mode = "keyset" => walk.store = "sql" /\ walk.cursor \in {Unset} \cup Values

(* A keyset walk has returned nothing that sorts behind its cursor, and    *)
(* of what does not it misses only ties and NULLs.                         *)
KeysetKnows(r) ==
  /\ got[r] <= 1
  /\ walk.at # "done" =>
       /\ got[r] = 1 => walk.cursor # Unset /\ table[r] <= walk.cursor
       /\ walk.cursor # Unset /\ table[r] # Null /\ table[r] <= walk.cursor =>
            got[r] = 1 \/ table[r] \in pageEnds
  /\ walk.at = "done" =>
       got[r] = 1 \/ table[r] \in pageEnds \cup {Null} \/ (walk.nulls = "first" /\ Null \in pageEnds)

(* How many rows are sorted before r: its place, when none are tied.  An   *)
(* offset walk has returned the rows in the places up to its offset.       *)
Before(r) == Cardinality({s \in Visible : Rank(table[s]) < Rank(table[r])})
OffsetKnows(r) ==
  got[r] = IF walk.at = "done" \/ Before(r) < Offset THEN 1 ELSE 0

PagingInv ==
  /\ PagingShape
  /\ walk.mode = "keyset" => \A r \in Due : KeysetKnows(r)
  /\ walk.mode = "cursor" /\ writes = 0 =>
       /\ steady = Present
       /\ walk.store = "sql" /\ walk.at = "select" => walk.total = Cardinality(Present)
       /\ walk.store = "memory" => walk.at # "select"
       /\ ~Tied => \A r \in Visible : OffsetKnows(r)

(* What is compared when rows are sorted.                                  *)
LEMMA RankFacts ==
  ASSUME PagingShape
  PROVE  /\ \A v \in Values : Rank(v) = v /\ v \in Nat
         /\ Rank(Null) \in Int /\ Null \notin Nat
         /\ walk.nulls = "last" => \A v \in Values : v < Rank(Null)
         /\ walk.nulls = "first" => \A v \in Values : Rank(Null) < v
<1>1. \A v \in Values : Rank(v) = v /\ v \in Nat
  BY PagingAssumption DEF Rank, Null
<1>2. Max(Values) \in Values /\ \A v \in Values : v <= Max(Values)
  <2>1. PICK m \in Values : \A v \in Values : m >= v
    BY PagingAssumption
  <2> QED
    BY <2>1, PagingAssumption DEF Max
<1>3. walk.nulls \in {"first", "last"}
  BY DEF PagingShape, Walking
<1>4. Null \in Int /\ Null < 0 /\ Null \notin Nat
  BY DEF Null
<1>5. Max(Values) \in Nat
  BY <1>2, PagingAssumption
<1>6. CASE walk.nulls = "last"
  <2>1. Rank(Null) = Max(Values) + 1
    BY <1>6 DEF Rank
  <2>2. \A v \in Values : v < Max(Values) + 1
    BY <1>1, <1>2, <1>5
  <2> QED
    BY <1>1, <1>4, <1>5, <1>6, <2>1, <2>2
<1>7. CASE walk.nulls = "first"
  <2>1. Rank(Null) = Null
    BY <1>7 DEF Rank
  <2> QED
    BY <1>1, <1>4, <1>7, <2>1
<1> QED
  BY <1>3, <1>6, <1>7

LEMMA RowsOfTable ==
  ASSUME PagingShape, NEW r \in Present
  PROVE  r \in Rows /\ table[r] \in Values \cup {Null} /\ Rank(table[r]) \in Int
BY RankFacts DEF PagingShape, Present

(* An order of S: every row of it, each once, sorted.                      *)
LEMMA OrderFacts ==
  ASSUME NEW S \in SUBSET Rows, NEW q \in Orders(S)
  PROVE  /\ q \in Seq(S) /\ Len(q) = Cardinality(S) /\ Len(q) \in Nat /\ DOMAIN q = 1..Len(q)
         /\ \A r \in S : \E i \in 1..Len(q) : q[i] = r
         /\ \A i, j \in 1..Len(q) : i # j => q[i] # q[j]
         /\ \A i, j \in 1..Len(q) : i < j => Rank(table[q[i]]) <= Rank(table[q[j]])
<1> DEFINE n == Cardinality(S)
<1>1. IsFiniteSet(S) /\ n \in Nat
  BY PagingAssumption, FS_Subset, FS_CardinalityType
<1>2. q \in [1..n -> S] /\ (\A i, j \in 1..n : i # j => q[i] # q[j])
      /\ \A a, b \in DOMAIN q : a < b => Rank(table[q[a]]) <= Rank(table[q[b]])
  BY DEF Orders, SetToSeqs
<1> HIDE DEF n
<1>3. q \in Seq(S) /\ Len(q) = n /\ DOMAIN q = 1..n
  BY <1>1, <1>2
<1>4. q \in Surjection(1..n, S)
  <2>1. q \in Injection(1..n, S)
    BY <1>2 DEF Injection, IsInjective
  <2>2. Cardinality(1..n) = n
    BY <1>1, FS_Interval
  <2> QED
    BY <1>1, <2>1, <2>2, FS_Injection DEF n
<1>5. \A r \in S : \E i \in 1..n : q[i] = r
  BY <1>4 DEF Surjection
<1> QED
  BY <1>1, <1>2, <1>3, <1>5 DEF n

(* A page of an order: the places behind the first o, as many as fit.      *)
LEMMA PartOf ==
  ASSUME NEW S, NEW q \in Seq(S), NEW o \in Nat, NEW n \in Nat, o + n <= Len(q)
  PROVE  /\ SubSeq(q, o + 1, o + n) \in Seq(S)
         /\ Len(SubSeq(q, o + 1, o + n)) = n
         /\ \A i \in 1..n : o + i \in 1..Len(q) /\ SubSeq(q, o + 1, o + n)[i] = q[o + i]
<1>1. \A i \in (o + 1)..(o + n) : i \in 1..Len(q)
  OBVIOUS
<1>2. \A i \in (o + 1)..(o + n) : q[i] \in S
  BY <1>1
<1>3. o + 1 \in Int /\ o + n \in Int
  OBVIOUS
<1>4. SubSeq(q, o + 1, o + n) \in Seq(S)
  BY <1>2, <1>3
<1>5. Len(SubSeq(q, o + 1, o + n)) = n
  BY <1>2, <1>3
<1>6. \A i \in 1..n : SubSeq(q, o + 1, o + n)[i] = q[o + i]
  BY <1>2, <1>3
<1>7. \A i \in 1..n : o + i \in 1..Len(q)
  OBVIOUS
<1> QED
  BY <1>4, <1>5, <1>6, <1>7

Slice(q, o) == SubSeq(q, o + 1, Min({o + PageSize, Len(q)}))

LEMMA SliceFacts ==
  ASSUME NEW S, NEW q \in Seq(S), NEW o \in Nat
  PROVE  /\ Slice(q, o) \in Seq(S)
         /\ Len(Slice(q, o)) =
              IF o >= Len(q) THEN 0 ELSE IF o + PageSize <= Len(q) THEN PageSize ELSE Len(q) - o
         /\ \A i \in 1..Len(Slice(q, o)) : o + i \in 1..Len(q) /\ Slice(q, o)[i] = q[o + i]
<1> DEFINE least == Min({o + PageSize, Len(q)})
<1>1. o + PageSize \in Nat /\ PageSize \in Nat /\ PageSize > 0 /\ Len(q) \in Nat
  BY PagingAssumption
<1>2. least = IF o + PageSize <= Len(q) THEN o + PageSize ELSE Len(q)
  BY <1>1, MinOfTwo
<1> Slice(q, o) = SubSeq(q, o + 1, least)
  BY DEF Slice
<1> HIDE DEF least
<1>3. CASE o >= Len(q)
  <2>1. least = Len(q)
    BY <1>1, <1>2, <1>3
  <2>2. SubSeq(q, o + 1, Len(q)) = <<>>
    BY <1>1, <1>3, SubSeqEmpty
  <2>3. Slice(q, o) = <<>>
    BY <2>1, <2>2, Zenon
  <2>4. <<>> \in Seq(S) /\ Len(<<>>) = 0 /\ 1..0 = {}
    OBVIOUS
  <2>5. Len(Slice(q, o)) = 0 /\ Slice(q, o) \in Seq(S)
    BY <2>3, <2>4
  <2>6. \A i : i \notin 1..Len(Slice(q, o))
    BY <2>4, <2>5, Zenon
  <2> QED
    BY <1>3, <2>5, <2>6, Zenon
<1>4. CASE o < Len(q)
  <2>1. PICK n \in Nat : /\ o + n = least /\ o + n <= Len(q)
                         /\ n = IF o + PageSize <= Len(q) THEN PageSize ELSE Len(q) - o
    <3> DEFINE n == IF o + PageSize <= Len(q) THEN PageSize ELSE Len(q) - o
    <3>1. n \in Nat /\ o + n = least /\ o + n <= Len(q)
      BY <1>1, <1>2, <1>4
    <3> QED
      BY <3>1
  <2>2. /\ SubSeq(q, o + 1, o + n) \in Seq(S)
        /\ Len(SubSeq(q, o + 1, o + n)) = n
        /\ \A i \in 1..n : o + i \in 1..Len(q) /\ SubSeq(q, o + 1, o + n)[i] = q[o + i]
    BY <2>1, PartOf
  <2>3. ~(o >= Len(q))
    BY <1>1, <1>4
  <2>4. Slice(q, o) = SubSeq(q, o + 1, o + n)
    BY <2>1, Zenon
  <2> QED
    BY <2>1, <2>2, <2>3, <2>4, Zenon
<1>5. o >= Len(q) \/ o < Len(q)
  BY <1>1
<1> QED
  BY <1>3, <1>4, <1>5, Zenon

(* The keyset page: rows beyond the cursor, and what is left of those      *)
(* sorts no earlier than the last row of the page.                         *)
LEMMA KeysetPage ==
  ASSUME PagingShape, walk.mode = "keyset", NEW page \in Pages
  PROVE  /\ \A r \in Range(page) : r \in Visible /\ Beyond(r)
         /\ page = <<>> => Range(page) = {} /\ \A r \in Visible : ~Beyond(r)
         /\ page # <<>> =>
              /\ Last(page) \in Range(page)
              /\ \A r \in Range(page) : Rank(table[r]) <= Rank(table[Last(page)])
              /\ \A r \in Visible \ Range(page) :
                   Beyond(r) => Rank(table[Last(page)]) <= Rank(table[r])
<1> DEFINE B == {r \in Visible : Beyond(r)}
<1>1. PICK q \in Orders(B) : page = SubSeq(q, 1, Min({PageSize, Len(q)}))
  BY DEF Pages
<1>2. B \subseteq Rows /\ B \subseteq Visible /\ \A r \in B : Rank(table[r]) \in Int
  BY RowsOfTable DEF Visible, Present
<1>4. \A r \in Visible : Beyond(r) <=> r \in B
  OBVIOUS
<1> HIDE DEF B
<1>3. /\ q \in Seq(B) /\ Len(q) = Cardinality(B) /\ Len(q) \in Nat
      /\ \A r \in B : \E i \in 1..Len(q) : q[i] = r
      /\ \A i, j \in 1..Len(q) : i < j => Rank(table[q[i]]) <= Rank(table[q[j]])
  <2>1. B \in SUBSET Rows
    BY <1>2
  <2> QED
    BY <2>1, OrderFacts
<1>5. PageSize \in Nat /\ PageSize > 0
  BY PagingAssumption
<1>6. PICK o \in Nat : o = 0 /\ o + 1 = 1 /\ o + PageSize = PageSize
  BY <1>5
<1>7. page = Slice(q, o)
  BY <1>1, <1>6, Zenon DEF Slice
<1>8. /\ page \in Seq(B)
      /\ Len(page) = IF o >= Len(q) THEN 0 ELSE IF o + PageSize <= Len(q) THEN PageSize ELSE Len(q) - o
      /\ \A i \in 1..Len(page) : o + i \in 1..Len(q) /\ page[i] = q[o + i]
  <2>1. q \in Seq(B)
    BY <1>3
  <2>2. /\ Slice(q, o) \in Seq(B)
        /\ Len(Slice(q, o)) =
             IF o >= Len(q) THEN 0 ELSE IF o + PageSize <= Len(q) THEN PageSize ELSE Len(q) - o
        /\ \A i \in 1..Len(Slice(q, o)) : o + i \in 1..Len(q) /\ Slice(q, o)[i] = q[o + i]
    BY <2>1, SliceFacts
  <2> QED
    BY <1>7, <2>2, Zenon
<1>9. Len(page) = (IF PageSize <= Len(q) THEN PageSize ELSE Len(q)) /\ Len(page) \in Nat
  BY <1>3, <1>5, <1>6, <1>8
<1>10. \A i \in 1..Len(page) : i \in 1..Len(q) /\ page[i] = q[i] /\ q[i] \in B
  BY <1>3, <1>6, <1>8, <1>9
<1>11. Range(page) = {page[i] : i \in 1..Len(page)}
  BY <1>8 DEF Range
<1>12. \A r \in Range(page) : r \in B
  BY <1>10, <1>11
<1>13. page = <<>> => Range(page) = {} /\ B = {}
  <2> SUFFICES ASSUME page = <<>> PROVE Range(page) = {} /\ B = {}
    OBVIOUS
  <2>1. Len(page) = 0
    OBVIOUS
  <2>2. Len(q) = 0
    BY <1>3, <1>5, <1>9, <2>1
  <2> QED
    BY <1>3, <1>11, <2>1, <2>2
<1>14. page # <<>> => /\ Len(page) \in 1..Len(page) /\ Last(page) = page[Len(page)]
                      /\ Last(page) \in Range(page)
  <2> SUFFICES ASSUME page # <<>> PROVE Len(page) \in 1..Len(page) /\ Last(page) = page[Len(page)]
                                        /\ Last(page) \in Range(page)
    OBVIOUS
  <2>1. Len(page) # 0
    BY <1>8
  <2>2. Len(page) \in 1..Len(page)
    BY <1>9, <2>1
  <2> QED
    BY <1>11, <2>2 DEF Last
<1>15. ASSUME page # <<>>, NEW r \in Range(page)
       PROVE  Rank(table[r]) <= Rank(table[Last(page)])
  <2>1. PICK i \in 1..Len(page) : r = page[i]
    BY <1>11
  <2>2. /\ r = q[i] /\ Last(page) = q[Len(page)] /\ i \in 1..Len(q) /\ Len(page) \in 1..Len(q)
        /\ Rank(table[r]) \in Int
    BY <1>2, <1>10, <1>14, <1>15, <2>1
  <2>3. i = Len(page) \/ i < Len(page)
    BY <1>9
  <2> QED
    BY <1>3, <2>2, <2>3
<1>16. ASSUME page # <<>>, NEW r \in B, r \notin Range(page)
       PROVE  Rank(table[Last(page)]) <= Rank(table[r])
  <2>1. PICK i \in 1..Len(q) : q[i] = r
    BY <1>3
  <2>2. i \notin 1..Len(page)
    BY <1>10, <1>11, <1>16, <2>1
  <2>3. Len(page) < i
    BY <1>3, <1>9, <2>2
  <2>4. Last(page) = q[Len(page)] /\ Len(page) \in 1..Len(q)
    BY <1>10, <1>14, <1>16
  <2> QED
    BY <1>3, <2>1, <2>3, <2>4
<1> QED
  BY <1>2, <1>4, <1>12, <1>13, <1>14, <1>15, <1>16

(* Without ties, the place of a row in the order is the number of rows     *)
(* sorted before it.                                                       *)
LEMMA PlaceIsBefore ==
  ASSUME PagingShape, ~Tied, NEW q \in Orders(Visible), NEW i \in 1..Len(q)
  PROVE  q[i] \in Visible /\ Before(q[i]) = i - 1
<1>1. Visible \subseteq Rows /\ Visible \subseteq Present
  BY DEF Visible, Present
<1>2. /\ q \in Seq(Visible) /\ Len(q) \in Nat
      /\ \A r \in Visible : \E j \in 1..Len(q) : q[j] = r
      /\ \A j, k \in 1..Len(q) : j # k => q[j] # q[k]
      /\ \A j, k \in 1..Len(q) : j < k => Rank(table[q[j]]) <= Rank(table[q[k]])
  BY <1>1, OrderFacts
<1>3. \A j \in 1..Len(q) : q[j] \in Visible
  BY <1>2
<1>4. \A r \in Visible : Rank(table[r]) \in Int
  BY <1>1, RowsOfTable
<1>5. \A r, s \in Visible : Rank(table[r]) = Rank(table[s]) => table[r] = table[s]
  <2> SUFFICES ASSUME NEW r \in Visible, NEW s \in Visible, Rank(table[r]) = Rank(table[s])
               PROVE  table[r] = table[s]
    OBVIOUS
  <2>1. table[r] \in Values \cup {Null} /\ table[s] \in Values \cup {Null}
    BY <1>1, RowsOfTable
  <2>2. /\ walk.nulls \in {"first", "last"} /\ Rank(Null) \in Int
        /\ \A v \in Values : Rank(v) = v /\ v \in Int
        /\ walk.nulls = "last" => \A v \in Values : v < Rank(Null)
        /\ walk.nulls = "first" => \A v \in Values : Rank(Null) < v
    BY RankFacts DEF PagingShape, Walking
  <2>3. \A v \in Values : Rank(v) # Rank(Null)
    BY <2>2
  <2> QED
    BY <2>1, <2>2, <2>3
<1>6. \A j, k \in 1..Len(q) : j < k => Rank(table[q[j]]) < Rank(table[q[k]])
  <2> SUFFICES ASSUME NEW j \in 1..Len(q), NEW k \in 1..Len(q), j < k
               PROVE  Rank(table[q[j]]) < Rank(table[q[k]])
    OBVIOUS
  <2>1. q[j] # q[k] /\ q[j] \in Visible /\ q[k] \in Visible
        /\ Rank(table[q[j]]) <= Rank(table[q[k]])
    <3>1. j # k
      OBVIOUS
    <3> QED
      BY <1>2, <1>3, <3>1, Zenon
  <2>2. Rank(table[q[j]]) # Rank(table[q[k]])
    BY <1>5, <2>1 DEF Tied
  <2> QED
    BY <1>4, <2>1, <2>2
<1> DEFINE T == {s \in Visible : Rank(table[s]) < Rank(table[q[i]])}
           f == [j \in 1..(i - 1) |-> q[j]]
<1>7. \A j \in 1..(i - 1) : j \in 1..Len(q) /\ j < i
  BY <1>2
<1>8. \A j \in 1..(i - 1) : q[j] \in T
  BY <1>3, <1>6, <1>7
<1>9. \A s \in T : \E j \in 1..(i - 1) : q[j] = s
  <2> SUFFICES ASSUME NEW s \in T PROVE \E j \in 1..(i - 1) : q[j] = s
    OBVIOUS
  <2>1. PICK j \in 1..Len(q) : q[j] = s
    BY <1>2
  <2>2. Rank(table[q[j]]) < Rank(table[q[i]])
    BY <2>1
  <2>3. Rank(table[q[i]]) \in Int /\ Rank(table[q[j]]) \in Int
    BY <1>3, <1>4
  <2>4. ~(i < j) /\ i # j
    BY <1>6, <2>2, <2>3
  <2>5. j \in 1..(i - 1)
    BY <1>2, <2>4
  <2> QED
    BY <2>1, <2>5
<1> HIDE DEF T
<1>10. f \in Bijection(1..(i - 1), T)
  <2>1. f \in [1..(i - 1) -> T]
    BY <1>8
  <2>2. \A a, b \in 1..(i - 1) : f[a] = f[b] => a = b
    BY <1>2, <1>7
  <2>3. \A t \in T : \E a \in 1..(i - 1) : f[a] = t
    BY <1>9
  <2> QED
    BY <2>1, <2>2, <2>3, Fun_IsBij
<1>11. i - 1 \in Int /\ i - 1 >= 0
  BY <1>2
<1>12. IsFiniteSet(1..(i - 1)) /\ Cardinality(1..(i - 1)) = i - 1
  BY <1>11, FS_Interval
<1>13. Cardinality(T) = i - 1
  <2>1. ExistsBijection(1..(i - 1), T)
    BY <1>10, Fun_ExistsBij
  <2> QED
    BY <1>12, <2>1, FS_Bijection
<1>14. Before(q[i]) = Cardinality(T)
  BY DEF Before, T
<1> QED
  BY <1>3, <1>13, <1>14

(* The offset page: the rows in the places behind the offset, as many as   *)
(* fit.                                                                    *)
LEMMA OffsetPage ==
  ASSUME PagingShape, walk.mode = "cursor", ~Tied, NEW page \in Pages
  PROVE  /\ \A r \in Visible :
              r \in Range(page) <=> Offset <= Before(r) /\ Before(r) < Offset + PageSize
         /\ page = <<>> => \A r \in Visible : Before(r) < Offset
<1>1. PICK q \in Orders(Visible) : page = SubSeq(q, Offset + 1, Min({Offset + PageSize, Len(q)}))
  BY DEF Pages
<1>2. page = Slice(q, Offset)
  BY <1>1, Zenon DEF Slice
<1>3. Offset \in Nat /\ PageSize \in Nat /\ PageSize > 0
  BY PagingAssumption DEF Offset, PagingShape, Walking, Unset
<1>4. /\ q \in Seq(Visible) /\ Len(q) \in Nat
      /\ \A r \in Visible : \E j \in 1..Len(q) : q[j] = r
  <2>1. Visible \subseteq Rows
    BY DEF Visible, Present
  <2> QED
    BY <1>1, <2>1, OrderFacts
<1>5. \A i \in 1..Len(q) : q[i] \in Visible /\ Before(q[i]) = i - 1
  BY <1>1, PlaceIsBefore
<1> HIDE DEF Visible
<1>6. /\ Slice(q, Offset) \in Seq(Visible)
      /\ Len(Slice(q, Offset)) =
           IF Offset >= Len(q) THEN 0
           ELSE IF Offset + PageSize <= Len(q) THEN PageSize ELSE Len(q) - Offset
      /\ \A i \in 1..Len(Slice(q, Offset)) :
           Offset + i \in 1..Len(q) /\ Slice(q, Offset)[i] = q[Offset + i]
  <2>1. q \in Seq(Visible)
    BY <1>4
  <2> QED
    BY <1>3, <2>1, SliceFacts
<1>7. /\ page \in Seq(Visible)
      /\ Len(page) = IF Offset >= Len(q) THEN 0
                     ELSE IF Offset + PageSize <= Len(q) THEN PageSize ELSE Len(q) - Offset
      /\ \A i \in 1..Len(page) : Offset + i \in 1..Len(q) /\ page[i] = q[Offset + i]
  BY <1>2, <1>6, Zenon
<1>8. Range(page) = {page[i] : i \in 1..Len(page)}
  BY <1>7 DEF Range
<1>9. /\ Len(page) \in Nat /\ Len(page) <= PageSize /\ Len(q) \in Nat
      /\ Len(q) <= Offset + PageSize => Len(q) <= Offset + Len(page)
      /\ Len(q) > Offset + PageSize => Len(page) = PageSize
  <2>1. /\ Len(q) \in Nat
        /\ Len(page) = IF Offset >= Len(q) THEN 0
                       ELSE IF Offset + PageSize <= Len(q) THEN PageSize ELSE Len(q) - Offset
    BY <1>4, <1>7
  <2> QED
    BY <1>3, <2>1
<1>10. ASSUME NEW r \in Visible
       PROVE  r \in Range(page) <=> Offset <= Before(r) /\ Before(r) < Offset + PageSize
  <2>1. PICK j \in 1..Len(q) : q[j] = r
    BY <1>4
  <2>2. Before(r) = j - 1
    BY <1>5, <2>1
  <2>3. ASSUME r \in Range(page) PROVE Offset <= Before(r) /\ Before(r) < Offset + PageSize
    <3>1. PICK i \in 1..Len(page) : page[i] = r
      BY <1>8, <2>3
    <3>2. PICK k \in 1..Len(q) : k = Offset + i /\ q[k] = r
      BY <1>7, <3>1
    <3>3. Before(r) = k - 1
      BY <1>5, <3>2
    <3>4. 1 <= i /\ i <= PageSize
      BY <1>3, <1>4, <1>9
    <3> QED
      BY <1>3, <3>2, <3>3, <3>4
  <2>4. ASSUME Offset <= Before(r), Before(r) < Offset + PageSize PROVE r \in Range(page)
    <3> DEFINE i == j - Offset
    <3>1. i \in 1..Len(page) /\ Offset + i = j
      BY <1>3, <1>9, <2>2, <2>4
    <3>2. page[i] = r
      BY <1>7, <2>1, <3>1
    <3> QED
      BY <1>8, <3>1, <3>2
  <2> QED
    BY <2>3, <2>4
<1>11. ASSUME page = <<>>, NEW r \in Visible PROVE Before(r) < Offset
  <2>1. PICK j \in 1..Len(q) : q[j] = r
    BY <1>4
  <2>2. Before(r) = j - 1
    BY <1>5, <2>1
  <2>3. Len(page) = 0
    BY <1>11
  <2>4. Offset >= Len(q)
    BY <1>3, <1>9, <2>1, <2>3
  <2> QED
    BY <1>3, <1>4, <2>2, <2>4
<1> QED
  BY <1>10, <1>11

LEMMA CountsAreNat == PagingShape =>
  /\ IsFiniteSet(Present) /\ Cardinality(Present) \in Nat
  /\ Cardinality(Visible) \in Nat /\ Cardinality(Visible) <= Cardinality(Present)
  /\ \A r \in Visible : Before(r) \in Nat /\ Before(r) < Cardinality(Visible)
<1> SUFFICES ASSUME PagingShape
             PROVE  /\ IsFiniteSet(Present) /\ Cardinality(Present) \in Nat
                    /\ Cardinality(Visible) \in Nat
                    /\ Cardinality(Visible) <= Cardinality(Present)
                    /\ \A r \in Visible : Before(r) \in Nat /\ Before(r) < Cardinality(Visible)
  OBVIOUS
<1>1. IsFiniteSet(Present) /\ Cardinality(Present) \in Nat
  <2>1. Present \in SUBSET Rows
    BY DEF Present
  <2> QED
    BY <2>1, PagingAssumption, FS_Subset, FS_CardinalityType
<1>2. IsFiniteSet(Visible) /\ Cardinality(Visible) \in Nat
      /\ Cardinality(Visible) <= Cardinality(Present)
  <2>1. Visible \in SUBSET Present
    BY DEF Visible
  <2> QED
    BY <1>1, <2>1, FS_Subset, FS_CardinalityType
<1>3. ASSUME NEW r \in Visible PROVE Before(r) \in Nat /\ Before(r) < Cardinality(Visible)
  <2> DEFINE T == {s \in Visible : Rank(table[s]) < Rank(table[r])}
  <2>1. T \in SUBSET Visible
    OBVIOUS
  <2>2. r \notin T
    <3>1. Rank(table[r]) \in Int
      BY RowsOfTable DEF Visible
    <3> QED
      BY <3>1
  <2> HIDE DEF T
  <2>3. Cardinality(T) \in Nat /\ Cardinality(T) <= Cardinality(Visible)
        /\ Cardinality(T) # Cardinality(Visible)
    BY <1>2, <2>1, <2>2, FS_Subset, FS_CardinalityType
  <2>4. Before(r) = Cardinality(T)
    BY DEF Before, T
  <2> QED
    BY <1>2, <2>3, <2>4
<1> QED
  BY <1>1, <1>2, <1>3

(* What returning a page does to the cursor and to what was returned.      *)
LEMMA ReturnsFacts ==
  ASSUME PagingShape, NEW page \in Pages, NEW total \in Nat, Returns(page, total)
  PROVE  /\ got' \in [Rows -> 0..2]
         /\ \A r \in Rows : got'[r] = IF r \in Range(page) THEN IF got[r] = 0 THEN 1 ELSE 2
                                      ELSE got[r]
         /\ UNCHANGED <<table, steady, writes>>
         /\ walk'.store = walk.store /\ walk'.mode = walk.mode /\ walk'.nulls = walk.nulls
         /\ walk'.at = (IF walk'.cursor = Unset THEN "done" ELSE "count")
         /\ walk'.cursor = NextCursor(page, total) /\ walk'.total = 0
         /\ page = <<>> => pageEnds' = pageEnds
         /\ page # <<>> => pageEnds' = pageEnds \cup {table[Last(page)]}
<1>1. got' = [r \in Rows |-> IF r \in Range(page) THEN Min({2, got[r] + 1}) ELSE got[r]]
  BY DEF Returns
<1>2. \A r \in Rows : got[r] \in 0..2
  BY DEF PagingShape
<1>3. \A r \in Rows : Min({2, got[r] + 1}) = IF got[r] = 0 THEN 1 ELSE 2
  <2> SUFFICES ASSUME NEW r \in Rows PROVE Min({2, got[r] + 1}) = IF got[r] = 0 THEN 1 ELSE 2
    OBVIOUS
  <2>1. 2 \in Int /\ got[r] + 1 \in Int
    BY <1>2
  <2>2. Min({2, got[r] + 1}) = IF 2 <= got[r] + 1 THEN 2 ELSE got[r] + 1
    BY <2>1, MinOfTwo
  <2> QED
    BY <1>2, <2>2
<1>4. \A r \in Rows : got'[r] = IF r \in Range(page) THEN IF got[r] = 0 THEN 1 ELSE 2 ELSE got[r]
  BY <1>1, <1>3
<1>5. got' \in [Rows -> 0..2]
  BY <1>1, <1>2, <1>3
<1>6. /\ UNCHANGED <<table, steady, writes>>
      /\ pageEnds' = IF page = <<>> THEN pageEnds ELSE pageEnds \cup {table[Last(page)]}
      /\ walk' = [walk EXCEPT !.at = IF NextCursor(page, total) = Unset THEN "done" ELSE "count",
                              !.cursor = NextCursor(page, total), !.total = 0]
  BY DEF Returns
<1>7. /\ walk'.store = walk.store /\ walk'.mode = walk.mode /\ walk'.nulls = walk.nulls
      /\ walk'.at = (IF NextCursor(page, total) = Unset THEN "done" ELSE "count")
      /\ walk'.cursor = NextCursor(page, total) /\ walk'.total = 0
  <2>1. walk = [store |-> walk.store, mode |-> walk.mode, nulls |-> walk.nulls, at |-> walk.at,
                cursor |-> walk.cursor, total |-> walk.total]
    BY DEF PagingShape, Walking
  <2> HIDE DEF NextCursor
  <2> QED
    BY <1>6, <2>1
<1> QED
  BY <1>4, <1>5, <1>6, <1>7, Zenon

LEMMA KeysetReturns ==
  ASSUME PagingInv, walk.mode = "keyset", walk.at # "done", NEW page \in Pages,
         NEW total \in Nat, Returns(page, total)
  PROVE  PagingShape' /\ \A r \in Due : KeysetKnows(r)'
<1> DEFINE v == table[Last(page)]
           next == walk'.cursor
<1>1. PagingShape /\ \A r \in Due : KeysetKnows(r)
  BY DEF PagingInv
<1>2. /\ got' \in [Rows -> 0..2]
      /\ \A r \in Rows : got'[r] = IF r \in Range(page) THEN IF got[r] = 0 THEN 1 ELSE 2
                                   ELSE got[r]
      /\ UNCHANGED <<table, steady, writes>>
      /\ walk'.store = walk.store /\ walk'.mode = walk.mode /\ walk'.nulls = walk.nulls
      /\ walk'.at = (IF walk'.cursor = Unset THEN "done" ELSE "count")
      /\ walk'.cursor = NextCursor(page, total) /\ walk'.total = 0
      /\ page = <<>> => pageEnds' = pageEnds
      /\ page # <<>> => pageEnds' = pageEnds \cup {v}
  BY <1>1, ReturnsFacts
<1>3. /\ \A r \in Range(page) : r \in Visible /\ Beyond(r)
      /\ page = <<>> => Range(page) = {} /\ \A r \in Visible : ~Beyond(r)
      /\ page # <<>> =>
           /\ Last(page) \in Range(page)
           /\ \A r \in Range(page) : Rank(table[r]) <= Rank(v)
           /\ \A r \in Visible \ Range(page) : Beyond(r) => Rank(v) <= Rank(table[r])
  BY <1>1, KeysetPage
<1>4. \A r \in Visible : r \in Rows /\ table[r] \in Values \cup {Null} /\ Rank(table[r]) \in Int
  BY <1>1, RowsOfTable DEF Visible
<1>5. \A r \in Due : r \in Visible /\ r \in Rows
  BY <1>1, <1>4 DEF Due, Visible, PagingShape
<1>6. Unset \notin Values \cup {Null} /\ Unset \notin Nat /\ Values \subseteq Nat
  BY PagingAssumption DEF Unset, Null
<1>7. /\ walk.store = "sql" /\ walk.cursor \in {Unset} \cup Values
      /\ walk.nulls \in {"first", "last"} /\ got \in [Rows -> 0..2]
      /\ pageEnds \subseteq Values \cup {Null} /\ writes \in Nat
      /\ table \in [Rows -> Values \cup {Null, Absent}] /\ steady \subseteq Present
  BY <1>1 DEF PagingShape, Walking
<1>8. /\ \A w \in Values : Rank(w) = w /\ w \in Nat
      /\ Rank(Null) \in Int /\ Null \notin Nat
      /\ walk.nulls = "last" => \A w \in Values : w < Rank(Null)
      /\ walk.nulls = "first" => \A w \in Values : Rank(Null) < w
  BY <1>1, RankFacts
<1>9. page = <<>> => next = Unset
  BY <1>2, <1>7 DEF NextCursor
<1>10. page # <<>> => v \in Values \cup {Null} /\ next = (IF v = Null THEN Unset ELSE v)
  BY <1>2, <1>3, <1>4 DEF NextCursor
<1>11. PagingShape'
  <2>1. Present' = Present
    BY <1>2 DEF Present
  <2>2. next \in {Unset} \cup Values
    BY <1>9, <1>10
  <2>3. walk' \in Walking
    <3>1. walk' = [walk EXCEPT !.at = IF next = Unset THEN "done" ELSE "count",
                               !.cursor = next, !.total = 0]
      BY <1>2 DEF Returns
    <3> HIDE DEF next
    <3>2. next \in {Unset} \cup Nat
      BY <1>6, <2>2
    <3> QED
      BY <1>1, <3>1, <3>2 DEF PagingShape, Walking
  <2>4. pageEnds' \subseteq Values \cup {Null}
    BY <1>2, <1>7, <1>10
  <2> HIDE DEF next
  <2> QED
    BY <1>2, <1>7, <2>1, <2>2, <2>3, <2>4 DEF PagingShape, next
<1>12. ASSUME NEW r \in Due PROVE KeysetKnows(r)'
  <2>1. r \in Visible /\ r \in Rows /\ table[r] \in Values \cup {Null} /\ got[r] \in 0..2
    BY <1>4, <1>5, <1>7
  <2>2. /\ got[r] <= 1
        /\ got[r] = 1 => walk.cursor # Unset /\ table[r] <= walk.cursor
        /\ walk.cursor # Unset /\ table[r] # Null /\ table[r] <= walk.cursor =>
             got[r] = 1 \/ table[r] \in pageEnds
    BY <1>1 DEF KeysetKnows
  <2>3. Beyond(r) <=> walk.cursor = Unset \/ (table[r] # Null /\ table[r] > walk.cursor)
    BY DEF Beyond
  <2>4. Null \in Int /\ Null < 0
    BY DEF Null
  <2>5. table[r] \in Int /\ (walk.cursor # Unset => walk.cursor \in Nat)
    <3>1. \A w \in Values : w \in Nat /\ w \in Int
      BY <1>6
    <3>2. table[r] \in Int
      BY <2>1, <2>4, <3>1
    <3>3. walk.cursor # Unset => walk.cursor \in Nat
      BY <1>7, <3>1
    <3> QED
      BY <3>2, <3>3
  <2>6. Beyond(r) => got[r] = 0
    <3> SUFFICES ASSUME got[r] = 1 PROVE ~Beyond(r)
      BY <2>1, <2>2
    <3> QED
      BY <2>2, <2>3, <2>5
  <2>7. ~Beyond(r) => got[r] = 1 \/ table[r] \in pageEnds \cup {Null}
    <3> SUFFICES ASSUME ~Beyond(r), table[r] # Null PROVE got[r] = 1 \/ table[r] \in pageEnds
      OBVIOUS
    <3>1. walk.cursor # Unset /\ table[r] <= walk.cursor
      BY <2>3, <2>5
    <3> QED
      BY <2>2, <3>1
  <2>8. CASE page = <<>>
    <3>1. got'[r] = got[r] /\ walk'.at = "done" /\ pageEnds' = pageEnds /\ table' = table
          /\ ~Beyond(r)
      BY <1>2, <1>3, <1>9, <2>1, <2>8
    <3>2. got'[r] <= 1 /\ (got'[r] = 1 \/ table'[r] \in pageEnds' \cup {Null})
      BY <2>2, <2>7, <3>1
    <3> QED
      BY <3>1, <3>2 DEF KeysetKnows
  <2>9. CASE page # <<>>
    <3>1. v \in Values \cup {Null} /\ next = (IF v = Null THEN Unset ELSE v)
          /\ pageEnds' = pageEnds \cup {v} /\ table' = table /\ walk'.nulls = walk.nulls
          /\ walk'.at = (IF next = Unset THEN "done" ELSE "count")
      BY <1>2, <1>10, <2>9
    <3>2. r \in Range(page) => Beyond(r) /\ got'[r] = 1 /\ Rank(table[r]) <= Rank(v)
      BY <1>2, <1>3, <2>1, <2>6, <2>9
    <3>3. r \notin Range(page) => got'[r] = got[r] /\ (Beyond(r) => Rank(v) <= Rank(table[r]))
      BY <1>2, <1>3, <2>1, <2>9
    <3>4. got'[r] <= 1
      BY <2>2, <3>2, <3>3
    <3>5. walk.cursor # Unset => v # Null /\ v > walk.cursor
      BY <1>3, <2>9 DEF Beyond
    <3> HIDE DEF v, next
    <3>6. CASE v = Null
      <4>1. walk'.at = "done"
        BY <3>1, <3>6
      <4>2. walk.nulls = "last" => (got'[r] = 1 \/ table[r] \in pageEnds' \cup {Null})
        <5> SUFFICES ASSUME walk.nulls = "last", r \notin Range(page)
                     PROVE  got'[r] = 1 \/ table[r] \in pageEnds' \cup {Null}
          BY <3>2
        <5>1. CASE Beyond(r)
          <6>1. Rank(Null) <= Rank(table[r])
            BY <3>3, <3>6, <5>1
          <6>2. table[r] \notin Values
            BY <1>8, <6>1
          <6> QED
            BY <2>1, <6>2
        <5>2. CASE ~Beyond(r)
          BY <2>7, <3>1, <3>3, <5>2
        <5> QED
          BY <5>1, <5>2
      <4>3. Null \in pageEnds'
        BY <3>1, <3>6
      <4>4. \/ got'[r] = 1 \/ table'[r] \in pageEnds' \cup {Null}
            \/ (walk'.nulls = "first" /\ Null \in pageEnds')
        BY <1>7, <3>1, <4>2, <4>3
      <4> QED
        BY <3>4, <4>1, <4>4 DEF KeysetKnows
    <3>7. CASE v # Null
      <4>1. v \in Values /\ next = v /\ next # Unset /\ walk'.at = "count"
        BY <1>6, <3>1, <3>7
      <4>2. Rank(v) = v /\ v \in Nat
        BY <1>8, <4>1
      <4>3. got'[r] = 1 => table[r] <= v
        <5>1. CASE r \in Range(page)
          <6>1. Rank(table[r]) <= v
            BY <3>2, <4>2, <5>1
          <6>2. CASE table[r] = Null
            BY <2>4, <4>2, <6>2
          <6>3. CASE table[r] \in Values
            BY <1>8, <6>1, <6>3
          <6> QED
            BY <2>1, <6>2, <6>3
        <5>2. CASE r \notin Range(page)
          <6> SUFFICES ASSUME got[r] = 1 PROVE table[r] <= v
            BY <3>3, <5>2
          <6>1. walk.cursor \in Values /\ table[r] <= walk.cursor /\ v > walk.cursor
            BY <1>7, <2>2, <3>5
          <6>2. walk.cursor \in Nat
            BY <1>6, <6>1
          <6> QED
            BY <2>5, <4>2, <6>1, <6>2
        <5> QED
          BY <5>1, <5>2
      <4>4. table[r] # Null /\ table[r] <= v => got'[r] = 1 \/ table[r] \in pageEnds'
        <5> SUFFICES ASSUME table[r] # Null, table[r] <= v, r \notin Range(page)
                     PROVE  got'[r] = 1 \/ table[r] \in pageEnds'
          BY <3>2
        <5>1. table[r] \in Values /\ Rank(table[r]) = table[r] /\ table[r] \in Nat
          BY <1>8, <2>1
        <5>2. CASE Beyond(r)
          <6>1. v <= table[r]
            BY <3>3, <4>2, <5>1, <5>2
          <6>2. v = table[r]
            BY <4>2, <5>1, <6>1
          <6> QED
            BY <3>1, <6>2
        <5>3. CASE ~Beyond(r)
          BY <2>7, <3>1, <3>3, <5>3
        <5> QED
          BY <5>2, <5>3
      <4> QED
        BY <3>1, <3>4, <4>1, <4>3, <4>4 DEF KeysetKnows, next
    <3> QED
      BY <3>6, <3>7
  <2> QED
    BY <2>8, <2>9
<1> QED
  BY <1>11, <1>12

LEMMA OffsetReturns ==
  ASSUME PagingInv, walk.mode = "cursor", walk.at # "done", NEW page \in Pages,
         NEW total \in Nat, Returns(page, total),
         writes = 0 => Cardinality(Visible) <= total
  PROVE  PagingShape' /\ (writes = 0 /\ ~Tied => \A r \in Visible : OffsetKnows(r)')
<1> DEFINE next == walk'.cursor
<1>1. PagingShape /\ (writes = 0 /\ ~Tied => \A r \in Visible : OffsetKnows(r))
  BY DEF PagingInv
<1>2. /\ got' \in [Rows -> 0..2]
      /\ \A r \in Rows : got'[r] = IF r \in Range(page) THEN IF got[r] = 0 THEN 1 ELSE 2
                                   ELSE got[r]
      /\ UNCHANGED <<table, steady, writes>>
      /\ walk'.store = walk.store /\ walk'.mode = walk.mode /\ walk'.nulls = walk.nulls
      /\ walk'.at = (IF walk'.cursor = Unset THEN "done" ELSE "count")
      /\ walk'.cursor = NextCursor(page, total) /\ walk'.total = 0
      /\ page = <<>> => pageEnds' = pageEnds
      /\ page # <<>> => pageEnds' = pageEnds \cup {table[Last(page)]}
  BY <1>1, ReturnsFacts
<1>3. Offset \in Nat /\ PageSize \in Nat
  BY <1>1, PagingAssumption DEF Offset, PagingShape, Walking, Unset
<1>4. next = IF walk.store = "sql" /\ page = <<>> THEN Unset
             ELSE IF Offset + PageSize < total THEN Offset + PageSize ELSE Unset
  BY <1>2 DEF NextCursor
<1>5. PagingShape'
  <2>1. Present' = Present
    BY <1>2 DEF Present
  <2>2. next \in {Unset} \cup Nat
    BY <1>3, <1>4
  <2>3. walk' \in Walking
    <3>1. walk' = [walk EXCEPT !.at = IF next = Unset THEN "done" ELSE "count",
                               !.cursor = next, !.total = 0]
      BY <1>2 DEF Returns
    <3> HIDE DEF next
    <3> QED
      BY <1>1, <2>2, <3>1 DEF PagingShape, Walking
  <2>4. page # <<>> => table[Last(page)] \in Values \cup {Null}
    <3> SUFFICES ASSUME page # <<>> PROVE Last(page) \in Present
      BY <1>1, RowsOfTable
    <3>1. PICK q \in Orders(Visible) : page = SubSeq(q, Offset + 1, Min({Offset + PageSize, Len(q)}))
      BY DEF Pages
    <3>2. page = Slice(q, Offset)
      BY <3>1, Zenon DEF Slice
    <3>3. Visible \subseteq Rows /\ Visible \subseteq Present
      BY DEF Visible, Present
    <3>4. q \in Seq(Visible)
      BY <3>1, <3>3, OrderFacts
    <3>5. Slice(q, Offset) \in Seq(Visible)
      BY <1>3, <3>4, SliceFacts
    <3>6. page \in Seq(Visible)
      BY <3>2, <3>5, Zenon
    <3>7. Len(page) \in 1..Len(page)
      BY <3>6
    <3>8. page[Len(page)] \in Visible
      BY <3>6, <3>7
    <3> QED
      BY <3>3, <3>8 DEF Last
  <2>5. pageEnds' \subseteq Values \cup {Null}
    BY <1>1, <1>2, <2>4 DEF PagingShape
  <2> HIDE DEF next
  <2> QED
    BY <1>1, <1>2, <2>1, <2>3, <2>5 DEF PagingShape
<1>6. ASSUME writes = 0, ~Tied, NEW r \in Visible PROVE OffsetKnows(r)'
  <2>1. Visible' = Visible /\ table' = table /\ walk'.nulls = walk.nulls
    BY <1>2 DEF Visible, Present
  <2>2. Before(r)' = Before(r)
    BY <2>1 DEF Before, Rank
  <2>3. Before(r) \in Nat /\ Before(r) < Cardinality(Visible) /\ Cardinality(Visible) \in Nat
    BY <1>1, CountsAreNat
  <2>4. got[r] = IF Before(r) < Offset THEN 1 ELSE 0
    BY <1>1, <1>6 DEF OffsetKnows
  <2>5. r \in Range(page) <=> Offset <= Before(r) /\ Before(r) < Offset + PageSize
    BY <1>1, <1>6, OffsetPage
  <2>6. page = <<>> => Before(r) < Offset
    BY <1>1, <1>6, OffsetPage
  <2>7. r \in Rows
    BY DEF Visible, Present
  <2>8. got'[r] = IF r \in Range(page) THEN IF got[r] = 0 THEN 1 ELSE 2 ELSE got[r]
    BY <1>2, <2>7
  <2>9. got'[r] = IF Before(r) < Offset + PageSize THEN 1 ELSE 0
    <3>1. CASE Before(r) < Offset
      BY <1>3, <2>3, <2>4, <2>5, <2>8, <3>1
    <3>2. CASE ~(Before(r) < Offset)
      BY <1>3, <2>3, <2>4, <2>5, <2>8, <3>2
    <3> QED
      BY <3>1, <3>2
  <2>10. CASE next = Unset
    <3>1. walk'.at = "done"
      BY <1>2, <2>10
    <3>2. page = <<>> \/ total <= Offset + PageSize
      BY <1>3, <1>4, <2>10 DEF Unset
    <3>3. Before(r) < Offset + PageSize
      BY <1>3, <1>6, <2>3, <2>6, <3>2
    <3>4. got'[r] = 1
      BY <2>9, <3>3
    <3> QED
      BY <3>1, <3>4 DEF OffsetKnows
  <2>11. CASE next # Unset
    <3>1. walk'.at = "count" /\ next = Offset + PageSize
      BY <1>2, <1>4, <2>11
    <3>2. Offset' = Offset + PageSize
      BY <2>11, <3>1 DEF Offset
    <3> QED
      BY <2>2, <2>9, <3>1, <3>2 DEF OffsetKnows
  <2> QED
    BY <2>10, <2>11
<1> QED
  BY <1>5, <1>6

LEMMA PagingBegins == PagingInit => PagingInv
<1> SUFFICES ASSUME PagingInit PROVE PagingInv
  OBVIOUS
<1>1. PICK w \in Walks : walk = [store |-> w.store, mode |-> w.mode, nulls |-> w.nulls,
                                 at |-> "count", cursor |-> Unset, total |-> 0]
  BY DEF PagingInit
<1>2. /\ table \in [Rows -> Values \cup {Null, Absent}] /\ got = [r \in Rows |-> 0]
      /\ steady = Present /\ pageEnds = {} /\ writes = 0
  BY DEF PagingInit
<1>3. walk \in Walking /\ walk.cursor = Unset /\ walk.at = "count"
      /\ (walk.mode = "keyset" => walk.store = "sql")
  BY <1>1 DEF Walks, Walking
<1>4. PagingShape
  BY <1>2, <1>3 DEF PagingShape
<1>5. ASSUME NEW r \in Due PROVE KeysetKnows(r)
  <2>1. r \in Rows
    BY <1>2 DEF Due, Present
  <2> QED
    BY <1>2, <1>3, <2>1 DEF KeysetKnows
<1>6. ASSUME NEW r \in Visible PROVE OffsetKnows(r)
  <2>1. r \in Rows
    BY DEF Visible, Present
  <2>2. Before(r) \in Nat
    BY <1>4, CountsAreNat
  <2>3. Offset = 0
    BY <1>3 DEF Offset
  <2> QED
    BY <1>2, <1>3, <2>1, <2>2, <2>3 DEF OffsetKnows
<1> QED
  BY <1>2, <1>3, <1>4, <1>5, <1>6 DEF PagingInv

LEMMA CountsKeeps == PagingInv /\ Counts => PagingInv'
<1> SUFFICES ASSUME PagingInv, Counts PROVE PagingInv'
  OBVIOUS
<1>1. PagingShape /\ walk.store = "sql" /\ walk.at = "count"
      /\ UNCHANGED <<table, got, steady, pageEnds, writes>>
      /\ walk' = [walk EXCEPT !.at = "select", !.total = Cardinality(Present)]
  BY DEF PagingInv, Counts
<1>2. Cardinality(Present) \in Nat
  BY <1>1, CountsAreNat
<1> DEFINE n == Cardinality(Present)
<1> HIDE DEF n
<1>3. /\ walk' \in Walking /\ walk'.store = walk.store /\ walk'.mode = walk.mode
      /\ walk'.nulls = walk.nulls /\ walk'.cursor = walk.cursor /\ walk'.at = "select"
      /\ walk'.total = n
  <2>1. walk' = [walk EXCEPT !.at = "select", !.total = n]
    BY <1>1 DEF n
  <2>2. n \in Nat
    BY <1>2 DEF n
  <2> QED
    BY <1>1, <2>1, <2>2 DEF PagingShape, Walking
<1>4. Present' = Present /\ Visible' = Visible /\ Due' = Due /\ Tied' = Tied /\ Offset' = Offset
  BY <1>1, <1>3 DEF Present, Visible, Due, Tied, Offset
<1>5. PagingShape'
  BY <1>1, <1>3, <1>4 DEF PagingShape
<1>6. ASSUME walk.mode = "keyset", NEW r \in Due PROVE KeysetKnows(r)'
  <2>1. KeysetKnows(r) /\ walk.at # "done" /\ walk'.at # "done"
    BY <1>1, <1>3, <1>6 DEF PagingInv
  <2> QED
    BY <1>1, <1>3, <2>1 DEF KeysetKnows
<1>7. ASSUME walk.mode = "cursor", writes = 0, ~Tied, NEW r \in Visible PROVE OffsetKnows(r)'
  <2>1. OffsetKnows(r) /\ walk.at # "done" /\ walk'.at # "done"
    BY <1>1, <1>3, <1>7 DEF PagingInv
  <2>2. Before(r)' = Before(r)
    BY <1>1, <1>3, <1>4 DEF Before, Rank
  <2> QED
    BY <1>1, <1>4, <2>1, <2>2 DEF OffsetKnows
<1>8. Cardinality(Present)' = n
  BY <1>4 DEF n
<1> QED
  BY <1>1, <1>3, <1>4, <1>5, <1>6, <1>7, <1>8 DEF PagingInv

LEMMA ReturnsKeeps ==
  ASSUME PagingInv, walk.at # "done", NEW page \in Pages, NEW total \in Nat,
         Returns(page, total),
         walk.mode = "cursor" /\ writes = 0 => Cardinality(Visible) <= total
  PROVE  PagingInv'
<1>1. PagingShape /\ walk.mode \in {"cursor", "keyset"}
  BY DEF PagingInv, PagingShape, Walking
<1>2. /\ UNCHANGED <<table, steady, writes>> /\ walk'.store = walk.store
      /\ walk'.mode = walk.mode /\ walk'.at \in {"done", "count"}
  BY <1>1, ReturnsFacts
<1>3. Present' = Present /\ Visible' = Visible /\ Due' = Due /\ Tied' = Tied
  BY <1>2 DEF Present, Visible, Due, Tied
<1>4. CASE walk.mode = "keyset"
  <2>1. PagingShape' /\ \A r \in Due : KeysetKnows(r)'
    BY <1>4, KeysetReturns
  <2> QED
    BY <1>2, <1>3, <1>4, <2>1 DEF PagingInv
<1>5. CASE walk.mode = "cursor"
  <2>1. PagingShape' /\ (writes = 0 /\ ~Tied => \A r \in Visible : OffsetKnows(r)')
    BY <1>5, OffsetReturns
  <2>2. writes = 0 => steady = Present
    BY <1>5 DEF PagingInv
  <2> QED
    BY <1>2, <1>3, <1>5, <2>1, <2>2 DEF PagingInv
<1> QED
  BY <1>1, <1>4, <1>5

LEMMA WritesKeep == PagingInv /\ Writes => PagingInv'
<1> SUFFICES ASSUME PagingInv, Writes PROVE PagingInv'
  OBVIOUS
<1>1. PICK s \in Rows, v \in Values \cup {Null, Absent} :
        table' = [table EXCEPT ![s] = v] /\ steady' = steady \ {s}
  BY DEF Writes
<1>2. PagingShape /\ writes' = writes + 1 /\ UNCHANGED <<walk, got, pageEnds>>
  BY DEF PagingInv, Writes
<1>3. /\ table \in [Rows -> Values \cup {Null, Absent}] /\ steady \subseteq Present
      /\ writes \in Nat
  BY <1>2 DEF PagingShape
<1>4. \A r \in Rows : r # s => table'[r] = table[r]
  BY <1>1, <1>3
<1>5. PagingShape'
  <2>1. table' \in [Rows -> Values \cup {Null, Absent}]
    BY <1>1, <1>3
  <2>2. steady' \subseteq Present'
    BY <1>1, <1>3, <1>4 DEF Present
  <2>3. writes' \in Nat
    BY <1>2, <1>3
  <2> QED
    BY <1>2, <2>1, <2>2, <2>3 DEF PagingShape
<1>6. ASSUME walk.mode = "keyset", NEW r \in Due' PROVE KeysetKnows(r)'
  <2>1. r \in Due /\ r \in Rows /\ r # s
    BY <1>1, <1>3 DEF Due, Present
  <2>2. KeysetKnows(r) /\ table'[r] = table[r]
    BY <1>4, <1>6, <2>1 DEF PagingInv
  <2> QED
    BY <1>2, <2>2 DEF KeysetKnows
<1>7. writes' # 0
  BY <1>2, <1>3
<1> QED
  BY <1>2, <1>5, <1>6, <1>7 DEF PagingInv

LEMMA PagingInvariance == PagingInv /\ [PagingNext]_pagingVars => PagingInv'
<1> SUFFICES ASSUME PagingInv, [PagingNext]_pagingVars PROVE PagingInv'
  OBVIOUS
<1>1. PagingShape /\ Cardinality(Present) \in Nat /\ Cardinality(Visible) \in Nat
      /\ Cardinality(Visible) <= Cardinality(Present)
  BY CountsAreNat DEF PagingInv
<1>2. CASE Counts
  BY <1>2, CountsKeeps
<1>3. CASE Selects
  <2>1. walk.at = "select"
    BY <1>3 DEF Selects
  <2>2. PICK page \in Pages : Returns(page, walk.total)
    BY <1>3 DEF Selects
  <2>3. walk.total \in Nat /\ walk.store \in {"sql", "memory"}
    BY <1>1 DEF PagingShape, Walking
  <2>4. walk.mode = "cursor" /\ writes = 0 => Cardinality(Visible) <= walk.total
    <3> SUFFICES ASSUME walk.mode = "cursor", writes = 0
                 PROVE  Cardinality(Visible) <= walk.total
      OBVIOUS
    <3>1. walk.total = Cardinality(Present)
      BY <2>1, <2>3 DEF PagingInv
    <3> QED
      BY <1>1, <3>1
  <2> QED
    BY <2>1, <2>2, <2>3, <2>4, ReturnsKeeps
<1>4. CASE PageOfMemory
  <2>1. walk.store = "memory" /\ walk.at = "count"
    BY <1>4 DEF PageOfMemory
  <2>2. PICK page \in Pages : Returns(page, Cardinality(Visible))
    BY <1>4 DEF PageOfMemory
  <2>3. Cardinality(Visible) <= Cardinality(Visible)
    BY <1>1
  <2> QED
    BY <1>1, <2>1, <2>2, <2>3, ReturnsKeeps
<1>5. CASE Writes
  BY <1>5, WritesKeep
<1>6. CASE UNCHANGED pagingVars
  <2>1. UNCHANGED <<table, walk, got, steady, pageEnds, writes>>
    BY <1>6 DEF pagingVars
  <2> QED
    BY <2>1 DEF PagingInv, PagingShape, KeysetKnows, OffsetKnows, Before, Rank, Offset, Tied,
                Due, Visible, Present
<1> QED
  BY <1>2, <1>3, <1>4, <1>5, <1>6 DEF PagingNext

(* Whoever walks the pages of a repository gets each row that is there all *)
(* along once: with a keyset cursor whatever is written meanwhile, but for *)
(* ties and NULLs, with an offset when nothing is (_resolve_next_cursor    *)
(* and the statements of list).                                            *)
THEOREM WalksReturnEachOnce == PagingSpec => []WalksExact
<1>1. PagingInv => WalksExact
  <2> SUFFICES ASSUME PagingInv PROVE WalksExact
    OBVIOUS
  <2>1. KeysetExact
    BY DEF PagingInv, KeysetKnows, KeysetExact
  <2>2. OffsetExact
    <3> SUFFICES ASSUME walk.mode = "cursor", writes = 0, ~Tied, NEW r \in Due
                 PROVE  got[r] <= 1 /\ (walk.at = "done" => got[r] = 1)
      BY DEF OffsetExact
    <3>1. r \in Visible
      BY DEF PagingInv, PagingShape, Due, Visible
    <3> QED
      BY <3>1 DEF PagingInv, OffsetKnows
  <2> QED
    BY <2>1, <2>2 DEF WalksExact
<1>2. PagingInit => PagingInv
  BY PagingBegins
<1> QED
  BY <1>1, <1>2, PagingInvariance, PTL DEF PagingSpec

------------------------------------------------------------------------------
(* Middlewares.                                                            *)

(* Who may answer a request, and what its trace consists of.              *)
AtRoute == Inside \cup {"raised"}
AtSigning == AtRoute \cup {"request_signing"}
Heads == AtSigning \cup {"idempotency", "replay", "rate_limit", "tenant"}
Notes == Heads \cup {"audited", "measured", "api_contract"}

Responses == [status : Nat, shape : {"envelope", "bare", "large", "other", "raised"}]
Records == [payload : Payloads, response : Responses]
Stores == [admitted : 0..MaxPerWindow, records : [Tokens -> Records \cup {NoRecord}],
           marked : SUBSET Stamps, trace : Seq(Notes)]
Outcomes == [response : Responses, stores : Stores]

(* The trace of a request that was answered at h.                          *)
AuditedTrace(h, write) ==
  IF SwitchedOn("audit") /\ h \in Inside /\ write THEN <<h, "audited">> ELSE <<h>>
MeasuredTrace(h, write) ==
  IF SwitchedOn("observability") /\ h \in Inside
  THEN Append(AuditedTrace(h, write), "measured") ELSE AuditedTrace(h, write)
WholeTrace(h, write, enveloped) ==
  IF enveloped THEN Append(MeasuredTrace(h, write), "api_contract") ELSE MeasuredTrace(h, write)

(* The layers up to signing touch no record and spend nothing; an outcome  *)
(* is an exception just when the route raised.                             *)
Passes(out, q, s, heads) ==
  /\ out \in Outcomes
  /\ out.stores.admitted = s.admitted /\ out.stores.records = s.records
  /\ \E h \in heads : /\ out.stores.trace = MeasuredTrace(h, q.write)
                      /\ h = "raised" <=> out.response = Raised

Recorded(k, s) == s.records[k] # NoRecord
Retries(q, s) ==
  SwitchedOn("idempotency") /\ q.token \in Tokens /\ Recorded(q.token, s)
    /\ s.records[q.token].payload = q.payload

(* From idempotency on: a record that is made is of this request and of    *)
(* its response, in a free place; a retry is a replay or refused.          *)
Keeps(out, q, s) ==
  /\ out \in Outcomes
  /\ \E h \in Heads : out.stores.trace = MeasuredTrace(h, q.write)
  /\ \A k \in Tokens : out.stores.records[k] # s.records[k] =>
       /\ ~Recorded(k, s) /\ out.response # Raised
       /\ out.stores.records[k] = [payload |-> q.payload, response |-> out.response]
  /\ Retries(q, s) =>
       \/ out.stores.trace = <<"rate_limit">> \/ out.stores.trace = <<"tenant">>
       \/ /\ out.stores.trace = <<"replay">> /\ out.stores.marked = s.marked
          /\ out.response = s.records[q.token].response

Arriving == {s \in Stores : s.trace = <<>>}

LEMMA ResponseFacts ==
  ASSUME NEW number \in Nat, NEW shape \in {"envelope", "other"}
  PROVE  /\ Response(number, shape) \in Responses /\ Response(number, shape).status = number
         /\ Response(number, shape).shape = shape
BY DEF Response, Responses

LEMMA RaisedFacts == Raised \in Responses /\ Raised.status = 0 /\ Raised.shape = "raised"
BY DEF Raised, Response, Responses

LEMMA RequestFacts ==
  ASSUME NEW q \in Request
  PROVE  /\ q.write \in BOOLEAN /\ q.token \in Tokens \cup {NoToken} /\ q.payload \in Payloads
         /\ q.stamp \in Stamps /\ q.ending \in Responses
<1>1. q \in Sent
  BY DEF Request
<1>2. q.ending \in Endings
  BY <1>1 DEF Sent
<1>3. Endings \subseteq Responses
  <2>1. Fine \in Responses
    BY DEF Fine, Response, Responses
  <2>2. Raised \in Responses
    BY RaisedFacts
  <2>3. Response(200, "bare") \in Responses /\ Response(200, "large") \in Responses
        /\ Response(500, "envelope") \in Responses
    BY DEF Response, Responses
  <2> QED
    BY <2>1, <2>2, <2>3 DEF Endings
<1> QED
  BY <1>1, <1>2, <1>3 DEF Sent

LEMMA AppendToOne ==
  ASSUME NEW a, NEW b
  PROVE  Append(<<a>>, b) = <<a, b>>
<1>1. <<a>> \in Seq({a, b}) /\ <<a, b>> \in Seq({a, b})
  OBVIOUS
<1>2. Append(<<a>>, b) \in Seq({a, b}) /\ Len(Append(<<a>>, b)) = 2
      /\ Append(<<a>>, b)[1] = a /\ Append(<<a>>, b)[2] = b
  BY <1>1
<1>3. Len(<<a, b>>) = 2 /\ <<a, b>>[1] = a /\ <<a, b>>[2] = b
  OBVIOUS
<1>4. \A i \in 1..2 : Append(<<a>>, b)[i] = <<a, b>>[i]
  <2>1. \A i \in 1..2 : i = 1 \/ i = 2
    OBVIOUS
  <2> QED
    BY <1>2, <1>3, <2>1
<1> QED
  BY <1>1, <1>2, <1>3, <1>4, SeqEqual

LEMMA AppendSort ==
  ASSUME NEW S, NEW t \in Seq(S), NEW x \in S
  PROVE  Append(t, x) \in Seq(S)
OBVIOUS

LEMMA NotedFacts ==
  ASSUME NEW s \in Stores, NEW what \in Notes
  PROVE  LET n == Noted(s, what)
         IN /\ n \in Stores /\ n.admitted = s.admitted /\ n.records = s.records
            /\ n.marked = s.marked /\ n.trace = Append(s.trace, what)
<1> DEFINE t == Append(s.trace, what)
<1>1. s.trace \in Seq(Notes)
  BY DEF Stores
<1>2. t \in Seq(Notes)
  BY <1>1, AppendSort
<1> HIDE DEF t
<1>3. Noted(s, what) = [s EXCEPT !.trace = t]
  BY DEF Noted, t
<1>4. LET n == [s EXCEPT !.trace = t]
      IN /\ n \in Stores /\ n.admitted = s.admitted /\ n.records = s.records
         /\ n.marked = s.marked /\ n.trace = t
  BY <1>2 DEF Stores
<1> QED
  BY <1>3, <1>4 DEF t

LEMMA OutcomeFacts ==
  ASSUME NEW r \in Responses, NEW s \in Stores
  PROVE  Outcome(r, s) \in Outcomes /\ Outcome(r, s).response = r /\ Outcome(r, s).stores = s
BY DEF Outcome, Outcomes

LEMMA AnswerFacts ==
  ASSUME NEW s \in Stores, NEW layer \in Notes, NEW number \in Nat \ {0}, NEW shape \in {"envelope", "other"}
  PROVE  LET out == Outcome(Response(number, shape), Noted(s, layer))
         IN /\ out \in Outcomes /\ out.response # Raised
            /\ out.stores.admitted = s.admitted /\ out.stores.records = s.records
            /\ out.stores.marked = s.marked /\ out.stores.trace = Append(s.trace, layer)
<1>1. Response(number, shape) \in Responses
  BY ResponseFacts
<1>2. Response(number, shape).status # Raised.status
  <2>1. Response(number, shape).status = number
    BY DEF Response
  <2> QED
    BY <2>1, RaisedFacts
<1> QED
  BY <1>1, <1>2, NotedFacts, OutcomeFacts

LEMMA NotedIfFacts ==
  ASSUME NEW out \in Outcomes, NEW what \in Notes, NEW cond
  PROVE  LET more == NotedIf(cond, out, what)
         IN /\ more \in Outcomes /\ more.response = out.response
            /\ more.stores.admitted = out.stores.admitted
            /\ more.stores.records = out.stores.records
            /\ more.stores.marked = out.stores.marked
            /\ cond => more.stores.trace = Append(out.stores.trace, what)
            /\ ~cond => more.stores.trace = out.stores.trace
<1>1. out.stores \in Stores
  BY DEF Outcomes
<1> DEFINE n == Noted(out.stores, what)
<1>2. /\ n \in Stores /\ n.admitted = out.stores.admitted /\ n.records = out.stores.records
      /\ n.marked = out.stores.marked /\ n.trace = Append(out.stores.trace, what)
  BY <1>1, NotedFacts
<1> HIDE DEF n
<1>3. CASE cond
  <2>1. NotedIf(cond, out, what) = [out EXCEPT !.stores = n]
    BY <1>3 DEF NotedIf, n
  <2>2. [out EXCEPT !.stores = n] \in Outcomes /\ [out EXCEPT !.stores = n].stores = n
        /\ [out EXCEPT !.stores = n].response = out.response
    BY <1>2 DEF Outcomes
  <2> QED
    BY Zenon, <1>2, <1>3, <2>1, <2>2
<1>4. CASE ~cond
  BY Zenon, <1>4 DEF NotedIf
<1> QED
  BY <1>3, <1>4

(* What an arriving request meets at the route and the layers around it.   *)
InnerOutcome(out, s, heads) ==
  /\ out \in Outcomes
  /\ out.stores.admitted = s.admitted /\ out.stores.records = s.records
  /\ out.stores.marked = s.marked
  /\ \E h \in heads : out.stores.trace = <<h>> /\ (h = "raised" <=> out.response = Raised)

LEMMA AtHardened ==
  ASSUME NEW q \in Request, NEW s \in Arriving
  PROVE  InnerOutcome(Hardened(q, s), s, AtRoute)
<1>1. s \in Stores /\ s.trace = <<>>
  BY DEF Arriving
<1>2. \A what : Append(s.trace, what) = <<what>>
  BY <1>1
<1>3. InnerOutcome(Route(q, s), s, AtRoute)
  <2> DEFINE what == IF q.ending = Raised THEN "raised" ELSE "route"
  <2>2. what \in Notes /\ what \in AtRoute /\ (what = "raised" <=> q.ending = Raised)
    BY DEF AtRoute, Inside, Notes, Heads, AtSigning
  <2>3. Route(q, s) = Outcome(q.ending, Noted(s, what))
    BY DEF Route
  <2> HIDE DEF what
  <2>1. /\ Noted(s, what) \in Stores /\ Noted(s, what).trace = <<what>>
        /\ Noted(s, what).admitted = s.admitted /\ Noted(s, what).records = s.records
        /\ Noted(s, what).marked = s.marked
    BY <1>1, <1>2, <2>2, NotedFacts
  <2>4. Route(q, s) \in Outcomes /\ Route(q, s).response = q.ending
        /\ Route(q, s).stores = Noted(s, what)
    BY <2>1, <2>3, RequestFacts, OutcomeFacts
  <2> QED
    BY <2>1, <2>2, <2>4 DEF InnerOutcome
<1>4. ASSUME NEW layer \in Inside, NEW number \in Nat \ {0}, NEW shape \in {"envelope", "other"}
      PROVE  InnerOutcome(Outcome(Response(number, shape), Noted(s, layer)), s, AtRoute)
  <2>1. layer \in AtRoute /\ layer # "raised" /\ layer \in Notes
    BY DEF AtRoute, Inside, Notes, Heads, AtSigning
  <2> QED
    BY <1>1, <1>2, <2>1, AnswerFacts DEF InnerOutcome
<1>5. InnerOutcome(Redirected(q, s), s, AtRoute)
  <2>1. "https_redirect" \in Inside /\ 307 \in Nat \ {0} /\ "other" \in {"envelope", "other"}
    BY DEF Inside
  <2> QED
    BY <1>3, <1>4, <2>1 DEF Redirected, HTTPSRedirect
<1>6. \A number \in Nat \ {0} : InnerOutcome(Answers("security_hardening", number, s), s, AtRoute)
  <2>1. "security_hardening" \in Inside /\ "envelope" \in {"envelope", "other"}
    BY DEF Inside
  <2> QED
    BY <1>4, <2>1 DEF Answers
<1> QED
  BY <1>5, <1>6 DEF Hardened, SecurityHardening

LEMMA AtMeasured ==
  ASSUME NEW q \in Request, NEW s \in Arriving
  PROVE  Passes(Measured(q, s), q, s, AtRoute) /\ Measured(q, s).stores.marked = s.marked
<1> DEFINE hard == Hardened(q, s)
           aud == Audited(q, s)
           mea == Measured(q, s)
<1>1. InnerOutcome(hard, s, AtRoute)
  BY AtHardened
<1> HIDE DEF hard
<1>2. PICK h \in AtRoute : hard.stores.trace = <<h>> /\ (h = "raised" <=> hard.response = Raised)
  BY <1>1 DEF InnerOutcome
<1>3. q.write \in BOOLEAN /\ (h # "raised" <=> h \in Inside)
  BY RequestFacts DEF AtRoute, Inside
<1>4. /\ aud \in Outcomes /\ aud.response = hard.response
      /\ aud.stores.admitted = hard.stores.admitted /\ aud.stores.records = hard.stores.records
      /\ aud.stores.marked = hard.stores.marked /\ aud.stores.trace = AuditedTrace(h, q.write)
  <2>1. aud = IF SwitchedOn("audit") THEN NotedIf(Returned(hard) /\ q.write, hard, "audited") ELSE hard
    BY DEF Audited, Audit, hard
  <2>2. CASE SwitchedOn("audit")
    <3> DEFINE cond == Returned(hard) /\ q.write
    <3>1. cond <=> h \in Inside /\ q.write
      BY <1>2, <1>3 DEF Returned
    <3>2. hard \in Outcomes /\ "audited" \in Notes
      BY <1>1 DEF InnerOutcome, Notes
    <3>3. aud = NotedIf(cond, hard, "audited")
      BY <2>1, <2>2
    <3> HIDE DEF cond, aud
    <3>4. /\ aud \in Outcomes /\ aud.response = hard.response
          /\ aud.stores.admitted = hard.stores.admitted /\ aud.stores.records = hard.stores.records
          /\ aud.stores.marked = hard.stores.marked
          /\ cond => aud.stores.trace = Append(hard.stores.trace, "audited")
          /\ ~cond => aud.stores.trace = hard.stores.trace
      BY <3>2, <3>3, NotedIfFacts
    <3>5. aud.stores.trace = AuditedTrace(h, q.write)
      BY Zenon, <1>2, <2>2, <3>1, <3>4, AppendToOne DEF AuditedTrace
    <3> QED
      BY <3>4, <3>5
  <2>3. CASE ~SwitchedOn("audit")
    BY <1>1, <1>2, <2>1, <2>3 DEF InnerOutcome, AuditedTrace
  <2> QED
    BY <2>2, <2>3
<1> HIDE DEF aud
<1>5. /\ mea \in Outcomes /\ mea.response = aud.response
      /\ mea.stores.admitted = aud.stores.admitted /\ mea.stores.records = aud.stores.records
      /\ mea.stores.marked = aud.stores.marked /\ mea.stores.trace = MeasuredTrace(h, q.write)
  <2>1. mea = IF SwitchedOn("observability") THEN NotedIf(Returned(aud), aud, "measured") ELSE aud
    BY DEF Measured, Observability, aud
  <2>2. CASE SwitchedOn("observability")
    <3> DEFINE cond == Returned(aud)
    <3>1. cond <=> h \in Inside
      BY <1>2, <1>3, <1>4 DEF Returned
    <3>2. mea = NotedIf(cond, aud, "measured") /\ "measured" \in Notes
      BY <2>1, <2>2 DEF Notes
    <3> HIDE DEF cond, mea
    <3>3. /\ mea \in Outcomes /\ mea.response = aud.response
          /\ mea.stores.admitted = aud.stores.admitted /\ mea.stores.records = aud.stores.records
          /\ mea.stores.marked = aud.stores.marked
          /\ cond => mea.stores.trace = Append(aud.stores.trace, "measured")
          /\ ~cond => mea.stores.trace = aud.stores.trace
      BY <1>4, <3>2, NotedIfFacts
    <3>4. mea.stores.trace = MeasuredTrace(h, q.write)
      BY Zenon, <1>4, <2>2, <3>1, <3>3 DEF MeasuredTrace
    <3> QED
      BY <3>3, <3>4
  <2>3. CASE ~SwitchedOn("observability")
    BY <1>4, <2>1, <2>3 DEF MeasuredTrace
  <2> QED
    BY <2>2, <2>3
<1> HIDE DEF mea
<1>6. Passes(mea, q, s, AtRoute) /\ mea.stores.marked = s.marked
  BY <1>1, <1>2, <1>4, <1>5 DEF Passes, InnerOutcome
<1> QED
  BY <1>6 DEF mea

(* A refusal by a layer outside of audit leaves no trace but its own.      *)
LEMMA Refusal ==
  ASSUME NEW s \in Arriving, NEW layer \in Heads \ AtRoute, NEW number \in Nat \ {0}, NEW write
  PROVE  LET out == Answers(layer, number, s)
         IN /\ out \in Outcomes /\ out.response # Raised
            /\ out.stores.admitted = s.admitted /\ out.stores.records = s.records
            /\ out.stores.marked = s.marked /\ out.stores.trace = <<layer>>
            /\ out.stores.trace = MeasuredTrace(layer, write)
<1>1. s \in Stores /\ s.trace = <<>> /\ layer \in Notes /\ layer \notin Inside
  BY DEF Arriving, Notes, AtRoute
<1>2. Append(s.trace, layer) = <<layer>>
  BY <1>1
<1>3. MeasuredTrace(layer, write) = <<layer>>
  BY <1>1 DEF MeasuredTrace, AuditedTrace
<1>4. "envelope" \in {"envelope", "other"}
  OBVIOUS
<1> QED
  BY <1>1, <1>2, <1>3, <1>4, AnswerFacts DEF Answers

LEMMA AtSigned ==
  ASSUME NEW q \in Request, NEW s \in Arriving
  PROVE  Passes(Signed(q, s), q, s, AtSigning)
<1>1. q.stamp \in Stamps /\ s \in Stores /\ s.trace = <<>>
  BY RequestFacts DEF Arriving
<1> DEFINE with == Marked(q, s)
<1>2. /\ with \in Arriving /\ with.admitted = s.admitted /\ with.records = s.records
  BY <1>1 DEF Arriving, Stores, Marked
<1> HIDE DEF with
<1>3. AtRoute \subseteq AtSigning
  BY DEF AtSigning
<1>4. ASSUME NEW t \in Arriving, t.admitted = s.admitted, t.records = s.records
      PROVE  /\ Passes(Measured(q, t), q, s, AtSigning)
             /\ Passes(Answers("request_signing", 401, t), q, s, AtSigning)
  <2>1. Passes(Measured(q, t), q, t, AtRoute)
    BY AtMeasured
  <2>2. Passes(Measured(q, t), q, s, AtSigning)
    BY <1>3, <1>4, <2>1 DEF Passes
  <2>3. "request_signing" \in Heads \ AtRoute /\ "request_signing" \in AtSigning
        /\ "request_signing" # "raised" /\ 401 \in Nat \ {0}
    BY DEF Heads, AtSigning, AtRoute, Inside
  <2>4. Passes(Answers("request_signing", 401, t), q, s, AtSigning)
    BY <1>4, <2>3, Refusal DEF Passes
  <2> QED
    BY <2>2, <2>4
<1>5. /\ Passes(Measured(q, s), q, s, AtSigning) /\ Passes(Measured(q, with), q, s, AtSigning)
      /\ Passes(Answers("request_signing", 401, s), q, s, AtSigning)
      /\ Passes(Answers("request_signing", 401, with), q, s, AtSigning)
  BY <1>2, <1>4
<1>6. \/ Signed(q, s) = Measured(q, s) \/ Signed(q, s) = Measured(q, with)
      \/ Signed(q, s) = Answers("request_signing", 401, s)
      \/ Signed(q, s) = Answers("request_signing", 401, with)
  BY Zenon DEF Signed, RequestSigning, with
<1> QED
  BY Zenon, <1>5, <1>6

LEMMA PassesKeeps ==
  ASSUME NEW out, NEW q \in Request, NEW s \in Arriving, Passes(out, q, s, AtSigning),
         ~Retries(q, s)
  PROVE  Keeps(out, q, s)
BY DEF Passes, Keeps, Heads

LEMMA AtIdempotent ==
  ASSUME NEW q \in Request, NEW s \in Arriving,
         \A k \in Tokens : Recorded(k, s) => s.records[k] \in Records
  PROVE  Keeps(Idempotent(q, s), q, s)
<1> DEFINE out == Signed(q, s)
           found == s.records[q.token]
<1>1. Passes(out, q, s, AtSigning)
  BY AtSigned
<1>2. s \in Stores /\ s.trace = <<>> /\ q.token \in Tokens \cup {NoToken} /\ q.payload \in Payloads
  BY RequestFacts DEF Arriving
<1> HIDE DEF out
<1>3. CASE ~SwitchedOn("idempotency") \/ q.token = NoToken
  <2>1. Idempotent(q, s) = out
    BY <1>3 DEF Idempotent, Idempotency, out
  <2>2. ~Retries(q, s)
    BY <1>3, StackAssumption DEF Retries
  <2> QED
    BY <1>1, <2>1, <2>2, PassesKeeps
<1>4. CASE SwitchedOn("idempotency") /\ q.token \in Tokens /\ found = NoRecord
  <2> DEFINE record == [payload |-> q.payload, response |-> out.response]
  <2>1. ~Retries(q, s) /\ ~Recorded(q.token, s)
    BY <1>4 DEF Retries, Recorded
  <2>2. CASE ~(Returned(out) /\ Storable(out.response))
    <3>1. Idempotent(q, s) = out
      BY <1>4, <2>2, StackAssumption DEF Idempotent, Idempotency, out
    <3> QED
      BY <1>1, <2>1, <3>1, PassesKeeps
  <2>3. CASE Returned(out) /\ Storable(out.response)
    <3> DEFINE new == [out EXCEPT !.stores.records[q.token] = record]
    <3>1. Idempotent(q, s) = new
      BY <1>4, <2>3, StackAssumption DEF Idempotent, Idempotency, out
    <3>2. /\ out \in Outcomes /\ out.stores \in Stores /\ out.stores.records = s.records
          /\ out.response \in Responses /\ out.response # Raised
      BY <1>1, <2>3 DEF Passes, Outcomes, Returned
    <3>3. record \in Records
      BY <1>2, <3>2 DEF Records
    <3> HIDE DEF record
    <3>4. /\ new \in Outcomes /\ new.response = out.response
          /\ new.stores.trace = out.stores.trace /\ new.stores.admitted = out.stores.admitted
          /\ new.stores.records = [s.records EXCEPT ![q.token] = record]
      BY <3>2, <3>3 DEF Outcomes, Stores
    <3> HIDE DEF new
    <3>5. \E h \in Heads : new.stores.trace = MeasuredTrace(h, q.write)
      BY <1>1, <3>4 DEF Passes, Heads
    <3>6. ASSUME NEW k \in Tokens, new.stores.records[k] # s.records[k]
          PROVE  k = q.token /\ new.stores.records[k] = record
      <4>1. s.records \in [Tokens -> Records \cup {NoRecord}]
        BY <1>2 DEF Stores
      <4> QED
        BY <1>4, <3>4, <3>6, <4>1
    <3>7. Keeps(new, q, s)
      BY <2>1, <3>2, <3>4, <3>5, <3>6 DEF Keeps, record
    <3> QED
      BY <3>1, <3>7
  <2> QED
    BY <2>2, <2>3
<1>5. CASE SwitchedOn("idempotency") /\ q.token \in Tokens /\ found # NoRecord
  <2>1. found \in Records /\ found.response \in Responses
    BY <1>5 DEF Recorded, Records
  <2>2. CASE found.payload = q.payload
    <3> DEFINE new == Outcome(found.response, Noted(s, "replay"))
    <3>1. Idempotent(q, s) = new
      BY <1>5, <2>2, StackAssumption DEF Idempotent, Idempotency, out
    <3>2. "replay" \in Notes /\ "replay" \in Heads /\ "replay" \notin Inside
      BY DEF Notes, Heads, Inside
    <3>3. /\ Noted(s, "replay") \in Stores /\ Noted(s, "replay").records = s.records
          /\ Noted(s, "replay").marked = s.marked
          /\ Noted(s, "replay").trace = <<"replay">>
      BY <1>2, <3>2, NotedFacts
    <3>4. /\ new \in Outcomes /\ new.response = found.response /\ new.stores = Noted(s, "replay")
      BY <2>1, <3>3, OutcomeFacts
    <3> HIDE DEF new
    <3>5. <<"replay">> = MeasuredTrace("replay", q.write)
      BY <3>2 DEF MeasuredTrace, AuditedTrace
    <3>6. Keeps(new, q, s)
      BY <3>2, <3>3, <3>4, <3>5 DEF Keeps
    <3> QED
      BY <3>1, <3>6
  <2>3. CASE found.payload # q.payload
    <3>1. Idempotent(q, s) = Answers("idempotency", 409, s)
      BY <1>5, <2>3, StackAssumption DEF Idempotent, Idempotency, out
    <3>2. "idempotency" \in Heads \ AtRoute /\ 409 \in Nat \ {0}
      BY DEF Heads, AtRoute, Inside
    <3>3. ~Retries(q, s)
      BY <2>3 DEF Retries
    <3>4. Keeps(Answers("idempotency", 409, s), q, s)
      BY <3>2, <3>3, Refusal DEF Keeps
    <3> QED
      BY <3>1, <3>4
  <2> QED
    BY <2>2, <2>3
<1> QED
  BY <1>2, <1>3, <1>4, <1>5

LEMMA AtIsolated ==
  ASSUME NEW q \in Request, NEW s \in Arriving,
         \A k \in Tokens : Recorded(k, s) => s.records[k] \in Records
  PROVE  Keeps(Isolated(q, s), q, s)
<1>1. Keeps(Limited(q, s), q, s)
  <2> DEFINE more == Counted(s)
  <2>1. CASE ~SwitchedOn("rate_limit")
    BY <2>1, AtIdempotent DEF Limited
  <2>2. CASE SwitchedOn("rate_limit") /\ s.admitted = MaxPerWindow
    <3>1. Limited(q, s) = Answers("rate_limit", 429, s)
      BY <2>2 DEF Limited, RateLimit
    <3>2. "rate_limit" \in Heads \ AtRoute /\ 429 \in Nat \ {0}
      BY DEF Heads, AtRoute, Inside, AtSigning
    <3>3. Keeps(Answers("rate_limit", 429, s), q, s)
      BY <3>2, Refusal DEF Keeps
    <3> QED
      BY <3>1, <3>3
  <2>3. CASE SwitchedOn("rate_limit") /\ s.admitted # MaxPerWindow
    <3>1. Limited(q, s) = Idempotent(q, more)
      BY <2>3 DEF Limited, RateLimit
    <3>2. /\ more \in Arriving /\ more.records = s.records /\ more.marked = s.marked
      BY <2>3, StackAssumption DEF Arriving, Stores, Counted
    <3> HIDE DEF more
    <3>3. Keeps(Idempotent(q, more), q, more)
      BY <3>2, AtIdempotent DEF Recorded
    <3>4. Keeps(Idempotent(q, more), q, s)
      BY <3>2, <3>3 DEF Keeps, Retries, Recorded
    <3> QED
      BY <3>1, <3>4
  <2> QED
    BY <2>1, <2>2, <2>3
<1>2. Keeps(Answers("tenant", 403, s), q, s)
  <2>1. "tenant" \in Heads \ AtRoute /\ 403 \in Nat \ {0}
    BY DEF Heads, AtRoute, Inside, AtSigning
  <2> QED
    BY <2>1, Refusal DEF Keeps
<1> QED
  BY Zenon, <1>1, <1>2 DEF Isolated, Tenant

------------------------------------------------------------------------------
(* How often something is in a trace.                                      *)
Places(t, what) == {i \in DOMAIN t : t[i] = what}

LEMMA PlacesAppended ==
  ASSUME NEW t \in Seq(Notes), NEW x \in Notes, NEW what
  PROVE  Places(Append(t, x), what) = IF x = what THEN Places(t, what) \cup {Len(t) + 1}
                                      ELSE Places(t, what)
<1> DEFINE u == Append(t, x)
<1>1. /\ Len(t) \in Nat /\ DOMAIN t = 1..Len(t) /\ DOMAIN u = 1..(Len(t) + 1)
      /\ u[Len(t) + 1] = x /\ \A i \in 1..Len(t) : u[i] = t[i]
  OBVIOUS
<1> HIDE DEF u
<1>2. Places(u, what) = IF x = what THEN Places(t, what) \cup {Len(t) + 1} ELSE Places(t, what)
  <2>1. 1..(Len(t) + 1) = (1..Len(t)) \cup {Len(t) + 1}
    BY <1>1
  <2> QED
    BY Zenon, <1>1, <2>1 DEF Places
<1> QED
  BY <1>2 DEF u

LEMMA WholeTraceFacts ==
  ASSUME NEW h \in Heads, NEW write \in BOOLEAN, NEW enveloped \in BOOLEAN
  PROVE  LET t == WholeTrace(h, write, enveloped)
         IN /\ t # <<>> /\ Head(t) = h
            /\ SwitchedOn("audit") =>
                 Cardinality(Places(t, "audited")) = IF h \in Inside /\ write THEN 1 ELSE 0
            /\ SwitchedOn("observability") =>
                 Cardinality(Places(t, "measured")) = IF h \in Inside THEN 1 ELSE 0
<1> DEFINE one == <<h>>
           a == AuditedTrace(h, write)
           b == MeasuredTrace(h, write)
           t == WholeTrace(h, write, enveloped)
<1>1. "audited" \in Notes /\ "measured" \in Notes /\ "api_contract" \in Notes
      /\ h \in Notes /\ h # "audited" /\ h # "measured"
  BY DEF Notes, Heads, AtSigning, AtRoute, Inside
<1>2. one \in Seq(Notes) /\ one # <<>> /\ Head(one) = h
  BY <1>1
<1>3. ASSUME NEW u \in Seq(Notes), u # <<>>, NEW x \in Notes
      PROVE  Append(u, x) \in Seq(Notes) /\ Append(u, x) # <<>> /\ Head(Append(u, x)) = Head(u)
  BY <1>3
<1>4. Places(one, "audited") = {} /\ Places(one, "measured") = {}
  BY <1>1 DEF Places
<1>5. a = IF SwitchedOn("audit") /\ h \in Inside /\ write THEN Append(one, "audited") ELSE one
  BY AppendToOne DEF AuditedTrace
<1>6. b = IF SwitchedOn("observability") /\ h \in Inside THEN Append(a, "measured") ELSE a
  BY DEF MeasuredTrace
<1>7. t = IF enveloped THEN Append(b, "api_contract") ELSE b
  BY DEF WholeTrace
<1> HIDE DEF one, a, b, t
<1>8. a \in Seq(Notes) /\ a # <<>> /\ Head(a) = h
  BY <1>1, <1>2, <1>3, <1>5
<1>9. b \in Seq(Notes) /\ b # <<>> /\ Head(b) = h
  BY <1>1, <1>3, <1>6, <1>8
<1>10. t # <<>> /\ Head(t) = h
  BY <1>1, <1>3, <1>7, <1>9
<1>11. \A n : Cardinality({n}) = 1 /\ Cardinality({}) = 0
  BY FS_Singleton, FS_EmptySet
<1>12. Places(a, "measured") = {}
       /\ (SwitchedOn("audit") => Places(a, "audited") = IF h \in Inside /\ write THEN {Len(one) + 1} ELSE {})
  <2>1. Places(Append(one, "audited"), "audited") = {Len(one) + 1}
        /\ Places(Append(one, "audited"), "measured") = {}
    BY <1>1, <1>2, <1>4, PlacesAppended
  <2> QED
    BY Zenon, <1>4, <1>5, <2>1
<1>13. /\ Places(b, "audited") = Places(a, "audited")
       /\ SwitchedOn("observability") =>
            Places(b, "measured") = IF h \in Inside THEN {Len(a) + 1} ELSE {}
  <2>1. Places(Append(a, "measured"), "audited") = Places(a, "audited")
        /\ Places(Append(a, "measured"), "measured") = {Len(a) + 1}
    BY <1>1, <1>8, <1>12, PlacesAppended
  <2> QED
    BY Zenon, <1>6, <1>12, <2>1
<1>14. Places(t, "audited") = Places(b, "audited") /\ Places(t, "measured") = Places(b, "measured")
  <2>1. Places(Append(b, "api_contract"), "audited") = Places(b, "audited")
        /\ Places(Append(b, "api_contract"), "measured") = Places(b, "measured")
    BY <1>1, <1>9, PlacesAppended
  <2> QED
    BY Zenon, <1>7, <2>1
<1>15. SwitchedOn("audit") =>
         Cardinality(Places(t, "audited")) = IF h \in Inside /\ write THEN 1 ELSE 0
  BY Zenon, <1>11, <1>12, <1>13, <1>14
<1>16. SwitchedOn("observability") =>
         Cardinality(Places(t, "measured")) = IF h \in Inside THEN 1 ELSE 0
  BY Zenon, <1>11, <1>13, <1>14
<1> QED
  BY <1>10, <1>15, <1>16 DEF t

------------------------------------------------------------------------------
(* What a client sees of a response: a bare object is enveloped as a 500.  *)
Seen(r) ==
  IF SwitchedOn("api_contract") /\ r.shape = "bare" THEN Response(500, "envelope") ELSE r

(* A record holds the response of which its client saw the answer in first.*)
StackInv ==
  /\ layers \subseteq Layers /\ admitted \in 0..MaxPerWindow /\ marked \subseteq Stamps
  /\ records \in [Tokens -> Records \cup {NoRecord}]
  /\ \A k \in Tokens : records[k] # NoRecord =>
       /\ records[k] \in Records /\ records[k].response # Raised
       /\ first[k] = Seen(records[k].response)
  /\ exchange.trace # <<>> =>
       \E h \in Heads, write, enveloped \in BOOLEAN :
         exchange.write = write /\ exchange.trace = WholeTrace(h, write, enveloped)

Found == [admitted |-> admitted, records |-> records, marked |-> marked, trace |-> <<>>]

LEMMA FoundArrives ==
  ASSUME StackInv
  PROVE  Found \in Arriving /\ \A k \in Tokens : Recorded(k, Found) => Found.records[k] \in Records
<1>1. <<>> \in Seq(Notes)
  OBVIOUS
<1> QED
  BY <1>1 DEF StackInv, Found, Arriving, Stores, Recorded

LEMMA AtContracted ==
  ASSUME NEW q \in Request, NEW s \in Arriving,
         \A k \in Tokens : Recorded(k, s) => s.records[k] \in Records
  PROVE  LET out == Contracted(q, s)
             in == Isolated(q, s)
         IN /\ out \in Outcomes /\ in \in Outcomes /\ out.response = Seen(in.response)
            /\ out.stores.admitted = in.stores.admitted
            /\ out.stores.records = in.stores.records /\ out.stores.marked = in.stores.marked
            /\ \/ out.stores.trace = in.stores.trace
               \/ out.stores.trace = Append(in.stores.trace, "api_contract")
<1> DEFINE in == Isolated(q, s)
<1>1. in \in Outcomes /\ in.stores \in Stores
  BY AtIsolated DEF Keeps, Outcomes
<1>2. CASE SwitchedOn("api_contract") /\ in.response.shape = "bare"
  <2>1. Contracted(q, s) = Answers("api_contract", 500, in.stores)
    BY <1>2 DEF Contracted, ApiContract
  <2>2. "api_contract" \in Notes /\ "envelope" \in {"envelope", "other"} /\ 500 \in Nat \ {0}
        /\ 500 \in Nat
    BY DEF Notes
  <2> HIDE DEF in
  <2>3. Response(500, "envelope") \in Responses
    BY <2>2, ResponseFacts
  <2>4. Noted(in.stores, "api_contract") \in Stores
    BY <1>1, <2>2, NotedFacts
  <2>5. Answers("api_contract", 500, in.stores).response = Response(500, "envelope")
    BY <2>3, <2>4, OutcomeFacts DEF Answers
  <2>6. LET out == Answers("api_contract", 500, in.stores)
        IN /\ out \in Outcomes /\ out.response # Raised
           /\ out.stores.admitted = in.stores.admitted /\ out.stores.records = in.stores.records
           /\ out.stores.marked = in.stores.marked
           /\ out.stores.trace = Append(in.stores.trace, "api_contract")
    BY <1>1, <2>2, AnswerFacts DEF Answers
  <2>7. Seen(in.response) = Response(500, "envelope")
    BY <1>2 DEF Seen
  <2>8. in \in Outcomes
    BY <1>1
  <2> QED
    BY <2>1, <2>5, <2>6, <2>7, <2>8 DEF in
<1>3. CASE ~(SwitchedOn("api_contract") /\ in.response.shape = "bare")
  <2>1. Contracted(q, s) = in
    BY <1>3 DEF Contracted, ApiContract
  <2>2. Seen(in.response) = in.response
    BY <1>3 DEF Seen
  <2> QED
    BY Zenon, <1>1, <2>1, <2>2
<1> QED
  BY <1>2, <1>3

(* One request: what it leaves, and what a retry is answered.              *)
RetryStep ==
  exchange'.retry /\ "idempotency" \in layers =>
    LET trace == exchange'.trace
    IN \/ Head(trace) \in Outer
       \/ /\ exchange'.answer = first[exchange'.token]
          /\ Head(trace) = "replay" /\ Range(trace) \subseteq {"replay", "api_contract"}
          /\ marked' = marked

LEMMA ServesKeeps ==
  ASSUME StackInv, NEW q \in Request, Serves(q)
  PROVE  StackInv' /\ RetryStep
<1> DEFINE s == Found
           out == Contracted(q, s)
           in == Isolated(q, s)
           answer == HandleException(out)
<1>1. /\ admitted' = out.stores.admitted /\ records' = out.stores.records
      /\ marked' = out.stores.marked /\ layers' = layers
      /\ first' = [k \in Tokens |-> IF records[k] # records'[k] THEN answer ELSE first[k]]
      /\ exchange' = [token |-> q.token, retry |-> Repeats(q), write |-> q.write,
                      answer |-> answer, trace |-> out.stores.trace]
  BY DEF Serves, Found
<1>2. s \in Arriving /\ \A k \in Tokens : Recorded(k, s) => s.records[k] \in Records
  BY FoundArrives
<1>3. s.records = records /\ s.marked = marked
  BY DEF Found
<1>4. Keeps(in, q, s)
  BY <1>2, AtIsolated
<1>5. /\ out \in Outcomes /\ in \in Outcomes /\ out.response = Seen(in.response)
      /\ out.stores.records = in.stores.records /\ out.stores.marked = in.stores.marked
      /\ \/ out.stores.trace = in.stores.trace
         \/ out.stores.trace = Append(in.stores.trace, "api_contract")
  BY <1>2, AtContracted
<1> HIDE DEF s, out, in
<1>6. q.write \in BOOLEAN
  BY RequestFacts
<1>7. /\ admitted' \in 0..MaxPerWindow /\ marked' \subseteq Stamps
      /\ records' \in [Tokens -> Records \cup {NoRecord}] /\ layers' \subseteq Layers
  BY <1>1, <1>5 DEF Outcomes, Stores, StackInv
<1>8. \A r : Seen(r)' = Seen(r)
  BY <1>1 DEF Seen, SwitchedOn
<1>9. in.response # Raised => answer = Seen(in.response)
  <2>1. Response(500, "envelope") # Raised
    <3>1. Response(500, "envelope").status = 500
      BY DEF Response
    <3> QED
      BY <3>1, RaisedFacts
  <2> QED
    BY <1>5, <2>1 DEF HandleException, Returned, Seen
<1>10. ASSUME NEW k \in Tokens, records'[k] # NoRecord
       PROVE  /\ records'[k] \in Records /\ records'[k].response # Raised
              /\ first'[k] = Seen(records'[k].response)
  <2>1. CASE records'[k] = records[k]
    <3>1. first'[k] = first[k]
      BY <1>1, <2>1
    <3> QED
      BY <1>10, <2>1, <3>1 DEF StackInv
  <2>2. CASE records'[k] # records[k]
    <3>1. /\ in.response # Raised
          /\ records'[k] = [payload |-> q.payload, response |-> in.response]
      BY <1>1, <1>3, <1>4, <1>5, <2>2 DEF Keeps
    <3>2. first'[k] = answer
      BY <1>1, <2>2
    <3> HIDE DEF answer
    <3> QED
      BY <1>7, <1>9, <1>10, <3>1, <3>2
  <2> QED
    BY <2>1, <2>2
<1>11. \E h \in Heads, e \in BOOLEAN : out.stores.trace = WholeTrace(h, q.write, e)
  <2>1. PICK h \in Heads : in.stores.trace = MeasuredTrace(h, q.write)
    BY <1>4 DEF Keeps
  <2>2. CASE out.stores.trace = in.stores.trace
    <3>1. out.stores.trace = WholeTrace(h, q.write, FALSE)
      BY <2>1, <2>2 DEF WholeTrace
    <3> QED
      BY <3>1
  <2>3. CASE out.stores.trace = Append(in.stores.trace, "api_contract")
    <3>1. out.stores.trace = WholeTrace(h, q.write, TRUE)
      BY <2>1, <2>3 DEF WholeTrace
    <3> QED
      BY <3>1
  <2> QED
    BY <1>5, <2>2, <2>3
<1>12. \E h \in Heads, write, enveloped \in BOOLEAN :
         exchange'.write = write /\ exchange'.trace = WholeTrace(h, write, enveloped)'
  <2>1. \A h, write, e : WholeTrace(h, write, e)' = WholeTrace(h, write, e)
    BY <1>1 DEF WholeTrace, MeasuredTrace, AuditedTrace, SwitchedOn
  <2>2. exchange'.write = q.write /\ exchange'.trace = out.stores.trace
    BY <1>1
  <2> QED
    BY <1>6, <1>11, <2>1, <2>2
<1>13. StackInv'
  BY <1>1, <1>6, <1>7, <1>8, <1>10, <1>12 DEF StackInv
<1>14. RetryStep
  <2> SUFFICES ASSUME exchange'.retry, "idempotency" \in layers PROVE RetryStep
    BY DEF RetryStep
  <2>1. exchange'.trace = out.stores.trace /\ exchange'.answer = answer
        /\ exchange'.token = q.token /\ Repeats(q)
    BY <1>1
  <2>2. Retries(q, s) /\ q.token \in Tokens /\ records[q.token] # NoRecord
    BY <1>3, <2>1 DEF Repeats, Retries, Recorded, SwitchedOn
  <2>3. \A u : Head(<<u>>) = u /\ Head(Append(<<u>>, "api_contract")) = u
        /\ Range(<<u>>) = {u} /\ Range(Append(<<u>>, "api_contract")) = {u, "api_contract"}
    <3> SUFFICES ASSUME NEW u
                 PROVE  /\ Head(<<u>>) = u /\ Head(Append(<<u>>, "api_contract")) = u
                        /\ Range(<<u>>) = {u}
                        /\ Range(Append(<<u>>, "api_contract")) = {u, "api_contract"}
      OBVIOUS
    <3>1. Append(<<u>>, "api_contract") = <<u, "api_contract">>
      BY AppendToOne
    <3>2. Head(<<u>>) = u /\ Head(<<u, "api_contract">>) = u
      OBVIOUS
    <3>3. DOMAIN <<u, "api_contract">> = {1, 2} /\ DOMAIN <<u>> = {1}
      OBVIOUS
    <3>4. Range(<<u>>) = {u} /\ Range(<<u, "api_contract">>) = {u, "api_contract"}
      BY <3>3 DEF Range
    <3> QED
      BY Zenon, <3>1, <3>2, <3>4
  <2>4. CASE in.stores.trace = <<"rate_limit">> \/ in.stores.trace = <<"tenant">>
    <3>1. Head(out.stores.trace) \in Outer
      BY <1>5, <2>3, <2>4 DEF Outer
    <3> QED
      BY <2>1, <3>1 DEF RetryStep
  <2>5. CASE /\ in.stores.trace = <<"replay">> /\ in.stores.marked = s.marked
             /\ in.response = s.records[q.token].response
    <3>1. Head(out.stores.trace) = "replay" /\ Range(out.stores.trace) \subseteq {"replay", "api_contract"}
      BY <1>5, <2>3, <2>5
    <3>2. in.response # Raised /\ first[q.token] = Seen(in.response)
      BY <1>3, <2>2, <2>5 DEF StackInv
    <3>3. answer = first[q.token] /\ marked' = marked
      BY <1>1, <1>3, <1>5, <1>9, <2>5, <3>2
    <3> QED
      BY <2>1, <3>1, <3>3 DEF RetryStep
  <2> QED
    BY <1>4, <2>2, <2>4, <2>5 DEF Keeps
<1> QED
  BY <1>13, <1>14

LEMMA StackStep == StackInv /\ [StackNext]_stackVars => StackInv' /\ [RetryStep]_stackVars
<1>1. ASSUME StackInv, StackNext PROVE StackInv' /\ RetryStep
  BY <1>1, ServesKeeps DEF StackNext
<1>2. ASSUME StackInv, UNCHANGED stackVars PROVE StackInv'
  BY <1>2 DEF stackVars, StackInv, Seen, SwitchedOn, WholeTrace, MeasuredTrace, AuditedTrace
<1> QED
  BY Zenon, <1>1, <1>2

LEMMA StackBegins == StackInit => StackInv
<1> SUFFICES ASSUME StackInit PROVE StackInv
  OBVIOUS
<1>1. layers \subseteq Layers
  BY DEF StackInit, Layers
<1>2. exchange.trace = <<>>
  BY DEF StackInit
<1> QED
  BY <1>1, <1>2, StackAssumption DEF StackInit, StackInv

LEMMA StackInvariance == StackSpec => []StackInv
BY StackBegins, StackStep, PTL DEF StackSpec

(* A retry of a request whose answer was stored gets what its client got   *)
(* the first time and nothing happens again, unless a layer outside of     *)
(* idempotency refuses it: with any of the layers of build_forge_app       *)
(* switched off, for any keys, bodies, nonces and limit.                   *)
THEOREM RetriesAreReplays == StackSpec => RetryIsReplay
<1>1. StackSpec => [][RetryStep]_stackVars
  BY StackBegins, StackStep, PTL DEF StackSpec
<1> QED
  BY <1>1 DEF RetryIsReplay, RetryStep

(* Audited once, and measured, is exactly what a route or a layer inside   *)
(* of the audit answered (_audit_middleware, _observability_middleware).   *)
THEOREM AuditIsExact == StackSpec => []AuditExact
<1>1. ASSUME StackInv PROVE AuditExact
  <2> SUFFICES ASSUME exchange.trace # <<>>
               PROVE  LET answered == Head(exchange.trace) \in Inside
                      IN /\ "audit" \in layers =>
                              Times("audited") = IF answered /\ exchange.write THEN 1 ELSE 0
                         /\ "observability" \in layers => Times("measured") = IF answered THEN 1 ELSE 0
    BY DEF AuditExact
  <2>1. PICK h \in Heads, write \in BOOLEAN, enveloped \in BOOLEAN :
          exchange.write = write /\ exchange.trace = WholeTrace(h, write, enveloped)
    BY <1>1 DEF StackInv
  <2> DEFINE t == WholeTrace(h, write, enveloped)
  <2>2. /\ Head(t) = h
        /\ SwitchedOn("audit") =>
             Cardinality(Places(t, "audited")) = IF h \in Inside /\ write THEN 1 ELSE 0
        /\ SwitchedOn("observability") =>
             Cardinality(Places(t, "measured")) = IF h \in Inside THEN 1 ELSE 0
    BY WholeTraceFacts
  <2>3. exchange.trace = t
    BY <2>1
  <2> HIDE DEF t
  <2>4. \A what : Times(what) = Cardinality(Places(t, what))
    BY <2>3 DEF Times, Places
  <2> QED
    BY Zenon, <2>1, <2>2, <2>3, <2>4 DEF SwitchedOn
<1> QED
  BY <1>1, StackInvariance, PTL

LEMMA StackTypes == StackSpec => []StackTypeOK
<1>1. StackInv => StackTypeOK
  BY DEF StackInv, StackTypeOK, Records
<1> QED
  BY <1>1, StackInvariance, PTL

------------------------------------------------------------------------------
(* Lifespan.                                                               *)

(* What each place of the task says of its client and of how it will end,  *)
(* and each stage of the shutdown of the task.                             *)
TaskKnows ==
  /\ subscriber.at \in {"start"} \cup InFinally \cup {"ended"} \/ "subscriber" \in unclosed
  /\ subscriber.at = "start" => "subscriber" \notin unclosed
  /\ subscriber.at \in {"unsubscribing", "closing_pubsub"} => "subscriber" \in unclosed
  /\ subscriber.at = "closing_client" => "subscriber" \notin unclosed
  /\ subscriber.at \in InFinally => subscriber.how # "none"
  /\ subscriber.at = "ended" => subscriber.how # "none" /\ subscriber.last # "none"

ShutdownKnows ==
  /\ lifespan = "serving" \/ subscriber.at = "ended" => ~subscriber.cancelling
  /\ lifespan \in {"serving", "awaiting"} => "publisher" \in unclosed

LifespanInv == LifespanTypeOK /\ TaskKnows /\ ShutdownKnows /\ LifespanReleases

LEMMA LifespanStep == LifespanInv /\ [LifespanNext]_lifespanVars => LifespanInv'
<1> SUFFICES ASSUME LifespanInv, [LifespanNext]_lifespanVars PROVE LifespanInv'
  OBVIOUS
<1> USE DEF LifespanInv, LifespanTypeOK, TaskKnows, ShutdownKnows, LifespanReleases, Awaitable, InTry,
            InFinally, Resumes, GoesTo, TaskEnds
<1>1. CASE EndsAtStart
  BY <1>1 DEF EndsAtStart
<1>2. CASE StartsToSubscribe
  BY <1>2 DEF StartsToSubscribe
<1>3. CASE ChannelSubscribed
  BY <1>3 DEF ChannelSubscribed
<1>4. CASE GetsMessage
  BY <1>4 DEF GetsMessage
<1>5. CASE DeliveryOver
  BY <1>5 DEF DeliveryOver
<1>6. CASE RedisRaises
  <2>1. CASE subscriber.at = "subscribing"
    <3>1. TaskEnds("raised")
      BY <1>6, <2>1 DEF RedisRaises, Leaves
    <3> QED
      BY <1>6, <2>1, <3>1 DEF RedisRaises
  <2>2. CASE subscriber.at = "polling"
    BY <1>6, <2>2 DEF RedisRaises, Leaves
  <2> QED
    BY <1>6, <2>1, <2>2 DEF RedisRaises
<1>7. CASE ChannelUnsubscribed
  BY <1>7 DEF ChannelUnsubscribed
<1>8. CASE PubsubClosed
  BY <1>8 DEF PubsubClosed
<1>9. CASE ClientClosed
  BY <1>9 DEF ClientClosed
<1>10. CASE IsCancelled
  <2>1. CASE subscriber.at \in InTry
    <3>1. subscriber' = [subscriber EXCEPT !.at = "unsubscribing", !.how = "cancelled",
                                           !.cancelling = FALSE]
      BY <1>10, <2>1 DEF IsCancelled, Leaves
    <3> QED
      BY <1>10, <2>1, <3>1 DEF IsCancelled
  <2>2. CASE subscriber.at \notin InTry
    <3>1. TaskEnds("cancelled") /\ lifespan # "serving" /\ subscriber.at # "ended"
      BY <1>10, <2>2 DEF IsCancelled, Leaves
    <3> QED
      BY <1>10, <2>2, <3>1 DEF IsCancelled
  <2> QED
    BY <2>1, <2>2
<1>11. CASE ShutsDown
  BY <1>11 DEF ShutsDown
<1>12. CASE TaskAwaited
  BY <1>12 DEF TaskAwaited
<1>13. CASE HubClosed
  BY <1>13 DEF HubClosed
<1>14. CASE UNCHANGED lifespanVars
  BY <1>14 DEF lifespanVars
<1> QED
  BY <1>1, <1>2, <1>3, <1>4, <1>5, <1>6, <1>7, <1>8, <1>9, <1>10, <1>11, <1>12, <1>13, <1>14
  DEF LifespanNext

LEMMA LifespanInvariance == LifespanSpec => []LifespanInv
<1>1. LifespanInit => LifespanInv
  BY DEF LifespanInit, LifespanInv, LifespanTypeOK, TaskKnows, ShutdownKnows, LifespanReleases,
         Awaitable, InTry, InFinally
<1> QED
  BY <1>1, LifespanStep, PTL DEF LifespanSpec

(* Wherever Redis raises and wherever the cancellation meets the task, the *)
(* hub is closed after the task has ended, and what stays open is exactly  *)
(* what LifespanReleases says.                                             *)
THEOREM ShutdownReleases == LifespanSpec => []LifespanReleases
<1> QED
  BY LifespanInvariance, PTL DEF LifespanInv

LEMMA LifespanTypes == LifespanSpec => []LifespanTypeOK
<1> QED
  BY LifespanInvariance, PTL DEF LifespanInv

------------------------------------------------------------------------------
(* Validation.                                                             *)

ValidationCalls ==
  [at : {"new", "running", "passed", "refused", "raised"}, input : Inputs, asked : SUBSET Engines,
   stop : BOOLEAN, stage : Engines, k : Nat \ {0}, errors : SUBSET Nat, warnings : SUBSET Nat,
   upto : [Engines -> Nat], cleared : [Engines -> SUBSET Nat]]

ValidationShape ==
  /\ hooks \in [Engines -> Seq(HookKinds)]
  /\ \A s \in Engines : Len(hooks[s]) <= MaxHooks
  /\ validation \in [Validators -> ValidationCalls]

(* Hooks that were there at the beginning, or found no error, are there.   *)
HooksStay(c) ==
  \A s \in Engines :
    /\ c.upto[s] <= Len(hooks[s])
    /\ \A i \in c.cleared[s] : i \in 1..Len(hooks[s]) /\ Accepts(hooks[s][i], c.input)

(* What a loop knows of the hooks it is past.                              *)
LoopKnows(c) ==
  /\ c.k <= Len(hooks[c.stage]) + 1
  /\ c.errors \subseteq 1..(c.k - 1) /\ c.warnings \subseteq 1..(c.k - 1)
  /\ c.cleared[c.stage] \subseteq 1..(c.k - 1)
  /\ 1..(c.k - 1) \subseteq c.errors \cup c.cleared[c.stage]
  /\ c.stop /\ c.errors # {} => c.errors = {c.k - 1}

(* The stages come one after the other.                                    *)
StagesInTurn(c) ==
  /\ c.at # "new" => c.stage \in c.asked
  /\ c.stage = "business" => c.cleared["security"] = {}
  /\ c.stage = "security" /\ "business" \in c.asked => 1..c.upto["business"] \subseteq c.cleared["business"]

HowItEnds(c) ==
  /\ c.at = "running" => c.k <= Len(hooks[c.stage])
  /\ c.at = "running" => ~(c.stop /\ c.errors # {})
  /\ c.at = "refused" => c.errors # {} /\ (c.stop \/ c.upto[c.stage] < c.k)
  /\ c.at = "passed" => \A s \in c.asked : 1..c.upto[s] \subseteq c.cleared[s]

CallKnows(c) == HooksStay(c) /\ LoopKnows(c) /\ StagesInTurn(c) /\ HowItEnds(c)

ValidationInv == ValidationShape /\ \A v \in Validators : CallKnows(validation[v])

(* Records of calls with a field replaced.                                 *)
LEMMA FieldReplaced ==
  ASSUME NEW c \in ValidationCalls
  PROVE  /\ \A y \in {"new", "running", "passed", "refused", "raised"} : [c EXCEPT !.at = y] \in ValidationCalls
         /\ \A y \in Inputs : [c EXCEPT !.input = y] \in ValidationCalls
         /\ \A y \in SUBSET Engines : [c EXCEPT !.asked = y] \in ValidationCalls
         /\ \A y \in BOOLEAN : [c EXCEPT !.stop = y] \in ValidationCalls
         /\ \A y \in Engines : [c EXCEPT !.stage = y] \in ValidationCalls
         /\ \A y \in Nat \ {0} : [c EXCEPT !.k = y] \in ValidationCalls
         /\ \A y \in SUBSET Nat : [c EXCEPT !.errors = y] \in ValidationCalls
         /\ \A y \in SUBSET Nat : [c EXCEPT !.warnings = y] \in ValidationCalls
         /\ \A y \in [Engines -> Nat] : [c EXCEPT !.upto = y] \in ValidationCalls
         /\ \A y \in [Engines -> SUBSET Nat] : [c EXCEPT !.cleared = y] \in ValidationCalls
BY DEF ValidationCalls

(* A loop that goes on, or ends, and the next one that begins, know it.    *)
LEMMA ContinuedKnows ==
  ASSUME ValidationShape, NEW c \in ValidationCalls, c.at = "running", c.asked # {},
         HooksStay(c), LoopKnows(c), StagesInTurn(c)
  PROVE  Continued(c) \in ValidationCalls /\ CallKnows(Continued(c))
<1> USE DEF Engines
<1>1. /\ \A s \in Engines : Len(hooks[s]) \in Nat
      /\ c.stage \in Engines /\ c.k \in Nat \ {0} /\ c.upto \in [Engines -> Nat]
  BY DEF ValidationShape, ValidationCalls
<1>2. CASE ~Exhausted(c) /\ ~StopsHere(c)
  <2>1. Continued(c) = c
    BY <1>2 DEF Continued
  <2> QED
    BY <1>1, <1>2, <2>1 DEF CallKnows, HowItEnds, Exhausted, StopsHere
<1>3. ASSUME Exhausted(c) \/ StopsHere(c), c.errors # {}
      PROVE  Continued(c) \in ValidationCalls /\ CallKnows(Continued(c))
  <2> DEFINE d == [c EXCEPT !.at = "refused"]
  <2>1. Continued(c) = d
    BY <1>3 DEF Continued
  <2>2. d \in ValidationCalls
    BY DEF ValidationCalls
  <2>3. /\ d.at = "refused" /\ d.input = c.input /\ d.asked = c.asked /\ d.stop = c.stop
        /\ d.stage = c.stage /\ d.k = c.k /\ d.errors = c.errors /\ d.warnings = c.warnings
        /\ d.upto = c.upto /\ d.cleared = c.cleared
    BY DEF ValidationCalls
  <2> HIDE DEF d
  <2>4. HooksStay(d)
    BY <2>3 DEF HooksStay
  <2>5. LoopKnows(d)
    BY <2>3 DEF LoopKnows
  <2>6. StagesInTurn(d)
    BY <2>3 DEF StagesInTurn
  <2>7. HowItEnds(d)
    BY <1>1, <1>3, <2>3 DEF HowItEnds, Exhausted, StopsHere, HooksStay
  <2> QED
    BY <2>1, <2>2, <2>4, <2>5, <2>6, <2>7 DEF CallKnows
<1>4. ASSUME Exhausted(c), c.errors = {}
      PROVE  1..c.upto[c.stage] \subseteq c.cleared[c.stage]
  <2>1. c.upto[c.stage] <= c.k - 1
    BY <1>1, <1>4 DEF Exhausted, HooksStay
  <2>2. 1..(c.k - 1) \subseteq c.cleared[c.stage]
    BY <1>4 DEF LoopKnows
  <2> QED
    BY <1>1, <2>1, <2>2
<1>5. ASSUME Exhausted(c) \/ StopsHere(c), c.errors = {}, c.stage = "business" /\ "security" \in c.asked
      PROVE  Continued(c) \in ValidationCalls /\ CallKnows(Continued(c))
  <2> DEFINE d == [c EXCEPT !.stage = "security", !.k = 1, !.warnings = {}]
  <2> DEFINE e == IF Exhausted(d) THEN [d EXCEPT !.at = "passed"] ELSE d
  <2>1. Exhausted(c) /\ Continued(c) = e
    BY <1>5 DEF Continued, EntersSecurity, StopsHere
  <2>2. /\ e.at = (IF Exhausted(d) THEN "passed" ELSE "running") /\ e.input = c.input /\ e.asked = c.asked
        /\ e.stop = c.stop /\ e.stage = "security" /\ e.k = 1 /\ e.errors = {} /\ e.warnings = {}
        /\ e.upto = c.upto /\ e.cleared = c.cleared
    BY <1>5 DEF ValidationCalls
  <2>3. e \in ValidationCalls
    <3>1. d \in ValidationCalls
      <4>1. [c EXCEPT !.stage = "security"] \in ValidationCalls
        BY FieldReplaced
      <4>2. 1 \in Nat \ {0} /\ {} \in SUBSET Nat
        OBVIOUS
      <4>3. [c EXCEPT !.stage = "security", !.k = 1] \in ValidationCalls
        BY Zenon, <4>1, <4>2, FieldReplaced
      <4> QED
        BY Zenon, <4>2, <4>3, FieldReplaced
    <3> HIDE DEF d
    <3>2. [d EXCEPT !.at = "passed"] \in ValidationCalls
      BY <3>1, FieldReplaced
    <3> QED
      BY <3>1, <3>2
  <2>4. Exhausted(d) <=> 1 > Len(hooks["security"])
    BY DEF Exhausted, ValidationCalls
  <2> HIDE DEF d, e
  <2>5. HooksStay(e)
    BY <2>2 DEF HooksStay
  <2>6. c.cleared["security"] = {}
    BY <1>5 DEF StagesInTurn
  <2>7. LoopKnows(e)
    BY <1>1, <2>2, <2>6 DEF LoopKnows
  <2>8. 1..c.upto["business"] \subseteq c.cleared["business"]
    BY <1>4, <1>5, <2>1
  <2>9. StagesInTurn(e)
    BY <1>5, <2>2, <2>8 DEF StagesInTurn
  <2>10. HowItEnds(e)
    <3>1. CASE Exhausted(d)
      <4>1. c.upto["security"] = 0
        BY <1>1, <2>4, <3>1 DEF HooksStay
      <4>2. \A s \in c.asked : 1..c.upto[s] \subseteq c.cleared[s]
        BY <2>8, <4>1 DEF ValidationCalls
      <4> QED
        BY <2>2, <3>1, <4>2 DEF HowItEnds
    <3>2. CASE ~Exhausted(d)
      BY <1>1, <2>2, <2>4, <3>2 DEF HowItEnds
    <3> QED
      BY <3>1, <3>2
  <2> QED
    BY <2>1, <2>3, <2>5, <2>7, <2>9, <2>10 DEF CallKnows
<1>6. ASSUME Exhausted(c) \/ StopsHere(c), c.errors = {}, ~(c.stage = "business" /\ "security" \in c.asked)
      PROVE  Continued(c) \in ValidationCalls /\ CallKnows(Continued(c))
  <2> DEFINE d == [c EXCEPT !.at = "passed"]
  <2>1. Exhausted(c) /\ Continued(c) = d
    BY <1>6 DEF Continued, StopsHere
  <2>2. d \in ValidationCalls
    BY DEF ValidationCalls
  <2>3. /\ d.at = "passed" /\ d.input = c.input /\ d.asked = c.asked /\ d.stop = c.stop
        /\ d.stage = c.stage /\ d.k = c.k /\ d.errors = c.errors /\ d.warnings = c.warnings
        /\ d.upto = c.upto /\ d.cleared = c.cleared
    BY DEF ValidationCalls
  <2> HIDE DEF d
  <2>4. HooksStay(d) /\ LoopKnows(d)
    BY <2>3 DEF HooksStay, LoopKnows
  <2>5. StagesInTurn(d)
    BY <2>3 DEF StagesInTurn
  <2>6. \A s \in c.asked : 1..c.upto[s] \subseteq c.cleared[s]
    <3>1. 1..c.upto[c.stage] \subseteq c.cleared[c.stage]
      BY <1>4, <1>6, <2>1
    <3>2. CASE c.stage = "business"
      BY <1>6, <3>1, <3>2 DEF ValidationCalls
    <3>3. CASE c.stage = "security"
      BY <3>1, <3>3 DEF ValidationCalls, StagesInTurn
    <3> QED
      BY <1>1, <3>2, <3>3
  <2>7. HowItEnds(d)
    BY <2>3, <2>6 DEF HowItEnds
  <2> QED
    BY <2>1, <2>2, <2>4, <2>5, <2>7 DEF CallKnows
<1> QED
  BY <1>2, <1>3, <1>5, <1>6

LEMMA NewCallKnows ==
  ASSUME ValidationShape
  PROVE  NoValidation \in ValidationCalls /\ CallKnows(NoValidation)
<1>1. NoInput \in Inputs
  BY ValidationAssumption DEF NoInput
<1>2. \A s \in Engines : Len(hooks[s]) \in Nat
  BY DEF ValidationShape
<1>3. NoValidation \in ValidationCalls
  BY <1>1 DEF NoValidation, ValidationCalls, Engines
<1> QED
  BY <1>2, <1>3 DEF NoValidation, CallKnows, HooksStay, LoopKnows, StagesInTurn, HowItEnds, Engines

(* A hook that is registered changes nothing of what a loop knows.         *)
LEMMA RegistrationKeeps ==
  ASSUME ValidationInv, NEW s \in Engines, NEW h \in HookKinds, HookRegistered(s, h)
  PROVE  ValidationInv'
<1>1. /\ hooks \in [Engines -> Seq(HookKinds)] /\ Len(hooks[s]) < MaxHooks
      /\ hooks' = [hooks EXCEPT ![s] = Append(@, h)] /\ validation' = validation
  BY DEF ValidationInv, ValidationShape, HookRegistered
<1>2. \A t \in Engines : hooks[t] \in Seq(HookKinds) /\ Len(hooks[t]) \in Nat
  BY <1>1
<1>3. ASSUME NEW t \in Engines
      PROVE  /\ hooks'[t] \in Seq(HookKinds) /\ Len(hooks[t]) <= Len(hooks'[t])
             /\ Len(hooks[t]) <= MaxHooks => Len(hooks'[t]) <= MaxHooks
             /\ \A i \in 1..Len(hooks[t]) : hooks'[t][i] = hooks[t][i]
  <2>1. CASE t = s
    <3>1. hooks'[t] = Append(hooks[s], h)
      BY <1>1, <2>1
    <3> QED
      BY <1>1, <1>2, <2>1, <3>1, ValidationAssumption
  <2>2. CASE t # s
    BY <1>1, <1>2, <2>2
  <2> QED
    BY <2>1, <2>2
<1>4. ValidationShape'
  BY <1>1, <1>3 DEF ValidationInv, ValidationShape
<1>5. ASSUME NEW v \in Validators
      PROVE  CallKnows(validation[v])'
  <2> DEFINE c == validation[v]
  <2>1. c \in ValidationCalls /\ CallKnows(c) /\ c' = c
    BY <1>1 DEF ValidationInv, ValidationShape
  <2>2. c.stage \in Engines /\ c.k \in Nat /\ c.upto \in [Engines -> Nat]
    BY <2>1 DEF ValidationCalls
  <2> HIDE DEF c
  <2>3. HooksStay(c)'
    <3>1. ASSUME NEW t \in Engines
          PROVE  /\ c.upto[t] <= Len(hooks'[t])
                 /\ \A i \in c.cleared[t] : i \in 1..Len(hooks'[t]) /\ Accepts(hooks'[t][i], c.input)
      <4>1. /\ c.upto[t] <= Len(hooks[t]) /\ c.upto[t] \in Nat
            /\ \A i \in c.cleared[t] : i \in 1..Len(hooks[t]) /\ Accepts(hooks[t][i], c.input)
        BY <2>1, <2>2 DEF CallKnows, HooksStay
      <4>2. Len(hooks'[t]) \in Nat /\ Len(hooks[t]) \in Nat
        BY <1>2, <1>3
      <4>3. ASSUME NEW i \in c.cleared[t]
            PROVE  i \in 1..Len(hooks'[t]) /\ hooks'[t][i] = hooks[t][i]
        BY <1>3, <4>1, <4>2
      <4> QED
        BY <1>3, <4>1, <4>2, <4>3
    <3> QED
      BY <2>1, <3>1 DEF HooksStay, Accepts, Granted
  <2>4. LoopKnows(c)'
    <3>1. c.k <= Len(hooks'[c.stage]) + 1
      BY <1>2, <1>3, <2>1, <2>2 DEF CallKnows, LoopKnows
    <3> QED
      BY <2>1, <3>1 DEF CallKnows, LoopKnows
  <2>5. StagesInTurn(c)'
    BY <2>1 DEF CallKnows, StagesInTurn
  <2>6. HowItEnds(c)'
    <3>1. c.at = "running" => c.k <= Len(hooks'[c.stage])
      BY <1>2, <1>3, <2>1, <2>2 DEF CallKnows, HowItEnds
    <3> QED
      BY <2>1, <3>1 DEF CallKnows, HowItEnds
  <2>7. CallKnows(c)'
    BY <2>3, <2>4, <2>5, <2>6 DEF CallKnows
  <2> QED
    BY <2>7 DEF c
<1> QED
  BY <1>1, <1>4, <1>5 DEF ValidationInv

(* One call's step leaves the others as they are.                          *)
LEMMA OneCallChanges ==
  ASSUME ValidationInv, NEW v \in Validators, NEW c \in ValidationCalls, CallKnows(c),
         validation' = [validation EXCEPT ![v] = c], hooks' = hooks
  PROVE  ValidationInv'
<1>1. validation \in [Validators -> ValidationCalls]
  BY DEF ValidationInv, ValidationShape
<1>2. \A w \in Validators : validation'[w] = IF w = v THEN c ELSE validation[w]
  BY <1>1
<1>3. ValidationShape'
  BY <1>1 DEF ValidationInv, ValidationShape
<1>4. ASSUME NEW w \in Validators PROVE CallKnows(validation[w])'
  <2>1. PICK d : d = validation'[w] /\ CallKnows(d)
    BY <1>2 DEF ValidationInv
  <2>2. CallKnows(d)'
    BY <2>1 DEF CallKnows, HooksStay, LoopKnows, StagesInTurn, HowItEnds, Accepts, Granted
  <2> QED
    BY <2>1, <2>2
<1> QED
  BY <1>3, <1>4 DEF ValidationInv

LEMMA ValidationStep == ValidationInv /\ [ValidationNext]_validationVars => ValidationInv'
<1> SUFFICES ASSUME ValidationInv, [ValidationNext]_validationVars PROVE ValidationInv'
  OBVIOUS
<1>1. ASSUME NEW s \in Engines, NEW h \in HookKinds, HookRegistered(s, h) PROVE ValidationInv'
  BY <1>1, RegistrationKeeps
<1>2. ASSUME NEW v \in Validators, NEW x \in Inputs, NEW which \in Asked,
             NEW stop \in BOOLEAN, Validate(v, x, which, stop)
      PROVE  ValidationInv'
  <2> DEFINE n == [s \in Engines |-> Len(hooks[s])]
             e == IF "business" \in which THEN "business" ELSE "security"
             c == [NoValidation EXCEPT !.at = "running", !.input = x, !.asked = which, !.stop = stop,
                                       !.stage = e, !.upto = n]
  <2>1. ValidationShape /\ NoValidation \in ValidationCalls
    BY NewCallKnows DEF ValidationInv
  <2>2. n \in [Engines -> Nat] /\ (\A s \in Engines : n[s] = Len(hooks[s])) /\ e \in which /\ e \in Engines
    <3>1. which \subseteq {"business", "security"} /\ which # {}
      BY DEF Asked, Engines
    <3>2. e \in which /\ e \in Engines
      BY <3>1 DEF Engines
    <3>3. \A s \in Engines : Len(hooks[s]) \in Nat
      BY <2>1 DEF ValidationShape
    <3> QED
      BY <3>2, <3>3
  <2>3. validation' = [validation EXCEPT ![v] = Continued(c)] /\ hooks' = hooks
    BY <1>2 DEF Validate
  <2>4. e = "security" => "business" \notin which
    OBVIOUS
  <2> HIDE DEF n, e
  <2>5. /\ c.at = "running" /\ c.input = x /\ c.asked = which /\ c.stop = stop /\ c.stage = e
        /\ c.k = 1 /\ c.errors = {} /\ c.warnings = {} /\ c.upto = n
        /\ c.cleared = [s \in Engines |-> {}]
    BY DEF NoValidation
  <2>6. c \in ValidationCalls
    <3>1. which \in SUBSET Engines
      BY DEF Asked, Engines
    <3> QED
      BY <2>1, <2>2, <3>1, FieldReplaced
  <2>7. HooksStay(c) /\ LoopKnows(c) /\ StagesInTurn(c)
    BY <2>1, <2>2, <2>4, <2>5 DEF HooksStay, LoopKnows, StagesInTurn, ValidationShape, Engines
  <2>8. c.at = "running" /\ c.asked # {}
    BY <2>2, <2>5
  <2> HIDE DEF c
  <2>9. Continued(c) \in ValidationCalls /\ CallKnows(Continued(c))
    BY <2>1, <2>6, <2>7, <2>8, ContinuedKnows
  <2> QED
    BY <2>3, <2>9, OneCallChanges
<1>3. ASSUME NEW v \in Validators, NEW found \in SUBSET {"error", "warning"}, HookFinds(v, found)
      PROVE  ValidationInv'
  <2> DEFINE c == validation[v]
             errs == IF "error" \in found THEN c.errors \cup {c.k} ELSE c.errors
             warns == IF "warning" \in found THEN c.warnings \cup {c.k} ELSE c.warnings
             clear == IF "error" \in found THEN c.cleared
                      ELSE [c.cleared EXCEPT ![c.stage] = @ \cup {c.k}]
             d == [c EXCEPT !.k = c.k + 1, !.errors = errs, !.warnings = warns, !.cleared = clear]
  <2>1. ValidationShape /\ c \in ValidationCalls /\ CallKnows(c) /\ c.at = "running"
    BY <1>3 DEF ValidationInv, ValidationShape, HookFinds
  <2>2. validation' = [validation EXCEPT ![v] = Continued(d)] /\ hooks' = hooks
    BY <1>3 DEF HookFinds
  <2>3. found \in Findings(hooks[c.stage][c.k], c.input)
    BY <1>3 DEF HookFinds
  <2> HIDE DEF c
  <2>4. /\ c.stage \in Engines /\ c.k \in Nat \ {0} /\ c.errors \subseteq Nat /\ c.warnings \subseteq Nat
        /\ c.cleared \in [Engines -> SUBSET Nat] /\ c.upto \in [Engines -> Nat] /\ c.stop \in BOOLEAN
        /\ Len(hooks[c.stage]) \in Nat /\ c.asked \subseteq Engines
    BY <2>1 DEF ValidationCalls, ValidationShape
  <2>5. c.k <= Len(hooks[c.stage]) /\ ~(c.stop /\ c.errors # {}) /\ c.stage \in c.asked
    BY <2>1, <2>4 DEF CallKnows, HowItEnds, StagesInTurn
  <2>6. "error" \notin found => Accepts(hooks[c.stage][c.k], c.input)
    <3>1. CASE hooks[c.stage][c.k] = "custom"
      BY <3>1 DEF Accepts
    <3>2. CASE hooks[c.stage][c.k] # "custom"
      BY <2>3, <3>2 DEF Findings
    <3> QED
      BY <3>1, <3>2
  <2>7. errs \subseteq Nat /\ warns \subseteq Nat /\ clear \in [Engines -> SUBSET Nat]
    BY <2>4
  <2>8. /\ d.at = "running" /\ d.input = c.input /\ d.asked = c.asked /\ d.stop = c.stop
        /\ d.stage = c.stage /\ d.k = c.k + 1 /\ d.errors = errs /\ d.warnings = warns
        /\ d.upto = c.upto /\ d.cleared = clear
    BY <2>1 DEF ValidationCalls
  <2>9. \A s \in Engines : clear[s] = IF s = c.stage /\ "error" \notin found THEN c.cleared[s] \cup {c.k}
                                      ELSE c.cleared[s]
    BY <2>4
  <2>10. /\ errs = IF "error" \in found THEN c.errors \cup {c.k} ELSE c.errors
         /\ warns = IF "warning" \in found THEN c.warnings \cup {c.k} ELSE c.warnings
    OBVIOUS
  <2> HIDE DEF errs, warns, clear
  <2>11. d \in ValidationCalls
    <3>1. c.k + 1 \in Nat \ {0}
      BY <2>4
    <3> QED
      BY <2>1, <2>7, <3>1, FieldReplaced
  <2> HIDE DEF d
  <2>12. HooksStay(d)
    <3>1. ASSUME NEW s \in Engines, NEW i \in clear[s]
          PROVE  i \in 1..Len(hooks[s]) /\ Accepts(hooks[s][i], c.input)
      <4>1. i \in c.cleared[s] \/ (s = c.stage /\ i = c.k /\ "error" \notin found)
        BY <2>9, <3>1
      <4>2. CASE i \in c.cleared[s]
        BY <2>1, <4>2 DEF CallKnows, HooksStay
      <4>3. CASE s = c.stage /\ i = c.k /\ "error" \notin found
        BY <2>4, <2>5, <2>6, <4>3
      <4> QED
        BY <4>1, <4>2, <4>3
    <3>2. \A s \in Engines : c.upto[s] <= Len(hooks[s])
      BY <2>1 DEF CallKnows, HooksStay
    <3> QED
      BY <2>8, <3>1, <3>2 DEF HooksStay
  <2>13. LoopKnows(d)
    <3>1. /\ c.errors \subseteq 1..(c.k - 1) /\ c.warnings \subseteq 1..(c.k - 1)
          /\ c.cleared[c.stage] \subseteq 1..(c.k - 1)
          /\ 1..(c.k - 1) \subseteq c.errors \cup c.cleared[c.stage]
      BY <2>1 DEF CallKnows, LoopKnows
    <3>2. 1..c.k = 1..(c.k - 1) \cup {c.k} /\ (c.k + 1) - 1 = c.k
      BY <2>4
    <3>3. clear[c.stage] = IF "error" \notin found THEN c.cleared[c.stage] \cup {c.k} ELSE c.cleared[c.stage]
      BY <2>4, <2>9
    <3>4. c.k + 1 <= Len(hooks[c.stage]) + 1
      BY <2>4, <2>5
    <3>5. errs \subseteq 1..c.k /\ warns \subseteq 1..c.k /\ clear[c.stage] \subseteq 1..c.k
      BY <2>10, <3>1, <3>2, <3>3
    <3>6. 1..c.k \subseteq errs \cup clear[c.stage]
      BY <2>10, <3>1, <3>2, <3>3
    <3>7. c.stop /\ errs # {} => errs = {c.k}
      BY <2>5, <2>10
    <3> QED
      BY <2>8, <3>2, <3>4, <3>5, <3>6, <3>7 DEF LoopKnows
  <2>14. StagesInTurn(d)
    <3>1. c.stage = "business" => clear["security"] = c.cleared["security"]
      BY <2>9 DEF Engines
    <3>2. c.stage = "security" => clear["business"] = c.cleared["business"]
      BY <2>9 DEF Engines
    <3> QED
      BY <2>1, <2>5, <2>8, <3>1, <3>2 DEF CallKnows, StagesInTurn
  <2>15. Continued(d) \in ValidationCalls /\ CallKnows(Continued(d))
    BY <2>1, <2>5, <2>8, <2>11, <2>12, <2>13, <2>14, ContinuedKnows
  <2> QED
    BY <2>2, <2>15, OneCallChanges
<1>4. ASSUME NEW v \in Validators, HookRaises(v) PROVE ValidationInv'
  <2> DEFINE c == validation[v]
             d == [c EXCEPT !.at = "raised"]
  <2>1. ValidationShape /\ c \in ValidationCalls /\ CallKnows(c)
    BY DEF ValidationInv, ValidationShape
  <2>2. c.at = "running" /\ validation' = [validation EXCEPT ![v] = d] /\ hooks' = hooks
    BY <2>1, <1>4 DEF HookRaises, ValidationShape
  <2> HIDE DEF c
  <2>3. d \in ValidationCalls
    BY <2>1 DEF ValidationCalls
  <2>4. /\ d.at = "raised" /\ d.input = c.input /\ d.asked = c.asked /\ d.stop = c.stop
        /\ d.stage = c.stage /\ d.k = c.k /\ d.errors = c.errors /\ d.warnings = c.warnings
        /\ d.upto = c.upto /\ d.cleared = c.cleared
    BY <2>1 DEF ValidationCalls
  <2> HIDE DEF d
  <2>5. HooksStay(d) /\ LoopKnows(d)
    BY <2>1, <2>4 DEF CallKnows, HooksStay, LoopKnows
  <2>6. StagesInTurn(d) /\ HowItEnds(d)
    BY <2>1, <2>2, <2>4 DEF CallKnows, StagesInTurn, HowItEnds
  <2> QED
    BY <2>2, <2>3, <2>5, <2>6, OneCallChanges DEF CallKnows
<1>5. CASE UNCHANGED validationVars
  <2>1. hooks' = hooks /\ validation' = validation
    BY <1>5 DEF validationVars
  <2> QED
    BY <2>1 DEF ValidationInv, ValidationShape, CallKnows, HooksStay, LoopKnows, StagesInTurn, HowItEnds,
                Accepts, Granted
<1> QED
  BY <1>1, <1>2, <1>3, <1>4, <1>5 DEF ValidationNext

LEMMA ValidationInvariance == ValidationSpec => []ValidationInv
<1>1. ValidationInit => ValidationInv
  <2> SUFFICES ASSUME ValidationInit PROVE ValidationInv
    OBVIOUS
  <2>1. hooks \in [Engines -> Seq(HookKinds)] /\ \A s \in Engines : Len(hooks[s]) <= MaxHooks
    BY ValidationAssumption DEF ValidationInit
  <2>2. NoInput \in Inputs
    BY ValidationAssumption DEF NoInput
  <2>3. NoValidation \in ValidationCalls
    BY <2>2 DEF NoValidation, ValidationCalls, Engines
  <2>4. ValidationShape
    BY <2>1, <2>3 DEF ValidationInit, ValidationShape
  <2>5. CallKnows(NoValidation)
    BY <2>4, NewCallKnows
  <2> QED
    BY <2>4, <2>5 DEF ValidationInit, ValidationInv
<1> QED
  BY <1>1, ValidationStep, PTL DEF ValidationSpec

(* Whatever is registered or found meanwhile, for any hooks and payloads:  *)
(* who passed was allowed by every hook there was at the beginning.        *)
THEOREM ValidatedIsAllowed == ValidationSpec => []PassedIsAllowed
<1>1. ValidationInv => PassedIsAllowed
  BY DEF ValidationInv, ValidationShape, ValidationCalls, CallKnows, HowItEnds, HooksStay, PassedIsAllowed
<1> QED
  BY <1>1, ValidationInvariance, PTL

(* And a refusal lists just the errors that its mode promises.             *)
THEOREM RefusalsAreExact == ValidationSpec => []RefusalIsExact
<1>1. ASSUME ValidationInv, NEW v \in Validators, NEW c, c = validation[v]
      PROVE  /\ c.at = "refused" =>
                  /\ c.errors # {}
                  /\ c.stop => \E i \in c.errors : /\ c.errors = {i}
                                                   /\ c.cleared[c.stage] \cup c.warnings \subseteq 1..i
                  /\ ~c.stop => 1..c.upto[c.stage] \subseteq c.errors \cup c.cleared[c.stage]
             /\ c.at # "new" /\ "business" \in c.asked /\ (c.cleared["security"] # {} \/ c.stage = "security") =>
                  1..c.upto["business"] \subseteq c.cleared["business"]
  <2>1. CallKnows(c) /\ c \in ValidationCalls
    BY <1>1 DEF ValidationInv, ValidationShape
  <2>2. c.stage \in Engines /\ c.k \in Nat /\ c.upto[c.stage] \in Nat
    BY <2>1 DEF ValidationCalls
  <2>3. ASSUME c.at = "refused", c.stop
        PROVE  \E i \in c.errors : c.errors = {i} /\ c.cleared[c.stage] \cup c.warnings \subseteq 1..i
    <3>1. c.errors = {c.k - 1}
      BY <2>1, <2>3 DEF CallKnows, HowItEnds, LoopKnows
    <3> QED
      BY <2>1, <3>1 DEF CallKnows, LoopKnows
  <2>4. ASSUME c.at = "refused", ~c.stop
        PROVE  1..c.upto[c.stage] \subseteq c.errors \cup c.cleared[c.stage]
    <3>1. 1..c.upto[c.stage] \subseteq 1..(c.k - 1)
      BY <2>1, <2>2, <2>4 DEF CallKnows, HowItEnds
    <3> QED
      BY <2>1, <3>1 DEF CallKnows, LoopKnows
  <2> QED
    BY <2>1, <2>2, <2>3, <2>4 DEF CallKnows, HowItEnds, StagesInTurn, Engines
<1>2. ValidationInv => RefusalIsExact
  BY Zenon, <1>1 DEF RefusalIsExact
<1> QED
  BY <1>2, ValidationInvariance, PTL

(* So every verdict is the one the hooks give.                             *)
THEOREM ValidationIsExact == ValidationSpec => []ValidationExact
<1> QED
  BY ValidatedIsAllowed, RefusalsAreExact, PTL DEF ValidationExact

LEMMA ValidationTypes == ValidationSpec => []ValidationTypeOK
<1>1. ASSUME ValidationInv, NEW v \in Validators, NEW c, c = validation[v]
      PROVE  /\ c.at \in {"new", "running", "passed", "refused", "raised"}
             /\ c.input \in Inputs /\ c.asked \subseteq Engines /\ c.stop \in BOOLEAN
             /\ c.stage \in Engines /\ c.k \in 1..(MaxHooks + 1)
             /\ c.errors \subseteq HookIndexes /\ c.warnings \subseteq HookIndexes
             /\ \A s \in Engines : c.upto[s] \in 0..MaxHooks /\ c.cleared[s] \subseteq HookIndexes
  <2>1. CallKnows(c) /\ c \in ValidationCalls
    BY <1>1 DEF ValidationInv, ValidationShape
  <2>2. /\ c.stage \in Engines /\ c.k \in Nat \ {0} /\ c.upto \in [Engines -> Nat] /\ MaxHooks \in Nat
        /\ \A s \in Engines : Len(hooks[s]) \in Nat /\ Len(hooks[s]) <= MaxHooks
    BY <1>1, <2>1, ValidationAssumption DEF ValidationInv, ValidationShape, ValidationCalls
  <2>3. c.k \in 1..(MaxHooks + 1)
    BY <2>1, <2>2 DEF CallKnows, LoopKnows
  <2>4. c.errors \subseteq HookIndexes /\ c.warnings \subseteq HookIndexes
    BY <2>1, <2>2, <2>3 DEF CallKnows, LoopKnows, HookIndexes
  <2>5. ASSUME NEW s \in Engines
        PROVE  c.upto[s] \in 0..MaxHooks /\ c.cleared[s] \subseteq HookIndexes
    BY <2>1, <2>2 DEF CallKnows, HooksStay, HookIndexes
  <2> QED
    BY <2>1, <2>3, <2>4, <2>5 DEF ValidationCalls
<1>2. ValidationInv => ValidationTypeOK
  BY <1>1 DEF ValidationTypeOK, ValidationInv, ValidationShape
<1> QED
  BY <1>2, ValidationInvariance, PTL

------------------------------------------------------------------------------
(* SharedState: the components side by side.                               *)

(* A behaviour of SharedState is one of every component: of the one it is  *)
(* about, and one that stutters of the others.                             *)
THEOREM EachComponentRuns ==
  Spec => /\ PagingSpec /\ RepoSpec /\ CacheSpec /\ PresenceSpec
          /\ FlagsSpec /\ BusSpec /\ RunnerSpec /\ StorageSpec /\ StackSpec
          /\ LifespanSpec /\ ValidationSpec
<1>1. Init => /\ PagingInit /\ RepoInit /\ CacheInit /\ PresenceInit
              /\ FlagsInit /\ BusInit /\ RunnerInit /\ StorageInit /\ StackInit
              /\ LifespanInit /\ ValidationInit
  BY DEF Init, InitOfEach
<1>2. [Next]_vars => [PagingNext]_pagingVars
  BY Zenon DEF Next, vars
<1>3. [Next]_vars => [RepoNext]_repoVars
  BY Zenon DEF Next, vars
<1>4. [Next]_vars => [CacheNext]_cacheVars
  BY Zenon DEF Next, vars
<1>5. [Next]_vars => [PresenceNext]_presenceVars
  BY Zenon DEF Next, vars
<1>6. [Next]_vars => [FlagsNext]_flagVars
  BY Zenon DEF Next, vars
<1>7. [Next]_vars => [BusNext]_busVars
  BY Zenon DEF Next, vars
<1>8. [Next]_vars => [RunnerNext]_runnerVars
  BY Zenon DEF Next, vars
<1>9. [Next]_vars => [StorageNext]_storageVars
  BY Zenon DEF Next, vars
<1>10. [Next]_vars => [StackNext]_stackVars
  BY Zenon DEF Next, vars
<1>11. [Next]_vars => [LifespanNext]_lifespanVars
  BY Zenon DEF Next, vars
<1>12. [Next]_vars => [ValidationNext]_validationVars
  BY Zenon DEF Next, vars
<1> QED
  BY <1>1, <1>2, <1>3, <1>4, <1>5, <1>6, <1>7, <1>8, <1>9, <1>10, <1>11, <1>12, PTL
  DEF Spec, PagingSpec, RepoSpec, CacheSpec, PresenceSpec, FlagsSpec, BusSpec, RunnerSpec,
      StorageSpec, StackSpec, LifespanSpec, ValidationSpec

(* What the components promise, they promise side by side.                 *)
THEOREM SharedStateSound ==
  Spec => /\ []( /\ WalksExact /\ RowsSound /\ InvalidationExact /\ StatusIffInRoom
                 /\ OnceOnStaysOn /\ HeardExact /\ NoServiceForgotten /\ ObjectsKept
                 /\ AuditExact /\ LifespanReleases /\ ValidationExact)
          /\ RetryIsReplay
BY EachComponentRuns, WalksReturnEachOnce, RepositoriesKeepRows, CacheInvalidatesExactly,
   PresenceFollowsRooms, RolloutKeepsFlagsOn, BusIsHeardExactly, RunnerForgetsNone,
   StorageKeepsObjects, AuditIsExact, RetriesAreReplays, ShutdownReleases, ValidationIsExact,
   PTL

------------------------------------------------------------------------------
(* Types.                                                                  *)

LEMMA RunnerTypes == RunnerSpec => []RunnerTypeOK
<1>1. RunnerInv => RunnerTypeOK
  BY DEF RunnerInv, RunnerShape, RunnerTypeOK
<1> QED
  BY <1>1, RunnerInvariance, PTL

LEMMA PresenceTypes == PresenceSpec => []PresenceTypeOK
<1>1. PresenceInv => PresenceTypeOK
  BY DEF PresenceInv
<1> QED
  BY <1>1, PresenceInvariance, PTL

LEMMA CacheTypes == CacheSpec => []CacheTypeOK
<1>1. CacheInv => CacheTypeOK
  BY DEF CacheInv, CacheShape
<1> QED
  BY <1>1, CacheInvariance, PTL

LEMMA StorageTypes == StorageSpec => []StorageTypeOK
<1>1. StorageInv => StorageTypeOK
  BY DEF StorageInv
<1> QED
  BY <1>1, StorageInvariance, PTL

LEMMA FlagsTypes == FlagsSpec => []FlagsTypeOK
<1>1. FlagsInv => FlagsTypeOK
  BY DEF FlagsInv
<1> QED
  BY <1>1, FlagsInvariance, PTL

LEMMA RepoTypes == RepoSpec => []RepoTypeOK
<1>1. RepoInv => RepoTypeOK
  BY DEF RepoInv, RepoShape, Call, RepoTypeOK
<1> QED
  BY <1>1, RepoInvariance, PTL

(* A task that publishes nothing is as it was at first.                    *)
IdleIsNone ==
  /\ bus \in {"memory", "redis"}
  /\ \A p \in Publishers : publishing[p].at = "idle" => publishing[p] = NoPublication

LEMMA ProceedsLeavesIdle ==
  ASSUME BusShape, IdleIsNone, bus' = bus, NEW p \in Publishers, NEW k, NEW todo, NEW many, NEW past,
         Proceeds(p, k, todo, many, past)
  PROVE  IdleIsNone'
<1>1. publishing \in [Publishers -> Task]
  BY DEF BusShape
<1>2. PICK task : publishing' = [publishing EXCEPT ![p] = task] /\ (task.at = "idle" => task = NoPublication)
  <2>1. CASE todo # <<>>
    BY <2>1 DEF Proceeds
  <2>2. CASE todo = <<>>
    <3>1. PICK task : /\ publishing' = [publishing EXCEPT ![p] = task]
                      /\ task.at = "redis" \/ task.at = "next" \/ task = NoPublication
      <4>1. CASE bus = "redis"
        BY <2>2, <4>1 DEF Proceeds
      <4>2. CASE bus # "redis" /\ many # <<>>
        BY <2>2, <4>2 DEF Proceeds
      <4>3. CASE bus # "redis" /\ many = <<>>
        BY <2>2, <4>3 DEF Proceeds
      <4> QED
        BY <4>1, <4>2, <4>3
    <3> QED
      BY <3>1
  <2> QED
    BY <2>1, <2>2
<1>3. \A q \in Publishers : publishing'[q] = IF q = p THEN task ELSE publishing[q]
  BY <1>1, <1>2
<1> QED
  BY <1>2, <1>3 DEF IdleIsNone

LEMMA BusTypes == BusSpec => []BusTypeOK
<1>1. BusInit => IdleIsNone
  BY DEF BusInit, IdleIsNone
<1>2. BusInv /\ IdleIsNone /\ [BusNext]_busVars => IdleIsNone'
  <2> SUFFICES ASSUME BusInv, IdleIsNone, [BusNext]_busVars PROVE IdleIsNone'
    OBVIOUS
  <2>1. BusShape /\ publishing \in [Publishers -> Task]
    BY DEF BusInv, BusShape
  <2>2. ASSUME NEW n \in Names, NEW h \in Listeners, Subscribes(n, h) PROVE IdleIsNone'
    BY <2>2 DEF Subscribes, IdleIsNone
  <2>3. ASSUME NEW p \in Publishers, NEW n, NEW batch, NEW many, Begins(p, n, batch, many)
        PROVE  IdleIsNone'
    BY <2>1, <2>3, ProceedsLeavesIdle DEF Begins
  <2>4. ASSUME NEW p \in Publishers, HandlerReturns(p) PROVE IdleIsNone'
    BY <2>1, <2>4, ProceedsLeavesIdle DEF HandlerReturns
  <2>5. ASSUME NEW p \in Publishers, Over(p), bus' = bus PROVE IdleIsNone'
    BY <2>1, <2>5 DEF Over, IdleIsNone
  <2>6. CASE UNCHANGED busVars
    BY <2>6 DEF busVars, IdleIsNone
  <2> QED
    BY <2>2, <2>3, <2>4, <2>5, <2>6
    DEF BusNext, Publish, PublishMany, PublishesNext, PublishRaises, RedisTakes
<1>3. BusInv /\ IdleIsNone => BusTypeOK
  <2> SUFFICES ASSUME BusInv, IdleIsNone PROVE BusTypeOK
    OBVIOUS
  <2>1. BusShape /\ Len(publications) \in Nat /\ DOMAIN publications = 1..Len(publications)
    BY DEF BusInv, BusShape
  <2>2. ASSUME NEW p \in Publishers
        PROVE  /\ publishing[p].at \in {"idle", "handler", "redis", "next"}
               /\ publishing[p].of \in 0..Len(publications)
    <3>1. publishing[p] \in Task /\ Progress(p)
      BY <2>1 DEF BusInv, BusShape
    <3>2. publishing[p].at = "idle" => publishing[p].of \in 0..Len(publications)
      BY <2>1 DEF IdleIsNone, NoPublication
    <3>3. ASSUME publishing[p].at # "idle" PROVE publishing[p].of \in 0..Len(publications)
      <4>1. publishing[p].of \in DOMAIN publications
        BY <3>1, <3>3 DEF Progress
      <4> QED
        BY <2>1, <4>1
    <3>4. publishing[p].at \in {"idle", "handler", "redis", "next"}
      BY <3>1 DEF Task
    <3> QED
      BY <3>2, <3>3, <3>4
  <2>3. ToSet(outside) \subseteq DOMAIN publications
    BY <2>1 DEF BusShape, ToSet
  <2> QED
    BY <2>1, <2>2, <2>3 DEF BusTypeOK, IdleIsNone, BusShape
<1> QED
  BY <1>1, <1>2, <1>3, BusInvariance, PTL DEF BusSpec

(* The bounds of a walk's counters.                                        *)
CountsBounded == writes \in 0..MaxWrites /\ walk.total \in 0..Cardinality(Rows)

LEMMA PagingTypes == PagingSpec => []PagingTypeOK
<1>1. Cardinality(Rows) \in Nat /\ MaxWrites \in Nat
  BY PagingAssumption, FS_CardinalityType
<1>2. PagingInit => CountsBounded
  BY <1>1 DEF PagingInit, CountsBounded
<1>3. PagingInv /\ CountsBounded /\ [PagingNext]_pagingVars => CountsBounded'
  <2> SUFFICES ASSUME PagingInv, CountsBounded, [PagingNext]_pagingVars PROVE CountsBounded'
    OBVIOUS
  <2>1. PagingShape /\ walk \in Walking /\ writes \in 0..MaxWrites
    BY DEF PagingInv, PagingShape, CountsBounded
  <2>2. Cardinality(Present) \in 0..Cardinality(Rows)
    <3>1. Present \subseteq Rows
      BY DEF Present
    <3>2. Cardinality(Present) \in Nat /\ Cardinality(Present) <= Cardinality(Rows)
      BY <3>1, PagingAssumption, FS_Subset, FS_CardinalityType
    <3> QED
      BY <1>1, <3>2
  <2>3. CASE Counts
    <3>1. walk'.total = Cardinality(Present) /\ writes' = writes
      BY <2>1, <2>3 DEF Counts, Walking
    <3> QED
      BY <2>1, <2>2, <3>1 DEF CountsBounded
  <2>4. ASSUME NEW page, NEW total, Returns(page, total) PROVE CountsBounded'
    <3>1. walk'.total = 0 /\ writes' = writes
      BY <2>1, <2>4 DEF Returns, Walking
    <3> QED
      BY <1>1, <2>1, <3>1 DEF CountsBounded
  <2>5. CASE Writes
    BY <1>1, <2>5 DEF Writes, CountsBounded
  <2>6. CASE UNCHANGED pagingVars
    BY <2>6 DEF pagingVars, CountsBounded
  <2> QED
    BY <2>3, <2>4, <2>5, <2>6 DEF PagingNext, Selects, PageOfMemory
<1>4. PagingInv /\ CountsBounded => PagingTypeOK
  BY DEF PagingInv, PagingShape, Walking, CountsBounded, PagingTypeOK
<1>5. PagingInit => PagingInv
  BY PagingBegins
<1> QED
  BY <1>2, <1>3, <1>4, <1>5, PagingInvariance, PTL DEF PagingSpec

(* Every variable of every component keeps its type, for any values of the *)
(* constants: calls under way are complete records of what they are about, *)
(* the two indexes of the cache mirror each other, every publication that  *)
(* a task or Redis has exists, and counters stay within their bounds.      *)
THEOREM SharedStateTypeOK == Spec => []TypeOK
<1>1. /\ PagingTypeOK /\ RepoTypeOK /\ CacheTypeOK /\ PresenceTypeOK
      /\ FlagsTypeOK /\ BusTypeOK /\ RunnerTypeOK /\ StorageTypeOK /\ StackTypeOK
      /\ LifespanTypeOK /\ ValidationTypeOK
      => TypeOK
  BY DEF TypeOK
<1> QED
  BY <1>1, EachComponentRuns, PagingTypes, RepoTypes, CacheTypes, PresenceTypes, FlagsTypes,
     BusTypes, RunnerTypes, StorageTypes, StackTypes, LifespanTypes, ValidationTypes, PTL

=============================================================================
