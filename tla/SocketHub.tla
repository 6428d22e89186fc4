------------------------------ MODULE SocketHub ------------------------------
(***************************************************************************)
(* One worker process's realtime hub: InMemorySocketHub (hub.py), the      *)
(* /realtime/ws handler coroutines that drive it (realtime_router.py) and  *)
(* the tasks that deliver messages of other workers on it                  *)
(* (RedisFanoutSocketHub.deliver_cluster_...).                             *)
(*                                                                         *)
(* The coroutines share one event loop: the code between two awaits is one *)
(* action, and every await on send_json is a point where any other         *)
(* coroutine may run.  A delivery loop therefore iterates over a LIVE      *)
(* collection (the set of a room, or the dict of principals) while joins,  *)
(* leaves and disconnects of other handlers change it.                     *)
(***************************************************************************)
EXTENDS Integers, FiniteSets

CONSTANTS
  MaxConns,     \* bound: connections the process ever accepts
  Rooms,        \* normalised (stripped, non-empty) room names
  Actors,       \* actor ids a principal may carry
  Anonymous,    \* the actor id of a socket without a token
  Logins,       \* Logins[n]: the actor ids the n-th connection may have
  NoActor,      \* "no entry in _principals"
  Subscribers,  \* tasks delivering the messages of other workers; {} without Redis
  MaxLoops,     \* bound: delivery loops in flight at once
  MaxSubConns,  \* bound: connections ever accepted when a subscriber starts a loop
  Slots         \* bound: sends of one loop (the slots of its iterator's hash table)

Ids == 1..MaxConns                \* "conn-<n>" is n
Tasks == Ids \cup Subscribers     \* the handler of connection c is task c
NoOne == 0                        \* exclude_connection_id = None
Targets == Rooms \cup Actors      \* a broadcast names a room, a direct message an actor

ASSUME HubAssumption ==
  /\ MaxConns \in Nat \ {0}
  /\ Slots \in Nat
  /\ MaxLoops \in Nat
  /\ MaxSubConns \in Nat
  /\ Anonymous \in Actors
  /\ Logins \in [Ids -> SUBSET Actors]
  /\ NoActor \notin Actors
  /\ Rooms \cap Actors = {}
  /\ Subscribers \cap Ids = {}

VARIABLES
  nextId,       \* _next_connection_id
  connections,  \* keys of _connections
  principals,   \* _principals: connection -> actor id, or NoActor
  rooms,        \* _rooms: room -> members; {} stands for an absent key
  memberRooms,  \* _member_rooms: connection -> rooms; {} stands for an absent key
  alive,        \* the peer's end of the socket is still open
  pc,           \* where the handler of a connection is suspended
  cast          \* the delivery loop a task is in

vars == <<nextId, connections, principals, rooms, memberRooms, alive, pc, cast>>

------------------------------------------------------------------------------
(* Delivery loops.                                                         *)

(* A task's loop.  obj says what became of the collection under the        *)
(* suspended iterator: "clean", "dirty" (some entry was added or removed), *)
(* "moved" (that was so when a dict's iterator last went on) or "gone"     *)
(* (the room emptied and its set was dropped from _rooms, so the iterator  *)
(* holds a set that stays empty).  got, must and quiet are                 *)
(* history: who was sent the message, who has been entitled to it since    *)
(* the loop began, and whether nothing that concerns the loop has changed. *)
CastType ==
  [phase: {"none", "run", "ok"}, target: Targets \cup {NoActor}, except: Ids \cup {NoOne},
   size0: Nat, todo: SUBSET Ids, to: Ids \cup {NoOne},
   obj: {"clean", "dirty", "moved", "gone"}, delivered: Nat,
   got: SUBSET Ids, must: SUBSET Ids, quiet: BOOLEAN]

NoCast ==
  [phase |-> "none", target |-> NoActor, except |-> NoOne, size0 |-> 0, todo |-> {},
   to |-> NoOne, obj |-> "clean", delivered |-> 0,
   got |-> {}, must |-> {}, quiet |-> TRUE]

(* The collection a loop iterates over: self._rooms.get(room, set()) or    *)
(* self._principals.                                                       *)
Iterated(target, rms, prs) ==
  IF target \in Rooms THEN rms[target] ELSE {c \in Ids : prs[c] # NoActor}

(* The elements the loop body does not skip with `continue`.               *)
Addressed(target, except, conns, prs) ==
  {c \in conns \ {except} : target \in Actors => prs[c] = target}

(* The loop from its head: take an addressed element the iterator has not  *)
(* passed and start sending to it, or fall out of the loop.  The order of  *)
(* a hash table's elements is not fixed.                                   *)
Heads(k) ==
  LET ready == k.todo \cap Addressed(k.target, k.except, connections, principals)
  IN IF ready = {} \/ k.delivered = Slots
     THEN {[NoCast EXCEPT !.phase = "ok", !.delivered = k.delivered]}
     ELSE {[k EXCEPT !.to = p, !.todo = @ \ {p}, !.got = @ \cup {p}] : p \in ready}

(* A new loop, run up to its first await.                                  *)
Started(target, except) ==
  LET coll == Iterated(target, rooms, principals)
      addr == coll \cap Addressed(target, except, connections, principals)
  IN Heads([phase |-> "run", target |-> target, except |-> except,
            size0 |-> Cardinality(coll), todo |-> coll, to |-> NoOne,
            obj |-> "clean", delivered |-> 0, got |-> {},
            must |-> {c \in addr : alive[c]}, quiet |-> \A c \in addr : alive[c]])

(* The iterator refuses to go on when the size of its collection is not    *)
(* the one it began with ("changed size during iteration"); for a dict     *)
(* also, possibly, when its keys changed at the same size, at once or when *)
(* it meets more of them later.                                            *)
MayRefuse(k) ==
  \/ k.obj = "gone"
  \/ Cardinality(Iterated(k.target, rooms, principals)) # k.size0
  \/ k.obj \in {"dirty", "moved"} /\ k.target \in Actors

(* mutated form: the iterator works on a copy taken when the loop began    *)
MayGoOnCopy(k) == TRUE

MayGoOn(k) ==
  /\ k.obj # "gone"
  /\ Cardinality(Iterated(k.target, rooms, principals)) = k.size0

(* What lies ahead of the iterator.  A table that changed at equal size    *)
(* may have put any entry before or behind the iterator's position.        *)
Ahead(k) ==
  IF k.obj = "dirty"
  THEN {S \in SUBSET Iterated(k.target, rooms, principals) : Cardinality(S) <= Slots}
  ELSE {k.todo}

(* The suspended loops after a step that makes the hub rms, prs and alv.   *)
Observed(rms, prs, alv) ==
  [t \in Tasks |->
     LET k == cast[t]
         old == Iterated(k.target, rooms, principals)
         new == Iterated(k.target, rms, prs)
         must == {c \in k.must \cap new : alv[c]}
     IN IF k.phase # "run" THEN k
        ELSE [k EXCEPT !.obj = IF @ = "gone" \/ (k.target \in Rooms /\ new = {}) THEN "gone"
                               ELSE IF new # old THEN "dirty" ELSE @,
                       !.must = must,
                       !.quiet = @ /\ new = old /\ must = k.must]]

------------------------------------------------------------------------------
(* InMemorySocketHub's synchronous operations.                             *)

Register(c, a) ==
  /\ nextId' = nextId + 1
  /\ connections' = connections \cup {c}
  /\ principals' = [principals EXCEPT ![c] = a]

JoinRoom(r, c) ==
  IF c \in connections
  THEN /\ rooms' = [rooms EXCEPT ![r] = @ \cup {c}]
       /\ memberRooms' = [memberRooms EXCEPT ![c] = @ \cup {r}]
  ELSE UNCHANGED <<rooms, memberRooms>>

LeaveRoom(r, c) ==
  IF c \in rooms[r]
  THEN /\ rooms' = [rooms EXCEPT ![r] = @ \ {c}]
       /\ memberRooms' = [memberRooms EXCEPT ![c] = @ \ {r}]
  ELSE UNCHANGED <<rooms, memberRooms>>

(* mutated form: the rooms are left to leave_room calls that never come    *)
DisconnectNoLeave(c) ==
  /\ connections' = connections \ {c}
  /\ principals' = [principals EXCEPT ![c] = NoActor]
  /\ memberRooms' = [memberRooms EXCEPT ![c] = {}]
  /\ UNCHANGED rooms

(* Pops the connection and its principal and leaves every room the reverse *)
(* index lists.                                                            *)
Disconnect(c) ==
  /\ connections' = connections \ {c}
  /\ principals' = [principals EXCEPT ![c] = NoActor]
  /\ rooms' = [r \in Rooms |-> IF r \in memberRooms[c] THEN rooms[r] \ {c} ELSE rooms[r]]
  /\ memberRooms' = [memberRooms EXCEPT ![c] = {}]

------------------------------------------------------------------------------
(* The handler of a connection, realtime_websocket.                        *)

Init ==
  /\ nextId = 1
  /\ connections = {}
  /\ principals = [c \in Ids |-> NoActor]
  /\ rooms = [r \in Rooms |-> {}]
  /\ memberRooms = [c \in Ids |-> {}]
  /\ alive = [c \in Ids |-> FALSE]
  /\ pc = [c \in Ids |-> "absent"]
  /\ cast = [t \in Tasks |-> NoCast]

(* accept(), register and the first send_json.  Sockets whose token is     *)
(* refused are closed before they reach the hub and have no state here.    *)
Accept(a) ==
  /\ nextId <= MaxConns
  /\ a \in Logins[nextId]
  /\ Register(nextId, a)
  /\ alive' = [alive EXCEPT ![nextId] = TRUE]
  /\ pc' = [pc EXCEPT ![nextId] = "greet"]
  /\ cast' = Observed(rooms, principals', alive')
  /\ UNCHANGED <<rooms, memberRooms>>

(* The greeting is awaited outside the try/finally: if it raises because   *)
(* the peer is gone, the handler ends and nobody calls hub.disconnect.     *)
Greet(c) ==
  /\ pc[c] = "greet"
  /\ \/ pc' = [pc EXCEPT ![c] = "recv"]
     \/ ~alive[c] /\ pc' = [pc EXCEPT ![c] = "leaked"]
  /\ UNCHANGED <<nextId, connections, principals, rooms, memberRooms, alive, cast>>

(* mutated form: no finally, an exception leaves the connection behind     *)
FinallyForgotten(c) ==
  /\ alive' = [alive EXCEPT ![c] = FALSE]
  /\ pc' = [pc EXCEPT ![c] = "closed"]
  /\ cast' = [cast EXCEPT ![c] = NoCast]
  /\ UNCHANGED <<nextId, connections, principals, rooms, memberRooms>>

(* The finally clause; an exception has ended the handler's loop, if any.  *)
(* The server closes the socket of a handler that has ended.               *)
Finally(c) ==
  /\ Disconnect(c)
  /\ alive' = [alive EXCEPT ![c] = FALSE]
  /\ pc' = [pc EXCEPT ![c] = "closed"]
  /\ cast' = [Observed(rooms', principals', alive') EXCEPT ![c] = NoCast]
  /\ UNCHANGED nextId

Receives(c) == pc[c] = "recv" /\ alive[c]

RecvDisconnect(c) == pc[c] = "recv" /\ ~alive[c] /\ Finally(c)

RecvJoin(c, r) ==
  /\ Receives(c)
  /\ JoinRoom(r, c)
  /\ pc' = [pc EXCEPT ![c] = "reply"]
  /\ cast' = Observed(rooms', principals, alive)
  /\ UNCHANGED <<nextId, connections, principals, alive>>

RecvLeave(c, r) ==
  /\ Receives(c)
  /\ LeaveRoom(r, c)
  /\ pc' = [pc EXCEPT ![c] = "reply"]
  /\ cast' = Observed(rooms', principals, alive)
  /\ UNCHANGED <<nextId, connections, principals, alive>>

LoopFree == Cardinality({t \in Tasks : cast[t].phase = "run"}) < MaxLoops

(* mutated form: the handler goes on receiving while its loop is suspended *)
StartCastDetached(c, target) ==
  /\ LoopFree
  /\ \E k \in Started(target, c) : cast' = [cast EXCEPT ![c] = k]
  /\ pc' = [pc EXCEPT ![c] = "reply"]
  /\ UNCHANGED <<nextId, connections, principals, rooms, memberRooms, alive>>

(* Task c starts a loop; one with nobody to send to ends at once.          *)
StartCast(c, target) ==
  /\ LoopFree
  /\ \E k \in Started(target, c) :
       /\ cast' = [cast EXCEPT ![c] = k]
       /\ pc' = [pc EXCEPT ![c] = IF k.phase = "run" THEN "cast" ELSE "reply"]
  /\ UNCHANGED <<nextId, connections, principals, rooms, memberRooms, alive>>

RecvBroadcast(c, r) == Receives(c) /\ c \in rooms[r] /\ StartCast(c, r)

RecvDirect(c, a) == Receives(c) /\ principals[c] # Anonymous /\ StartCast(c, a)

(* Every message that is answered without touching the hub's state: ping,  *)
(* presence, an unknown type, malformed input, NOT_IN_ROOM and             *)
(* DIRECT_REQUIRES_IDENTITY.                                               *)
RecvOther(c) ==
  /\ Receives(c)
  /\ pc' = [pc EXCEPT ![c] = "reply"]
  /\ UNCHANGED <<nextId, connections, principals, rooms, memberRooms, alive, cast>>

(* The awaited reply returns, or raises because the peer is gone.          *)
Reply(c) ==
  /\ pc[c] = "reply"
  /\ \/ /\ pc' = [pc EXCEPT ![c] = "recv"]
        /\ cast' = [cast EXCEPT ![c] = NoCast]
        /\ UNCHANGED <<nextId, connections, principals, rooms, memberRooms, alive>>
     \/ ~alive[c] /\ Finally(c)

(* A handler replies with the number its loop delivered; a subscriber task *)
(* forgets it.                                                             *)
Kept(t, k) == IF t \in Subscribers /\ k.phase = "ok" THEN NoCast ELSE k

Onward(k) == IF k.obj # "clean" /\ k.target \in Actors THEN "moved" ELSE "clean"

(* mutated form: the delivery that was awaited is not counted              *)
ResumedUncounted(k) ==
  UNION {Heads([k EXCEPT !.todo = S, !.obj = Onward(k)]) : S \in Ahead(k)}

(* The awaited send of a loop returned; the iterator is asked for the next *)
(* element.                                                                *)
Resumed(k) ==
  UNION {Heads([k EXCEPT !.todo = S, !.obj = Onward(k), !.delivered = @ + 1]) : S \in Ahead(k)}

CastGoesOn(t) ==
  /\ cast[t].phase = "run"
  /\ MayGoOn(cast[t])
  /\ \E k \in Resumed(cast[t]) :
       /\ cast' = [cast EXCEPT ![t] = Kept(t, k)]
       /\ pc' = IF t \in Ids /\ k.phase = "ok" THEN [pc EXCEPT ![t] = "reply"] ELSE pc
  /\ UNCHANGED <<nextId, connections, principals, rooms, memberRooms, alive>>

(* The send raised (its peer is gone) or the iterator refused: the         *)
(* exception leaves the loop.  A handler ends with it; a subscriber task   *)
(* logs it and waits for its next message.                                 *)
CastRaises(t) ==
  /\ cast[t].phase = "run"
  /\ MayRefuse(cast[t]) \/ ~alive[cast[t].to]
  /\ IF t \in Ids
     THEN Finally(t)
     ELSE /\ cast' = [cast EXCEPT ![t] = NoCast]
          /\ UNCHANGED <<nextId, connections, principals, rooms, memberRooms, alive, pc>>

------------------------------------------------------------------------------
(* The environment: peers vanish, other workers' messages arrive.          *)

ClientDrop(c) ==
  /\ alive[c]
  /\ alive' = [alive EXCEPT ![c] = FALSE]
  /\ cast' = Observed(rooms, principals, alive')
  /\ UNCHANGED <<nextId, connections, principals, rooms, memberRooms, pc>>

SubscriberDelivers(s, target) ==
  /\ cast[s].phase # "run"
  /\ LoopFree /\ nextId <= MaxSubConns + 1
  /\ \E k \in Started(target, NoOne) : cast' = [cast EXCEPT ![s] = Kept(s, k)]
  /\ UNCHANGED <<nextId, connections, principals, rooms, memberRooms, alive, pc>>

Next ==
  \/ \E a \in Actors : Accept(a)
  \/ \E c \in Ids : Greet(c) \/ Reply(c) \/ RecvDisconnect(c) \/ RecvOther(c) \/ ClientDrop(c)
  \/ \E c \in Ids, r \in Rooms : RecvJoin(c, r) \/ RecvLeave(c, r) \/ RecvBroadcast(c, r)
  \/ \E c \in Ids, a \in Actors : RecvDirect(c, a)
  \/ \E t \in Tasks : CastGoesOn(t) \/ CastRaises(t)
  \/ \E s \in Subscribers, target \in Targets : SubscriberDelivers(s, target)

(* The event loop runs every handler whose await has returned.  A send to  *)
(* a peer that stopped reading returns too: the server's keepalive closes  *)
(* such a socket.  Clients owe nothing.                                    *)
HandlerStep(c) == Greet(c) \/ Reply(c) \/ RecvDisconnect(c) \/ CastGoesOn(c) \/ CastRaises(c)

Fairness == \A c \in Ids : WF_vars(HandlerStep(c))

Spec == Init /\ [][Next]_vars /\ Fairness

------------------------------------------------------------------------------
(* Properties.                                                             *)

(* Every variable keeps its shape, and a handler is suspended in a loop    *)
(* exactly when its program counter says so.                               *)
TypeOK ==
  /\ nextId \in 1..(MaxConns + 1)
  /\ connections \subseteq Ids
  /\ principals \in [Ids -> Actors \cup {NoActor}]
  /\ rooms \in [Rooms -> SUBSET Ids]
  /\ memberRooms \in [Ids -> SUBSET Rooms]
  /\ alive \in [Ids -> BOOLEAN]
  /\ pc \in [Ids -> {"absent", "greet", "recv", "reply", "cast", "closed", "leaked"}]
  /\ cast \in [Tasks -> CastType]
  /\ \A c \in Ids : cast[c].phase = "run" <=> pc[c] = "cast"

(* The two indexes of room membership say the same, and only registered    *)
(* connections, which have a principal, are in rooms: what disconnect      *)
(* relies on to leave every room, and room_presence to count everyone.     *)
IndexConsistent ==
  /\ \A c \in Ids, r \in Rooms : c \in rooms[r] <=> r \in memberRooms[c]
  /\ \A r \in Rooms : rooms[r] \subseteq connections
  /\ \A c \in Ids : c \in connections <=> principals[c] # NoActor

(* The hub holds exactly the connections whose handler still runs, and     *)
(* those whose greeting failed: a handler that ends any other way, by an   *)
(* exception inside its delivery to another client too, leaves nothing     *)
(* behind.  No id is in use before the hub has issued it.                  *)
RegisteredWhileHandled ==
  \A c \in Ids :
    /\ c \in connections <=> pc[c] \notin {"absent", "closed"}
    /\ nextId <= c => pc[c] = "absent"

(* A message is only ever handed to a connection that at that moment is    *)
(* registered and in the room (or has the actor id) addressed, and never   *)
(* to the sender, however the collection changed while the loop slept.     *)
ReceiversAddressed ==
  \A t \in Tasks : \A p \in cast'[t].got \ cast[t].got :
    LET target == cast'[t].target
    IN /\ p \in connections
       /\ IF target \in Rooms THEN p \in rooms[target] ELSE principals[p] = target
       /\ t \in Ids => p # t

SendsOnlyToAddressed == [][ReceiversAddressed]_vars

(* A loop during which nobody joined, left, connected, disconnected or     *)
(* died that it concerns ends normally, has sent the message to every      *)
(* other member (or every connection of the actor) and reports their       *)
(* number.                                                                 *)
QuietCastIsExact ==
  [][\A t \in Tasks :
       (cast[t].phase = "run" /\ cast'[t].phase # "run" /\ cast[t].quiet) =>
         /\ cast[t].got = cast[t].must
         /\ t \in Ids => /\ cast'[t].phase = "ok"
                        /\ cast'[t].delivered = Cardinality(cast[t].must)]_vars

(* A client that is gone after it was greeted is eventually deregistered,  *)
(* whatever its handler was doing.                                         *)
DroppedIsDeregistered ==
  \A c \in Ids :
    (pc[c] \in {"recv", "reply", "cast"} /\ ~alive[c]) ~> (c \notin connections)

(* docs/guides/realtime-websocket.md: of a broadcast, "Others in room get  *)
(* { event, room, payload, occurred_at }".  When a loop is over, whoever   *)
(* was in the room and alive all the time has got the message.             *)
OthersInRoomGetIt ==
  [][\A t \in Tasks :
       (cast[t].phase = "run" /\ cast'[t].phase # "run" /\ cast[t].target \in Rooms) =>
         cast[t].must \subseteq cast[t].got]_vars
=============================================================================
