--------------------------- MODULE SocketHubProofs ---------------------------
(***************************************************************************)
(* Proofs about SocketHub for every number of connections, rooms, actors   *)
(* and subscriber tasks: its type invariant, the agreement of the hub's    *)
(* indexes, that the hub holds exactly the connections being handled, that *)
(* a delivery loop never sends to a connection it is not meant for, and    *)
(* that an undisturbed one sends to all of those it is meant for.          *)
(***************************************************************************)
EXTENDS SocketHub, FiniteSetTheorems, TLAPS

(* The collection is as it was when the iterator last went on.            *)
Settled == {"clean", "moved"}

(* What a suspended loop owes to SendsOnlyToAddressed: a handler's loop    *)
(* excludes its own connection, and as long as nothing was added to or     *)
(* removed from the collection since the iterator last went on, everything *)
(* ahead of it is in it.                                                   *)
LoopsSound ==
  \A t \in Tasks : cast[t].phase = "run" =>
    /\ t \in Ids => cast[t].except = t
    /\ cast[t].target \in Targets
    /\ cast[t].obj \in Settled =>
         cast[t].todo \subseteq Iterated(cast[t].target, rooms, principals)

(* The inductive invariant.                                                *)
HubInv == TypeOK /\ IndexConsistent /\ RegisteredWhileHandled /\ LoopsSound

------------------------------------------------------------------------------
(* Lemmas about the operators of delivery loops.                           *)

(* The empty record is a loop record.                                      *)
LEMMA NoCastType == NoCast \in CastType /\ NoCast.phase = "none" /\ NoCast.got = {}
  BY DEF NoCast, CastType, NoOne

(* The collection a loop iterates over is a finite set of connections.     *)
LEMMA IteratedType ==
  ASSUME NEW rms \in [Rooms -> SUBSET Ids], NEW prs, NEW target
  PROVE  /\ Iterated(target, rms, prs) \subseteq Ids
         /\ IsFiniteSet(Iterated(target, rms, prs))
         /\ Cardinality(Iterated(target, rms, prs)) \in Nat
<1>1. Iterated(target, rms, prs) \subseteq Ids
  BY DEF Iterated
<1>2. IsFiniteSet(Ids)
  BY HubAssumption, FS_Interval DEF HubAssumption, Ids
<1>3. IsFiniteSet(Iterated(target, rms, prs))
  BY <1>1, <1>2, FS_Subset
<1> QED
  BY <1>1, <1>3, FS_CardinalityType

(* From the head of a loop: the record that results is again a loop record *)
(* with the same addressing, and the only new receiver is an addressed     *)
(* element that was ahead of the iterator.                                 *)
LEMMA HeadsFacts ==
  ASSUME TypeOK, NEW k \in CastType, k.phase = "run", NEW h \in Heads(k)
  PROVE  /\ h \in CastType
         /\ h.phase \in {"run", "ok"}
         /\ h.phase = "run" => /\ h.target = k.target
                               /\ h.except = k.except
                               /\ h.obj = k.obj
                               /\ h.todo \subseteq k.todo
         /\ h.phase = "ok" => h.got = {}
         /\ \A p \in h.got \ k.got :
              p \in k.todo /\ p \in Addressed(k.target, k.except, connections, principals)
<1> DEFINE ready == k.todo \cap Addressed(k.target, k.except, connections, principals)
<1>1. CASE ready = {} \/ k.delivered = Slots
  <2>1. h = [NoCast EXCEPT !.phase = "ok", !.delivered = k.delivered]
    BY <1>1 DEF Heads
  <2> QED
    BY <2>1 DEF CastType, NoCast, NoOne
<1>2. CASE ~(ready = {} \/ k.delivered = Slots)
  <2>1. PICK p \in ready : h = [k EXCEPT !.to = p, !.todo = @ \ {p}, !.got = @ \cup {p}]
    BY <1>2 DEF Heads
  <2>2. p \in Ids
    BY DEF CastType
  <2>3. /\ h \in CastType
        /\ h.phase = k.phase /\ h.target = k.target /\ h.except = k.except
        /\ h.obj = k.obj /\ h.todo = k.todo \ {p} /\ h.got = k.got \cup {p}
    BY <2>1, <2>2 DEF CastType
  <2> QED
    BY <2>3
<1> QED
  BY <1>1, <1>2

(* The loop record k once its send returned, with S ahead of the iterator. *)
Passed(k, S) == [k EXCEPT !.todo = S, !.obj = Onward(k), !.delivered = @ + 1]

(* A loop whose awaited send returned is a loop record again, with S ahead *)
(* of its iterator.                                                        *)
LEMMA DeliveredFacts ==
  ASSUME NEW k \in CastType, NEW S \in SUBSET Ids
  PROVE  /\ Passed(k, S) \in CastType
         /\ Passed(k, S).phase = k.phase /\ Passed(k, S).target = k.target
         /\ Passed(k, S).except = k.except /\ Passed(k, S).todo = S
         /\ Passed(k, S).obj = Onward(k) /\ Onward(k) \in Settled /\ Passed(k, S).got = k.got
<1>1. k.delivered + 1 \in Nat
  BY DEF CastType
<1>2. Onward(k) \in Settled /\ Onward(k) \in {"clean", "dirty", "moved", "gone"}
  BY DEF Onward, Settled
<1> QED
  BY <1>1, <1>2 DEF CastType, Passed

(* A new loop is a loop record that excludes whom it was told to exclude,  *)
(* has its whole collection ahead and sends to addressed elements only.    *)
LEMMA StartedFacts ==
  ASSUME TypeOK, NEW target \in Targets, NEW e \in Ids \cup {NoOne}, NEW h \in Started(target, e)
  PROVE  /\ h \in CastType
         /\ h.phase \in {"run", "ok"}
         /\ h.phase = "run" => /\ h.target = target
                               /\ h.except = e
                               /\ h.todo \subseteq Iterated(target, rooms, principals)
         /\ \A p \in h.got : /\ p \in Iterated(target, rooms, principals)
                             /\ p \in Addressed(target, e, connections, principals)
<1> DEFINE coll == Iterated(target, rooms, principals)
           addr == coll \cap Addressed(target, e, connections, principals)
           k == [phase |-> "run", target |-> target, except |-> e,
                 size0 |-> Cardinality(coll), todo |-> coll, to |-> NoOne,
                 obj |-> "clean", delivered |-> 0, got |-> {},
                 must |-> {c \in addr : alive[c]}, quiet |-> \A c \in addr : alive[c]]
<1>1. h \in Heads(k)
  BY DEF Started
<1>2. coll \subseteq Ids /\ Cardinality(coll) \in Nat
  BY IteratedType DEF TypeOK
<1>3. (\A c \in addr : alive[c]) \in BOOLEAN
  OBVIOUS
<1>4. k \in CastType
  BY <1>2, <1>3 DEF CastType
<1>5. k.phase = "run" /\ k.target = target /\ k.except = e /\ k.todo = coll /\ k.got = {}
  OBVIOUS
<1> HIDE DEF k, coll
<1> QED
  BY <1>1, <1>4, <1>5, HeadsFacts DEF coll

(* Observing a change of the hub keeps every loop's addressing and what it *)
(* sent; a loop that stays clean saw no change of its collection.          *)
LEMMA ObservedFacts ==
  ASSUME TypeOK, NEW rms \in [Rooms -> SUBSET Ids], NEW prs, NEW alv
  PROVE  /\ Observed(rms, prs, alv) \in [Tasks -> CastType]
         /\ \A t \in Tasks :
              LET o == Observed(rms, prs, alv)[t]
              IN /\ o.phase = cast[t].phase /\ o.target = cast[t].target
                 /\ o.except = cast[t].except /\ o.todo = cast[t].todo /\ o.got = cast[t].got
                 /\ (o.phase = "run" /\ o.obj \in Settled) =>
                      /\ cast[t].obj \in Settled
                      /\ Iterated(cast[t].target, rms, prs)
                           = Iterated(cast[t].target, rooms, principals)
<1> SUFFICES ASSUME NEW t \in Tasks
             PROVE  LET o == Observed(rms, prs, alv)[t]
                    IN /\ o \in CastType
                       /\ o.phase = cast[t].phase /\ o.target = cast[t].target
                       /\ o.except = cast[t].except /\ o.todo = cast[t].todo /\ o.got = cast[t].got
                       /\ (o.phase = "run" /\ o.obj \in Settled) =>
                            /\ cast[t].obj \in Settled
                            /\ Iterated(cast[t].target, rms, prs)
                                 = Iterated(cast[t].target, rooms, principals)
  BY DEF Observed
<1> DEFINE k == cast[t]
           old == Iterated(k.target, rooms, principals)
           new == Iterated(k.target, rms, prs)
           must == {c \in k.must \cap new : alv[c]}
           obj == IF k.obj = "gone" \/ (k.target \in Rooms /\ new = {}) THEN "gone"
                  ELSE IF new # old THEN "dirty" ELSE k.obj
           quiet == k.quiet /\ new = old /\ must = k.must
<1>1. k \in CastType
  BY DEF TypeOK
<1>2. CASE k.phase # "run"
  <2>1. Observed(rms, prs, alv)[t] = k
    BY <1>2 DEF Observed
  <2> QED
    BY <2>1, <1>1, <1>2
<1>3. CASE k.phase = "run"
  <2>1. Observed(rms, prs, alv)[t] = [k EXCEPT !.obj = obj, !.must = must, !.quiet = quiet]
    BY <1>3 DEF Observed
  <2>2. obj \in {"clean", "dirty", "moved", "gone"}
    BY <1>1 DEF CastType
  <2>3. must \in SUBSET Ids
    BY <1>1 DEF CastType
  <2>4. quiet \in BOOLEAN
    OBVIOUS
  <2>5. obj \in Settled => k.obj \in Settled /\ new = old
    BY DEF Settled
  <2> HIDE DEF obj, must, quiet
  <2>6. /\ Observed(rms, prs, alv)[t] \in CastType
        /\ Observed(rms, prs, alv)[t].phase = k.phase
        /\ Observed(rms, prs, alv)[t].target = k.target
        /\ Observed(rms, prs, alv)[t].except = k.except
        /\ Observed(rms, prs, alv)[t].todo = k.todo
        /\ Observed(rms, prs, alv)[t].got = k.got
        /\ Observed(rms, prs, alv)[t].obj = obj
    <3>1. Observed(rms, prs, alv)[t] = [k EXCEPT !.obj = obj, !.must = must, !.quiet = quiet]
      BY <1>1, <2>1
    <3> HIDE DEF k
    <3>2. [k EXCEPT !.obj = obj, !.must = must, !.quiet = quiet] \in CastType
      BY <1>1, <2>2, <2>3, <2>4 DEF CastType
    <3>3. DOMAIN k = {"phase", "target", "except", "size0", "todo", "to", "obj", "delivered",
                      "got", "must", "quiet"}
      BY <1>1 DEF CastType
    <3> QED
      BY <3>1, <3>2, <3>3
  <2> QED
    BY <2>5, <2>6
<1> QED
  BY <1>2, <1>3, ZenonT(20)

(* A step that leaves every loop either as Observed says or finished keeps *)
(* the loops' type and soundness, and sends nothing.                       *)
LEMMA ObservedKeepsLoops ==
  ASSUME HubInv, rooms' \in [Rooms -> SUBSET Ids],
         NEW D \in SUBSET Tasks,
         cast' = [t \in Tasks |->
                    IF t \in D THEN NoCast ELSE Observed(rooms', principals', alive')[t]]
  PROVE  /\ cast' \in [Tasks -> CastType]
         /\ LoopsSound'
         /\ \A t \in Tasks \ D : cast'[t].phase = cast[t].phase
         /\ ReceiversAddressed
<1> DEFINE o == Observed(rooms', principals', alive')
<1>1. /\ o \in [Tasks -> CastType]
      /\ \A t \in Tasks :
           /\ o[t].phase = cast[t].phase /\ o[t].target = cast[t].target
           /\ o[t].except = cast[t].except /\ o[t].todo = cast[t].todo /\ o[t].got = cast[t].got
           /\ (o[t].phase = "run" /\ o[t].obj \in Settled) =>
                /\ cast[t].obj \in Settled
                /\ Iterated(cast[t].target, rooms', principals')
                     = Iterated(cast[t].target, rooms, principals)
  BY ObservedFacts DEF HubInv
<1>2. cast' = [t \in Tasks |-> IF t \in D THEN NoCast ELSE o[t]]
  OBVIOUS
<1> HIDE DEF o
<1>3. cast' \in [Tasks -> CastType]
  BY <1>1, <1>2, NoCastType
<1>4. \A t \in Tasks \ D : cast'[t] = o[t]
  BY <1>2
<1>5. \A t \in D : cast'[t].phase = "none" /\ cast'[t].got = {}
  BY <1>2, NoCastType
<1>6. LoopsSound'
  <2> SUFFICES ASSUME NEW t \in Tasks, cast'[t].phase = "run"
               PROVE  /\ t \in Ids => cast'[t].except = t
                      /\ cast'[t].target \in Targets
                      /\ cast'[t].obj \in Settled =>
                           cast'[t].todo \subseteq Iterated(cast'[t].target, rooms', principals')
    BY DEF LoopsSound
  <2>1. cast'[t] = o[t]
    BY <1>4, <1>5
  <2>2. cast[t].phase = "run"
    BY <1>1, <2>1
  <2>3. /\ t \in Ids => cast[t].except = t
        /\ cast[t].target \in Targets
        /\ cast[t].obj \in Settled =>
             cast[t].todo \subseteq Iterated(cast[t].target, rooms, principals)
    BY <2>2 DEF HubInv, LoopsSound
  <2>4. cast'[t].except = cast[t].except /\ cast'[t].target = cast[t].target
        /\ cast'[t].todo = cast[t].todo
    BY <1>1, <2>1
  <2>5. cast'[t].obj \in Settled =>
          /\ cast[t].obj \in Settled
          /\ Iterated(cast[t].target, rooms', principals')
               = Iterated(cast[t].target, rooms, principals)
    BY <1>1, <2>1, <2>2
  <2> QED
    BY <2>3, <2>4, <2>5
<1>7. ReceiversAddressed
  <2>1. \A t \in Tasks : o[t].got = cast[t].got
    BY <1>1
  <2>2. \A t \in Tasks : cast'[t].got \ cast[t].got = {}
    BY <1>4, <1>5, <2>1
  <2> QED
    BY <2>2 DEF ReceiversAddressed
<1> QED
  BY <1>1, <1>3, <1>4, <1>6, <1>7

(* The same for a step in which no loop ends.                              *)
LEMMA ObservedKeepsAllLoops ==
  ASSUME HubInv, rooms' \in [Rooms -> SUBSET Ids],
         cast' = Observed(rooms', principals', alive')
  PROVE  /\ cast' \in [Tasks -> CastType]
         /\ LoopsSound'
         /\ \A t \in Tasks : cast'[t].phase = cast[t].phase
         /\ ReceiversAddressed
<1>1. cast' = [t \in Tasks |->
                 IF t \in {} THEN NoCast ELSE Observed(rooms', principals', alive')[t]]
  BY DEF Observed
<1> DEFINE D == {}
<1>2. D \in SUBSET Tasks /\ Tasks \ D = Tasks
  OBVIOUS
<1>3. cast' = [t \in Tasks |->
                 IF t \in D THEN NoCast ELSE Observed(rooms', principals', alive')[t]]
  BY <1>1
<1> HIDE DEF D
<1>4. /\ cast' \in [Tasks -> CastType]
      /\ LoopsSound'
      /\ \A t \in Tasks \ D : cast'[t].phase = cast[t].phase
      /\ ReceiversAddressed
  BY <1>2, <1>3, ObservedKeepsLoops
<1> QED
  BY <1>2, <1>4

(* The finally clause of a handler that was suspended somewhere keeps the  *)
(* invariant and sends nothing.                                            *)
LEMMA FinallyKeepsInv ==
  ASSUME HubInv, NEW c \in Ids, pc[c] # "absent", Finally(c)
  PROVE  HubInv' /\ ReceiversAddressed
<1>1. c \in Tasks
  BY DEF Tasks
<1>2. rooms' \in [Rooms -> SUBSET Ids]
  BY DEF Finally, Disconnect, HubInv, TypeOK
<1>3. cast' = [t \in Tasks |->
                 IF t \in {c} THEN NoCast ELSE Observed(rooms', principals', alive')[t]]
  BY <1>1 DEF Finally, Disconnect, Observed
<1>4. /\ cast' \in [Tasks -> CastType]
      /\ LoopsSound'
      /\ \A t \in Tasks \ {c} : cast'[t].phase = cast[t].phase
      /\ ReceiversAddressed
  BY <1>1, <1>2, <1>3, ObservedKeepsLoops
<1>5. cast'[c].phase = "none"
  BY <1>1, <1>3, NoCastType
<1>6. TypeOK'
  <2>1. /\ nextId' = nextId /\ connections' \subseteq Ids
        /\ principals' \in [Ids -> Actors \cup {NoActor}]
        /\ memberRooms' \in [Ids -> SUBSET Rooms]
        /\ alive' \in [Ids -> BOOLEAN]
        /\ pc' \in [Ids -> {"absent", "greet", "recv", "reply", "cast", "closed", "leaked"}]
    BY DEF Finally, Disconnect, HubInv, TypeOK
  <2>2. \A d \in Ids : cast'[d].phase = "run" <=> pc'[d] = "cast"
    <3> SUFFICES ASSUME NEW d \in Ids PROVE cast'[d].phase = "run" <=> pc'[d] = "cast"
      OBVIOUS
    <3>1. (cast[d].phase = "run" <=> pc[d] = "cast") /\ pc' = [pc EXCEPT ![c] = "closed"]
          /\ d \in DOMAIN pc /\ d \in Tasks
      BY DEF Finally, HubInv, TypeOK, Tasks
    <3>2. CASE d = c
      BY <1>5, <3>1, <3>2
    <3>3. CASE d # c
      BY <1>4, <3>1, <3>3
    <3> QED
      BY <3>2, <3>3
  <2> QED
    BY <1>2, <1>4, <2>1, <2>2 DEF HubInv, TypeOK
<1>7. IndexConsistent'
  <2>1. /\ connections' = connections \ {c}
        /\ principals' = [principals EXCEPT ![c] = NoActor]
        /\ memberRooms' = [memberRooms EXCEPT ![c] = {}]
        /\ DOMAIN principals = Ids /\ DOMAIN memberRooms = Ids
    BY DEF Finally, Disconnect, HubInv, TypeOK
  <2>2. \A r \in Rooms : rooms'[r] = rooms[r] \ {c}
    <3> SUFFICES ASSUME NEW r \in Rooms PROVE rooms'[r] = rooms[r] \ {c}
      OBVIOUS
    <3>1. c \in rooms[r] <=> r \in memberRooms[c]
      BY DEF HubInv, IndexConsistent
    <3>2. rooms'[r] = IF r \in memberRooms[c] THEN rooms[r] \ {c} ELSE rooms[r]
      BY DEF Finally, Disconnect
    <3> QED
      BY <3>1, <3>2
  <2>3. /\ \A d \in Ids, r \in Rooms : d \in rooms[r] <=> r \in memberRooms[d]
        /\ \A r \in Rooms : rooms[r] \subseteq connections
        /\ \A d \in Ids : d \in connections <=> principals[d] # NoActor
    BY DEF HubInv, IndexConsistent
  <2>4. \A d \in Ids, r \in Rooms : d \in rooms'[r] <=> r \in memberRooms'[d]
    BY <2>1, <2>2, <2>3
  <2>5. \A r \in Rooms : rooms'[r] \subseteq connections'
    BY <2>1, <2>2, <2>3
  <2>6. \A d \in Ids : d \in connections' <=> principals'[d] # NoActor
    BY <2>1, <2>3
  <2> QED
    BY <2>4, <2>5, <2>6 DEF IndexConsistent
<1>8. RegisteredWhileHandled'
  BY DEF Finally, Disconnect, HubInv, TypeOK, RegisteredWhileHandled
<1> QED
  BY <1>4, <1>6, <1>7, <1>8 DEF HubInv

(* A handler that starts a delivery loop keeps the invariant and sends to  *)
(* an addressed connection or to nobody.                                   *)
LEMMA StartCastKeepsInv ==
  ASSUME HubInv, NEW c \in Ids, NEW target \in Targets, pc[c] = "recv", StartCast(c, target)
  PROVE  HubInv' /\ ReceiversAddressed
<1>1. c \in Tasks
  BY DEF Tasks
<1>2. PICK k \in Started(target, c) :
        /\ cast' = [cast EXCEPT ![c] = k]
        /\ pc' = [pc EXCEPT ![c] = IF k.phase = "run" THEN "cast" ELSE "reply"]
  BY DEF StartCast
<1>3. UNCHANGED <<nextId, connections, principals, rooms, memberRooms, alive>>
  BY DEF StartCast
<1>4. /\ k \in CastType
      /\ k.phase \in {"run", "ok"}
      /\ k.phase = "run" => /\ k.target = target
                            /\ k.except = c
                            /\ k.todo \subseteq Iterated(target, rooms, principals)
      /\ \A p \in k.got : /\ p \in Iterated(target, rooms, principals)
                          /\ p \in Addressed(target, c, connections, principals)
  BY <1>2, StartedFacts DEF HubInv
<1>5. k.phase = "ok" => k.got = {}
  BY <1>2 DEF Started, Heads, NoCast
<1>6. TypeOK'
  BY <1>1, <1>2, <1>3, <1>4 DEF HubInv, TypeOK
<1>7. IndexConsistent'
  BY <1>3 DEF HubInv, IndexConsistent
<1>8. RegisteredWhileHandled'
  BY <1>2, <1>3 DEF HubInv, TypeOK, RegisteredWhileHandled
<1>9. LoopsSound'
  <2> SUFFICES ASSUME NEW t \in Tasks, cast'[t].phase = "run"
               PROVE  /\ t \in Ids => cast'[t].except = t
                      /\ cast'[t].target \in Targets
                      /\ cast'[t].obj \in Settled =>
                           cast'[t].todo \subseteq Iterated(cast'[t].target, rooms', principals')
    BY DEF LoopsSound
  <2>1. CASE t = c
    BY <1>1, <1>2, <1>3, <1>4, <2>1 DEF HubInv, TypeOK
  <2>2. CASE t # c
    BY <1>2, <1>3, <2>2 DEF HubInv, TypeOK, LoopsSound
  <2> QED
    BY <2>1, <2>2
<1>10. ReceiversAddressed
  <2> SUFFICES ASSUME NEW t \in Tasks, NEW p \in cast'[t].got \ cast[t].got
               PROVE  /\ p \in connections
                      /\ IF cast'[t].target \in Rooms THEN p \in rooms[cast'[t].target]
                         ELSE principals[p] = cast'[t].target
                      /\ t \in Ids => p # t
    BY DEF ReceiversAddressed
  <2>1. t = c /\ cast'[t] = k
    BY <1>1, <1>2 DEF HubInv, TypeOK
  <2>2. k.phase = "run" /\ k.target = target
    BY <1>4, <1>5, <2>1
  <2> QED
    BY <1>4, <2>1, <2>2 DEF Addressed, Iterated, Targets
<1> QED
  BY <1>6, <1>7, <1>8, <1>9, <1>10 DEF HubInv

(* A loop that goes on keeps the invariant: what is ahead of its iterator  *)
(* is in the collection, and so is the connection it sends to next.        *)
LEMMA CastGoesOnKeepsInv ==
  ASSUME HubInv, NEW t \in Tasks, CastGoesOn(t)
  PROVE  HubInv' /\ ReceiversAddressed
<1> DEFINE target == cast[t].target
<1>1. cast[t].phase = "run" /\ MayGoOn(cast[t])
  BY DEF CastGoesOn
<1>2. PICK k \in Resumed(cast[t]) :
        /\ cast' = [cast EXCEPT ![t] = Kept(t, k)]
        /\ pc' = IF t \in Ids /\ k.phase = "ok" THEN [pc EXCEPT ![t] = "reply"] ELSE pc
  BY DEF CastGoesOn
<1>3. UNCHANGED <<nextId, connections, principals, rooms, memberRooms, alive>>
  BY DEF CastGoesOn
<1>4. PICK S \in Ahead(cast[t]) :
        k \in Heads([cast[t] EXCEPT !.todo = S, !.obj = Onward(cast[t]), !.delivered = @ + 1])
  BY <1>2 DEF Resumed
<1> DEFINE h == Passed(cast[t], S)
<1>5. cast[t] \in CastType
  BY DEF HubInv, TypeOK
<1>6. S \subseteq Iterated(target, rooms, principals)
  <2>1. CASE cast[t].obj = "dirty"
    BY <1>4, <2>1 DEF Ahead
  <2>2. CASE cast[t].obj # "dirty"
    <3>1. cast[t].obj \in Settled
      BY <1>1, <1>5, <2>2 DEF MayGoOn, CastType, Settled
    <3>2. S = cast[t].todo
      BY <1>4, <2>2 DEF Ahead
    <3> QED
      BY <1>1, <3>1, <3>2 DEF HubInv, LoopsSound
  <2> QED
    BY <2>1, <2>2
<1>7. S \subseteq Ids
  BY <1>6, IteratedType DEF HubInv, TypeOK
<1>8. /\ h \in CastType
      /\ h.phase = "run" /\ h.target = target /\ h.except = cast[t].except
      /\ h.todo = S /\ h.obj \in Settled /\ h.got = cast[t].got
  BY <1>1, <1>5, <1>7, DeliveredFacts
<1>9. k \in Heads(h)
  BY <1>4 DEF Passed
<1> HIDE DEF h
<1>10. /\ k \in CastType
       /\ k.phase \in {"run", "ok"}
       /\ k.phase = "run" => /\ k.target = target
                             /\ k.except = cast[t].except
                             /\ k.obj \in Settled
                             /\ k.todo \subseteq S
       /\ \A p \in k.got \ cast[t].got :
            p \in S /\ p \in Addressed(target, cast[t].except, connections, principals)
  BY <1>8, <1>9, HeadsFacts DEF HubInv
<1>11. k.phase = "ok" => k.got = {}
  BY <1>8, <1>9, HeadsFacts DEF HubInv
<1>12. /\ Kept(t, k) \in CastType
       /\ Kept(t, k).phase = "run" => Kept(t, k) = k
       /\ Kept(t, k).phase # "run" => Kept(t, k).got = {}
       /\ t \in Ids => Kept(t, k) = k
       /\ Kept(t, k).phase = "run" <=> k.phase = "run"
  BY <1>10, <1>11, NoCastType, HubAssumption DEF Kept, HubAssumption
<1>13. cast'[t] = Kept(t, k) /\ \A u \in Tasks \ {t} : cast'[u] = cast[u]
  BY <1>2 DEF HubInv, TypeOK
<1>14. cast' \in [Tasks -> CastType]
  BY <1>2, <1>12 DEF HubInv, TypeOK
<1>15. TypeOK'
  <2>1. \A c \in Ids : cast'[c].phase = "run" <=> pc'[c] = "cast"
    BY <1>1, <1>2, <1>10, <1>12, <1>13 DEF HubInv, TypeOK, Tasks
  <2>2. pc' \in [Ids -> {"absent", "greet", "recv", "reply", "cast", "closed", "leaked"}]
    BY <1>2 DEF HubInv, TypeOK
  <2> QED
    BY <1>3, <1>14, <2>1, <2>2 DEF HubInv, TypeOK
<1>16. IndexConsistent'
  BY <1>3 DEF HubInv, IndexConsistent
<1>17. RegisteredWhileHandled'
  BY <1>1, <1>2, <1>3 DEF HubInv, TypeOK, RegisteredWhileHandled
<1>18. LoopsSound'
  <2> SUFFICES ASSUME NEW u \in Tasks, cast'[u].phase = "run"
               PROVE  /\ u \in Ids => cast'[u].except = u
                      /\ cast'[u].target \in Targets
                      /\ cast'[u].obj \in Settled =>
                           cast'[u].todo \subseteq Iterated(cast'[u].target, rooms', principals')
    BY DEF LoopsSound
  <2>1. CASE u = t
    BY <1>1, <1>3, <1>6, <1>10, <1>12, <1>13, <2>1 DEF HubInv, LoopsSound
  <2>2. CASE u # t
    BY <1>3, <1>13, <2>2 DEF HubInv, LoopsSound
  <2> QED
    BY <2>1, <2>2
<1>19. ReceiversAddressed
  <2> SUFFICES ASSUME NEW u \in Tasks, NEW p \in cast'[u].got \ cast[u].got
               PROVE  /\ p \in connections
                      /\ IF cast'[u].target \in Rooms THEN p \in rooms[cast'[u].target]
                         ELSE principals[p] = cast'[u].target
                      /\ u \in Ids => p # u
    BY DEF ReceiversAddressed
  <2>1. u = t /\ cast'[t] = k /\ k.phase = "run"
    BY <1>12, <1>13
  <2>2. /\ p \in Iterated(target, rooms, principals)
        /\ p \in Addressed(target, cast[t].except, connections, principals)
    BY <1>6, <1>10, <2>1
  <2>3. target \in Targets /\ (t \in Ids => cast[t].except = t)
    BY <1>1 DEF HubInv, LoopsSound
  <2> QED
    BY <1>10, <2>1, <2>2, <2>3 DEF Addressed, Iterated, Targets
<1> QED
  BY <1>15, <1>16, <1>17, <1>18, <1>19 DEF HubInv

------------------------------------------------------------------------------
(* The invariant, initially and over every action.                         *)

LEMMA InitInv == Init => HubInv
<1> SUFFICES ASSUME Init PROVE HubInv
  OBVIOUS
<1> USE DEF Init
<1>1. TypeOK
  BY NoCastType, HubAssumption DEF TypeOK, HubAssumption, Tasks
<1>2. IndexConsistent
  BY DEF IndexConsistent
<1>3. RegisteredWhileHandled
  BY DEF RegisteredWhileHandled
<1>4. LoopsSound
  BY NoCastType DEF LoopsSound
<1> QED
  BY <1>1, <1>2, <1>3, <1>4 DEF HubInv

(* A connection is accepted: the only new registration is the one greeted. *)
LEMMA AcceptKeepsInv ==
  ASSUME HubInv, NEW a \in Actors, Accept(a)
  PROVE  HubInv' /\ ReceiversAddressed
<1> USE DEF Accept, Register
<1>1. nextId \in Ids /\ a # NoActor
  BY HubAssumption DEF HubAssumption, HubInv, TypeOK, Ids
<1>2. rooms' \in [Rooms -> SUBSET Ids] /\ cast' = Observed(rooms', principals', alive')
  BY DEF HubInv, TypeOK
<1>3. /\ cast' \in [Tasks -> CastType] /\ LoopsSound'
      /\ \A t \in Tasks : cast'[t].phase = cast[t].phase
      /\ ReceiversAddressed
  BY <1>2, ObservedKeepsAllLoops
<1>4. pc[nextId] # "cast"
  BY <1>1 DEF HubInv, TypeOK, RegisteredWhileHandled
<1>5. TypeOK'
  <2>1. /\ connections' \subseteq Ids /\ principals' \in [Ids -> Actors \cup {NoActor}]
        /\ alive' \in [Ids -> BOOLEAN] /\ memberRooms' \in [Ids -> SUBSET Rooms]
        /\ pc' \in [Ids -> {"absent", "greet", "recv", "reply", "cast", "closed", "leaked"}]
    BY <1>1 DEF HubInv, TypeOK
  <2>2. nextId' \in 1..(MaxConns + 1)
    BY HubAssumption DEF HubAssumption, HubInv, TypeOK
  <2>3. \A c \in Ids : cast'[c].phase = "run" <=> pc'[c] = "cast"
    BY <1>1, <1>3, <1>4 DEF HubInv, TypeOK, Tasks
  <2> QED
    BY <1>2, <1>3, <2>1, <2>2, <2>3 DEF TypeOK
<1>6. IndexConsistent'
  BY <1>1 DEF HubInv, TypeOK, IndexConsistent
<1>7. RegisteredWhileHandled'
  <2> SUFFICES ASSUME NEW c \in Ids
               PROVE  /\ c \in connections' <=> pc'[c] \notin {"absent", "closed"}
                      /\ nextId' <= c => pc'[c] = "absent"
    BY DEF RegisteredWhileHandled
  <2>1. /\ connections' = connections \cup {nextId}
        /\ pc' = [pc EXCEPT ![nextId] = "greet"]
        /\ nextId' = nextId + 1
    OBVIOUS
  <2>2. /\ c \in connections <=> pc[c] \notin {"absent", "closed"}
        /\ nextId <= c => pc[c] = "absent"
        /\ nextId \in Int /\ c \in Int /\ DOMAIN pc = Ids
    BY DEF HubInv, TypeOK, RegisteredWhileHandled, Ids
  <2>3. CASE c = nextId
    BY <2>1, <2>2, <2>3
  <2>4. CASE c # nextId
    BY <2>1, <2>2, <2>4
  <2> QED
    BY <2>3, <2>4
<1> QED
  BY <1>3, <1>5, <1>6, <1>7 DEF HubInv

(* Joining and leaving a room keep the two indexes in step.                *)
LEMMA JoinLeaveKeepInv ==
  ASSUME HubInv, NEW c \in Ids, NEW r \in Rooms, RecvJoin(c, r) \/ RecvLeave(c, r)
  PROVE  HubInv' /\ ReceiversAddressed
<1>1. /\ pc[c] = "recv" /\ pc' = [pc EXCEPT ![c] = "reply"]
      /\ cast' = Observed(rooms', principals', alive')
      /\ UNCHANGED <<nextId, connections, principals, alive>>
      /\ JoinRoom(r, c) \/ LeaveRoom(r, c)
  BY DEF RecvJoin, RecvLeave, Receives
<1>2. rooms' \in [Rooms -> SUBSET Ids] /\ memberRooms' \in [Ids -> SUBSET Rooms]
  BY <1>1 DEF JoinRoom, LeaveRoom, HubInv, TypeOK
<1>3. /\ cast' \in [Tasks -> CastType] /\ LoopsSound'
      /\ \A t \in Tasks : cast'[t].phase = cast[t].phase
      /\ ReceiversAddressed
  BY <1>1, <1>2, ObservedKeepsAllLoops
<1>4. TypeOK'
  BY <1>1, <1>2, <1>3 DEF HubInv, TypeOK, Tasks
<1>5. IndexConsistent'
  BY <1>1 DEF JoinRoom, LeaveRoom, HubInv, TypeOK, IndexConsistent
<1>6. RegisteredWhileHandled'
  BY <1>1 DEF HubInv, TypeOK, RegisteredWhileHandled
<1> QED
  BY <1>3, <1>4, <1>5, <1>6 DEF HubInv

(* A reply that returns takes its handler back to receive_text.            *)
LEMMA ReplyKeepsInv ==
  ASSUME HubInv, NEW c \in Ids, Reply(c)
  PROVE  HubInv' /\ ReceiversAddressed
<1>1. CASE Finally(c)
  BY <1>1, FinallyKeepsInv DEF Reply
<1>2. CASE ~Finally(c)
  <2>1. /\ pc[c] = "reply" /\ pc' = [pc EXCEPT ![c] = "recv"]
        /\ cast' = [cast EXCEPT ![c] = NoCast]
        /\ UNCHANGED <<nextId, connections, principals, rooms, memberRooms, alive>>
    BY <1>2 DEF Reply
  <2>2. TypeOK'
    BY <2>1, NoCastType DEF HubInv, TypeOK, Tasks
  <2>3. IndexConsistent' /\ RegisteredWhileHandled'
    BY <2>1 DEF HubInv, TypeOK, IndexConsistent, RegisteredWhileHandled
  <2>4. \A t \in Tasks : cast'[t] = cast[t] \/ cast'[t] = NoCast
    BY <2>1 DEF HubInv, TypeOK
  <2>5. LoopsSound'
    BY <2>1, <2>4, NoCastType DEF HubInv, LoopsSound, Iterated
  <2>6. ReceiversAddressed
    BY <2>4, NoCastType DEF ReceiversAddressed
  <2> QED
    BY <2>2, <2>3, <2>5, <2>6 DEF HubInv
<1> QED
  BY <1>1, <1>2

(* An exception in a loop ends a handler, or only the subscriber's loop.   *)
LEMMA CastRaisesKeepsInv ==
  ASSUME HubInv, NEW t \in Tasks, CastRaises(t)
  PROVE  HubInv' /\ ReceiversAddressed
<1>1. CASE t \in Ids
  <2>1. pc[t] = "cast" /\ Finally(t)
    BY <1>1 DEF CastRaises, HubInv, TypeOK
  <2> QED
    BY <1>1, <2>1, FinallyKeepsInv
<1>2. CASE t \notin Ids
  <2>1. /\ cast' = [cast EXCEPT ![t] = NoCast]
        /\ UNCHANGED <<nextId, connections, principals, rooms, memberRooms, alive, pc>>
    BY <1>2 DEF CastRaises
  <2>2. \A u \in Tasks : cast'[u] = cast[u] \/ (u = t /\ cast'[u] = NoCast)
    BY <2>1 DEF HubInv, TypeOK
  <2>3. TypeOK'
    BY <1>2, <2>1, <2>2, NoCastType DEF HubInv, TypeOK, Tasks
  <2>4. IndexConsistent' /\ RegisteredWhileHandled'
    BY <2>1 DEF HubInv, IndexConsistent, RegisteredWhileHandled
  <2>5. LoopsSound'
    BY <2>1, <2>2, NoCastType DEF HubInv, LoopsSound, Iterated
  <2>6. ReceiversAddressed
    BY <2>2, NoCastType DEF ReceiversAddressed
  <2> QED
    BY <2>3, <2>4, <2>5, <2>6 DEF HubInv
<1> QED
  BY <1>1, <1>2

(* A peer that vanishes changes nothing the hub knows.                     *)
LEMMA ClientDropKeepsInv ==
  ASSUME HubInv, NEW c \in Ids, ClientDrop(c)
  PROVE  HubInv' /\ ReceiversAddressed
<1> USE DEF ClientDrop
<1>1. rooms' \in [Rooms -> SUBSET Ids] /\ cast' = Observed(rooms', principals', alive')
  BY DEF HubInv, TypeOK
<1>2. /\ cast' \in [Tasks -> CastType] /\ LoopsSound'
      /\ \A t \in Tasks : cast'[t].phase = cast[t].phase
      /\ ReceiversAddressed
  BY <1>1, ObservedKeepsAllLoops
<1>3. TypeOK'
  BY <1>1, <1>2 DEF HubInv, TypeOK, Tasks
<1>4. IndexConsistent' /\ RegisteredWhileHandled'
  BY DEF HubInv, IndexConsistent, RegisteredWhileHandled
<1> QED
  BY <1>2, <1>3, <1>4 DEF HubInv

(* A subscriber task that starts a loop sends to addressed connections.    *)
LEMMA SubscriberDeliversKeepsInv ==
  ASSUME HubInv, NEW s \in Subscribers, NEW target \in Targets, SubscriberDelivers(s, target)
  PROVE  HubInv' /\ ReceiversAddressed
<1>1. s \in Tasks /\ s \notin Ids
  BY HubAssumption DEF HubAssumption, Tasks
<1>2. PICK k \in Started(target, NoOne) : cast' = [cast EXCEPT ![s] = Kept(s, k)]
  BY DEF SubscriberDelivers
<1>3. UNCHANGED <<nextId, connections, principals, rooms, memberRooms, alive, pc>>
  BY DEF SubscriberDelivers
<1>4. /\ k \in CastType
      /\ k.phase \in {"run", "ok"}
      /\ k.phase = "run" => /\ k.target = target
                            /\ k.todo \subseteq Iterated(target, rooms, principals)
      /\ \A p \in k.got : /\ p \in Iterated(target, rooms, principals)
                          /\ p \in Addressed(target, NoOne, connections, principals)
  BY <1>2, StartedFacts DEF HubInv
<1> DEFINE h == Kept(s, k)
<1>5. h \in CastType /\ ((h = k /\ k.phase = "run") \/ (h.phase = "none" /\ h.got = {}))
  <2>1. CASE k.phase = "ok"
    BY <2>1, NoCastType DEF Kept
  <2>2. CASE k.phase = "run"
    BY <1>4, <2>2 DEF Kept
  <2> QED
    BY <1>4, <2>1, <2>2
<1>6. cast' = [cast EXCEPT ![s] = h]
  BY <1>2
<1> HIDE DEF h
<1>7. cast'[s] = h /\ \A t \in Tasks \ {s} : cast'[t] = cast[t]
  BY <1>1, <1>6 DEF HubInv, TypeOK
<1>8. TypeOK'
  BY <1>1, <1>3, <1>5, <1>6, <1>7 DEF HubInv, TypeOK, Tasks
<1>9. IndexConsistent' /\ RegisteredWhileHandled'
  BY <1>3 DEF HubInv, IndexConsistent, RegisteredWhileHandled
<1>10. LoopsSound'
  <2> SUFFICES ASSUME NEW t \in Tasks, cast'[t].phase = "run"
               PROVE  /\ t \in Ids => cast'[t].except = t
                      /\ cast'[t].target \in Targets
                      /\ cast'[t].obj \in Settled =>
                           cast'[t].todo \subseteq Iterated(cast'[t].target, rooms', principals')
    BY DEF LoopsSound
  <2>1. CASE t = s
    BY <1>1, <1>3, <1>4, <1>5, <1>7, <2>1
  <2>2. CASE t # s
    BY <1>3, <1>7, <2>2 DEF HubInv, LoopsSound
  <2> QED
    BY <2>1, <2>2
<1>11. ReceiversAddressed
  BY <1>1, <1>4, <1>5, <1>7 DEF ReceiversAddressed, Addressed, Iterated, Targets
<1> QED
  BY <1>8, <1>9, <1>10, <1>11 DEF HubInv

LEMMA StepInv == HubInv /\ [Next]_vars => HubInv' /\ (ReceiversAddressed \/ UNCHANGED vars)
<1> SUFFICES ASSUME HubInv, [Next]_vars
             PROVE  HubInv' /\ (ReceiversAddressed \/ UNCHANGED vars)
  OBVIOUS
<1>1. ASSUME NEW a \in Actors, Accept(a) PROVE HubInv' /\ ReceiversAddressed
  BY <1>1, AcceptKeepsInv
<1>2. ASSUME NEW c \in Ids, Greet(c) \/ RecvOther(c) PROVE HubInv' /\ ReceiversAddressed
  <2>1. /\ pc[c] \in {"greet", "recv"}
        /\ \E there \in {"recv", "leaked", "reply"} : pc' = [pc EXCEPT ![c] = there]
        /\ UNCHANGED <<nextId, connections, principals, rooms, memberRooms, alive, cast>>
    BY <1>2 DEF Greet, RecvOther, Receives
  <2>2. TypeOK'
    BY <2>1 DEF HubInv, TypeOK
  <2>3. IndexConsistent' /\ RegisteredWhileHandled'
    BY <2>1 DEF HubInv, TypeOK, IndexConsistent, RegisteredWhileHandled
  <2>4. LoopsSound'
    BY <2>1 DEF HubInv, LoopsSound, Iterated
  <2>5. ReceiversAddressed
    BY <2>1 DEF ReceiversAddressed
  <2> QED
    BY <2>2, <2>3, <2>4, <2>5 DEF HubInv
<1>3. ASSUME NEW c \in Ids, Reply(c) PROVE HubInv' /\ ReceiversAddressed
  BY <1>3, ReplyKeepsInv
<1>4. ASSUME NEW c \in Ids, RecvDisconnect(c) PROVE HubInv' /\ ReceiversAddressed
  BY <1>4, FinallyKeepsInv DEF RecvDisconnect
<1>5. ASSUME NEW c \in Ids, ClientDrop(c) PROVE HubInv' /\ ReceiversAddressed
  BY <1>5, ClientDropKeepsInv
<1>6. ASSUME NEW c \in Ids, NEW r \in Rooms, RecvJoin(c, r) \/ RecvLeave(c, r)
      PROVE  HubInv' /\ ReceiversAddressed
  BY <1>6, JoinLeaveKeepInv
<1>7. ASSUME NEW c \in Ids, NEW r \in Rooms, RecvBroadcast(c, r)
      PROVE  HubInv' /\ ReceiversAddressed
  BY <1>7, StartCastKeepsInv DEF RecvBroadcast, Receives, Targets
<1>8. ASSUME NEW c \in Ids, NEW a \in Actors, RecvDirect(c, a)
      PROVE  HubInv' /\ ReceiversAddressed
  BY <1>8, StartCastKeepsInv DEF RecvDirect, Receives, Targets
<1>9. ASSUME NEW t \in Tasks, CastGoesOn(t) PROVE HubInv' /\ ReceiversAddressed
  BY <1>9, CastGoesOnKeepsInv
<1>10. ASSUME NEW t \in Tasks, CastRaises(t) PROVE HubInv' /\ ReceiversAddressed
  BY <1>10, CastRaisesKeepsInv
<1>11. ASSUME NEW s \in Subscribers, NEW target \in Targets, SubscriberDelivers(s, target)
       PROVE  HubInv' /\ ReceiversAddressed
  BY <1>11, SubscriberDeliversKeepsInv
<1>12. CASE UNCHANGED vars
  BY <1>12 DEF vars, HubInv, TypeOK, IndexConsistent, RegisteredWhileHandled, LoopsSound, Iterated
<1> QED
  BY <1>1, <1>2, <1>3, <1>4, <1>5, <1>6, <1>7, <1>8, <1>9, <1>10, <1>11, <1>12 DEF Next

------------------------------------------------------------------------------
(* The theorems.                                                           *)

LEMMA SpecInv == Spec => []HubInv
<1>1. HubInv /\ [Next]_vars => HubInv'
  BY StepInv
<1> QED
  BY InitInv, <1>1, PTL DEF Spec

(* Every variable of the hub, its handlers and their loops keeps its type, *)
(* and a handler is in a delivery loop exactly when it says so.            *)
THEOREM HubTypeOK == Spec => []TypeOK
<1>1. HubInv => TypeOK
  BY DEF HubInv
<1> QED
  BY SpecInv, <1>1, PTL

(* _rooms and _member_rooms always agree, rooms hold registered            *)
(* connections only, and exactly those have a principal (hub.py 28-69).    *)
THEOREM HubIndexConsistent == Spec => []IndexConsistent
<1>1. HubInv => IndexConsistent
  BY DEF HubInv
<1> QED
  BY SpecInv, <1>1, PTL

(* Whatever ends a handler that was greeted, the connection is             *)
(* deregistered in that very step (the finally of realtime_websocket).     *)
THEOREM HubRegisteredWhileHandled == Spec => []RegisteredWhileHandled
<1>1. HubInv => RegisteredWhileHandled
  BY DEF HubInv
<1> QED
  BY SpecInv, <1>1, PTL

(* No interleaving of joins, leaves, connects and disconnects makes a      *)
(* suspended broadcast or direct loop send to a connection that is not, at *)
(* the moment of the send, registered and addressed, or to the sender.     *)
THEOREM HubSendsOnlyToAddressed == Spec => SendsOnlyToAddressed
<1>1. HubInv /\ [Next]_vars => [ReceiversAddressed]_vars
  BY StepInv
<1> QED
  BY SpecInv, <1>1, PTL DEF Spec, SendsOnlyToAddressed
------------------------------------------------------------------------------
(* What an undisturbed delivery does, where the iterator's table has room  *)
(* for every connection.                                                   *)

(* A loop whose collection is as it was when it began: everyone it is for  *)
(* is alive and was there, and has been sent the message or lies ahead.    *)
Exact(k, sent) ==
  LET coll == Iterated(k.target, rooms, principals)
  IN /\ k.obj = "clean" /\ k.size0 = Cardinality(coll) /\ k.todo \subseteq coll
     /\ k.must = coll \cap Addressed(k.target, k.except, connections, principals)
     /\ \A c \in k.must : alive[c]
     /\ k.got \subseteq k.must /\ k.got \cap k.todo = {} /\ k.must \ k.got \subseteq k.todo
     /\ Cardinality(k.got) = sent

(* A suspended loop counts the send it awaits only when that returns.      *)
Suspended(k) == Exact(k, k.delivered + 1) /\ k.to \in k.got

QuietInv == \A t \in Tasks : cast[t].phase = "run" /\ cast[t].quiet => Suspended(cast[t])

(* QuietCastIsExact, of one task's loop in one step.                       *)
EndsExactly(t) ==
  (cast[t].phase = "run" /\ cast'[t].phase # "run" /\ cast[t].quiet) =>
    /\ cast[t].got = cast[t].must
    /\ t \in Ids => /\ cast'[t].phase = "ok"
                   /\ cast'[t].delivered = Cardinality(cast[t].must)

(* From the head of an exact loop: it is suspended in its next send, or it *)
(* is over and has sent to all.                                            *)
LEMMA HeadsExact ==
  ASSUME TypeOK, NEW k \in CastType, k.phase = "run", Exact(k, k.delivered), NEW h \in Heads(k)
  PROVE  /\ h.phase = "run" => Suspended(h)
         /\ h.phase # "run" /\ MaxConns <= Slots =>
              k.got = k.must /\ h.phase = "ok" /\ h.delivered = Cardinality(k.must)
<1> DEFINE coll == Iterated(k.target, rooms, principals)
           ready == k.todo \cap Addressed(k.target, k.except, connections, principals)
<1>1. ready = k.must \ k.got
  BY DEF Exact
<1>2. k.got \subseteq Ids /\ k.must \subseteq Ids /\ k.delivered \in Nat
  BY DEF CastType
<1>3. IsFiniteSet(Ids) /\ Cardinality(Ids) = MaxConns
  BY HubAssumption, FS_Interval DEF HubAssumption, Ids
<1>4. IsFiniteSet(k.got) /\ Cardinality(k.got) = k.delivered
  BY <1>2, <1>3, FS_Subset DEF Exact
<1>5. CASE ready = {} \/ k.delivered = Slots
  <2>1. h = [NoCast EXCEPT !.phase = "ok", !.delivered = k.delivered]
    BY <1>5 DEF Heads
  <2>2. h.phase = "ok" /\ h.delivered = k.delivered
    BY <2>1 DEF NoCast
  <2>3. CASE ready = {}
    BY <1>1, <1>4, <2>2, <2>3 DEF Exact
  <2>4. ASSUME k.delivered = Slots, MaxConns <= Slots PROVE k.got = Ids
    <3>1. Cardinality(k.got) <= MaxConns
      BY <1>2, <1>3, FS_Subset
    <3>2. Cardinality(k.got) = MaxConns
      BY <1>2, <1>4, <2>4, <3>1, HubAssumption DEF HubAssumption
    <3> QED
      BY <1>2, <1>3, <3>2, FS_Subset
  <2> QED
    BY <1>2, <1>4, <1>5, <2>2, <2>3, <2>4 DEF Exact
<1>6. CASE ~(ready = {} \/ k.delivered = Slots)
  <2>1. PICK p \in ready : h = [k EXCEPT !.to = p, !.todo = @ \ {p}, !.got = @ \cup {p}]
    BY <1>6 DEF Heads
  <2>2. /\ h.phase = k.phase /\ h.target = k.target /\ h.except = k.except /\ h.size0 = k.size0
        /\ h.obj = k.obj /\ h.must = k.must /\ h.delivered = k.delivered
        /\ h.to = p /\ h.todo = k.todo \ {p} /\ h.got = k.got \cup {p}
    BY <2>1 DEF CastType
  <2>3. Cardinality(h.got) = k.delivered + 1
    BY <1>1, <1>4, <2>1, <2>2, FS_AddElement
  <2>4. h.got \subseteq h.must /\ h.got \cap h.todo = {} /\ h.must \ h.got \subseteq h.todo
    BY <1>1, <2>1, <2>2 DEF Exact
  <2>5. Exact(h, h.delivered + 1)
    BY <2>2, <2>3, <2>4 DEF Exact
  <2> QED
    BY <2>2, <2>5 DEF Suspended
<1> QED
  BY <1>5, <1>6

(* From the head of a loop nothing is forgotten.                           *)
LEMMA HeadsQuiet ==
  ASSUME NEW k \in CastType, NEW h \in Heads(k), h.phase = "run"
  PROVE  h.quiet = k.quiet
<1> DEFINE ready == k.todo \cap Addressed(k.target, k.except, connections, principals)
<1>1. CASE ready = {} \/ k.delivered = Slots
  <2>1. h = [NoCast EXCEPT !.phase = "ok", !.delivered = k.delivered]
    BY <1>1 DEF Heads
  <2> QED
    BY <2>1 DEF NoCast
<1>2. CASE ~(ready = {} \/ k.delivered = Slots)
  <2>1. PICK p \in ready : h = [k EXCEPT !.to = p, !.todo = @ \ {p}, !.got = @ \cup {p}]
    BY <1>2 DEF Heads
  <2> QED
    BY <2>1 DEF CastType
<1> QED
  BY <1>1, <1>2

(* A new loop knows exactly whom it is for.                                *)
LEMMA StartedExact ==
  ASSUME HubInv, NEW target \in Targets, NEW e \in Ids \cup {NoOne}, NEW h \in Started(target, e),
         h.phase = "run", h.quiet
  PROVE  Suspended(h)
<1> DEFINE coll == Iterated(target, rooms, principals)
           addr == coll \cap Addressed(target, e, connections, principals)
           k == [phase |-> "run", target |-> target, except |-> e,
                 size0 |-> Cardinality(coll), todo |-> coll, to |-> NoOne,
                 obj |-> "clean", delivered |-> 0, got |-> {},
                 must |-> {c \in addr : alive[c]}, quiet |-> \A c \in addr : alive[c]]
<1>1. h \in Heads(k)
  BY DEF Started
<1>2. coll \subseteq Ids /\ Cardinality(coll) \in Nat
  BY IteratedType DEF HubInv, TypeOK
<1>3. (\A c \in addr : alive[c]) \in BOOLEAN
  OBVIOUS
<1>4. k \in CastType
  BY <1>2, <1>3 DEF CastType
<1>5. /\ k.phase = "run" /\ k.target = target /\ k.except = e /\ k.size0 = Cardinality(coll)
      /\ k.todo = coll /\ k.obj = "clean" /\ k.delivered = 0 /\ k.got = {}
      /\ k.must = {c \in addr : alive[c]}
  OBVIOUS
<1>6. k.quiet <=> \A c \in addr : alive[c]
  OBVIOUS
<1> HIDE DEF k
<1>7. k.quiet
  BY <1>1, <1>4, HeadsQuiet
<1>8. k.must = addr /\ \A c \in addr : alive[c]
  BY <1>5, <1>6, <1>7
<1>9. Exact(k, k.delivered)
  BY <1>5, <1>8, FS_EmptySet DEF Exact
<1> QED
  BY <1>1, <1>4, <1>5, <1>9, HeadsExact DEF HubInv

(* A step in which one task's loop changes and the hub does not.           *)
LEMMA OneLoopKeepsQuiet ==
  ASSUME HubInv, QuietInv, UNCHANGED <<connections, principals, rooms, alive>>,
         NEW t \in Tasks, NEW h, cast' = [cast EXCEPT ![t] = h],
         h.phase = "run" /\ h.quiet => Suspended(h), EndsExactly(t)
  PROVE  QuietInv' /\ \A u \in Tasks : EndsExactly(u)
<1>1. cast'[t] = h /\ \A u \in Tasks \ {t} : cast'[u] = cast[u]
  BY DEF HubInv, TypeOK
<1>2. \A u \in Tasks : cast'[u].phase = "run" /\ cast'[u].quiet => Suspended(cast'[u])
  BY <1>1 DEF QuietInv
<1>3. QuietInv'
  <2> SUFFICES ASSUME NEW u \in Tasks, cast'[u].phase = "run", cast'[u].quiet
               PROVE  Suspended(cast[u])'
    BY DEF QuietInv
  <2>1. Exact(cast'[u], cast'[u].delivered + 1) /\ cast'[u].to \in cast'[u].got
    BY <1>2 DEF Suspended
  <2>2. Exact(cast[u], cast[u].delivered + 1)'
    BY <2>1 DEF Exact, Iterated, Addressed
  <2> QED
    BY <2>1, <2>2 DEF Suspended
<1>4. \A u \in Tasks : EndsExactly(u)
  BY <1>1 DEF EndsExactly
<1> QED
  BY <1>3, <1>4
(* A loop that is still quiet after a step was quiet before it and is left *)
(* as it is, for the step did not touch its collection.                    *)
LEMMA ObservedQuiet ==
  ASSUME HubInv, QuietInv, NEW rms \in [Rooms -> SUBSET Ids], NEW prs, NEW alv, NEW t \in Tasks,
         cast[t].phase = "run", Observed(rms, prs, alv)[t].quiet
  PROVE  /\ Observed(rms, prs, alv)[t] = cast[t] /\ cast[t].quiet
         /\ Iterated(cast[t].target, rms, prs) = Iterated(cast[t].target, rooms, principals)
         /\ \A c \in cast[t].must : alv[c]
<1> DEFINE k == cast[t]
           old == Iterated(k.target, rooms, principals)
           new == Iterated(k.target, rms, prs)
           must == {c \in k.must \cap new : alv[c]}
           obj == IF k.obj = "gone" \/ (k.target \in Rooms /\ new = {}) THEN "gone"
                  ELSE IF new # old THEN "dirty" ELSE k.obj
           quiet == k.quiet /\ new = old /\ must = k.must
<1>1. k \in CastType
  BY DEF HubInv, TypeOK
<1>2. Observed(rms, prs, alv)[t] = [k EXCEPT !.obj = obj, !.must = must, !.quiet = quiet]
  BY DEF Observed
<1>3. quiet
  <2> HIDE DEF k, obj, must, quiet
  <2>1. [k EXCEPT !.obj = obj, !.must = must, !.quiet = quiet].quiet = quiet
    BY <1>1 DEF CastType
  <2> QED
    BY <1>2, <2>1
<1>4. Suspended(k)
  BY <1>3 DEF QuietInv
<1>5. k.to \in old /\ k.obj = "clean"
  BY <1>4 DEF Suspended, Exact
<1>6. obj = k.obj /\ must = k.must /\ quiet = k.quiet
  BY <1>1, <1>3, <1>5 DEF CastType
<1>7. [k EXCEPT !.obj = obj, !.must = must, !.quiet = quiet] = k
  <2> HIDE DEF k, obj, must, quiet
  <2> QED
    BY <1>1, <1>6 DEF CastType
<1> QED
  BY <1>2, <1>3, <1>7

(* Nobody becomes another actor while connected.                           *)
ActorsStay ==
  \A c \in Ids : principals[c] # NoActor /\ principals'[c] # NoActor => principals'[c] = principals[c]

(* Whoever is in a collection is registered.                               *)
LEMMA IteratedRegistered ==
  ASSUME HubInv, NEW target \in Targets
  PROVE  Iterated(target, rooms, principals) \subseteq connections
  BY DEF HubInv, IndexConsistent, Iterated

(* A step in which the hub changes and the loops of D end, which are none  *)
(* that is suspended quietly.                                              *)
LEMMA ObservedKeepsQuiet ==
  ASSUME HubInv, HubInv', QuietInv, ActorsStay, NEW D \in SUBSET Tasks,
         cast' = [t \in Tasks |->
                    IF t \in D THEN NoCast ELSE Observed(rooms', principals', alive')[t]],
         \A t \in D : EndsExactly(t)
  PROVE  QuietInv' /\ \A t \in Tasks : EndsExactly(t)
<1> DEFINE o == Observed(rooms', principals', alive')
<1>1. rooms' \in [Rooms -> SUBSET Ids]
  BY DEF HubInv, TypeOK
<1>2. \A t \in Tasks : o[t].phase = cast[t].phase
  BY <1>1, ObservedFacts DEF HubInv
<1>3. cast' = [t \in Tasks |-> IF t \in D THEN NoCast ELSE o[t]]
  OBVIOUS
<1> HIDE DEF o
<1>4. \A t \in Tasks \ D : cast'[t] = o[t] /\ cast'[t].phase = cast[t].phase
  BY <1>2, <1>3
<1>5. \A t \in Tasks : EndsExactly(t)
  BY <1>4 DEF EndsExactly
<1>6. ASSUME NEW t \in Tasks, cast'[t].phase = "run", cast'[t].quiet
      PROVE  Suspended(cast[t])'
  <2>1. t \notin D
    BY <1>3, <1>6, NoCastType
  <2>2. cast[t].phase = "run" /\ cast'[t] = o[t]
    BY <1>4, <1>6, <2>1
  <2>3. /\ cast'[t] = cast[t] /\ cast[t].quiet
        /\ Iterated(cast[t].target, rooms', principals')
             = Iterated(cast[t].target, rooms, principals)
        /\ \A c \in cast[t].must : alive'[c]
    BY <1>1, <1>6, <2>2, ObservedQuiet DEF o
  <2> DEFINE k == cast[t]
             coll == Iterated(k.target, rooms, principals)
  <2>4. Suspended(k)
    BY <2>2, <2>3 DEF QuietInv
  <2>5. k.target \in Targets
    BY <2>2 DEF HubInv, LoopsSound
  <2>6. coll \subseteq connections /\ coll \subseteq Ids
    BY <2>5, IteratedRegistered, IteratedType DEF HubInv, TypeOK
  <2>7. coll \subseteq connections'
    <3>1. cast'[t].target = k.target
      BY <2>3
    <3>2. Iterated(k.target, rooms', principals') \subseteq connections'
      BY <2>5 DEF HubInv, IndexConsistent, Iterated
    <3> QED
      BY <2>3, <3>2
  <2>8. \A c \in coll : k.target \in Actors => principals'[c] = principals[c]
    <3> SUFFICES ASSUME NEW c \in coll, k.target \in Actors PROVE principals'[c] = principals[c]
      OBVIOUS
    <3>1. k.target \notin Rooms
      BY HubAssumption DEF HubAssumption
    <3>2. principals[c] # NoActor /\ principals'[c] # NoActor /\ c \in Ids
      BY <2>3, <3>1 DEF Iterated
    <3> QED
      BY <3>2 DEF ActorsStay
  <2>9. coll \cap Addressed(k.target, k.except, connections', principals')
          = coll \cap Addressed(k.target, k.except, connections, principals)
    BY <2>6, <2>7, <2>8 DEF Addressed
  <2> QED
    BY <2>3, <2>4, <2>9 DEF Suspended, Exact
<1> QED
  BY <1>5, <1>6 DEF QuietInv

(* The same for a step in which no loop ends.                              *)
LEMMA ObservedKeepsAllQuiet ==
  ASSUME HubInv, HubInv', QuietInv, ActorsStay, cast' = Observed(rooms', principals', alive')
  PROVE  QuietInv' /\ \A t \in Tasks : EndsExactly(t)
<1> DEFINE D == {}
<1>1. cast' = [t \in Tasks |->
                 IF t \in D THEN NoCast ELSE Observed(rooms', principals', alive')[t]]
  BY DEF Observed
<1>2. D \in SUBSET Tasks /\ \A t \in D : EndsExactly(t)
  OBVIOUS
<1> HIDE DEF D
<1> QED
  BY <1>1, <1>2, ObservedKeepsQuiet
(* The finally clause, of a handler that is in no quiet loop.              *)
LEMMA FinallyKeepsQuiet ==
  ASSUME HubInv, QuietInv, NEW c \in Ids, pc[c] # "absent", Finally(c),
         cast[c].phase = "run" => ~cast[c].quiet
  PROVE  QuietInv' /\ \A t \in Tasks : EndsExactly(t)
<1> DEFINE D == {c}
<1>1. c \in Tasks /\ HubInv'
  BY FinallyKeepsInv DEF Tasks
<1>2. ActorsStay
  BY DEF Finally, Disconnect, ActorsStay, HubInv, TypeOK
<1>3. cast' = [t \in Tasks |->
                 IF t \in D THEN NoCast ELSE Observed(rooms', principals', alive')[t]]
  BY <1>1 DEF Finally, Disconnect, Observed
<1>4. D \in SUBSET Tasks /\ \A t \in D : EndsExactly(t)
  BY <1>1 DEF EndsExactly
<1> HIDE DEF D
<1> QED
  BY <1>1, <1>2, <1>3, <1>4, ObservedKeepsQuiet

(* A quiet loop that goes on is suspended in its next send, or has sent to *)
(* all.                                                                    *)
LEMMA CastGoesOnKeepsQuiet ==
  ASSUME MaxConns <= Slots, HubInv, QuietInv, NEW t \in Tasks, CastGoesOn(t)
  PROVE  QuietInv' /\ \A u \in Tasks : EndsExactly(u)
<1>1. PICK k \in Resumed(cast[t]) : cast' = [cast EXCEPT ![t] = Kept(t, k)]
  BY DEF CastGoesOn
<1>2. PICK S \in Ahead(cast[t]) : k \in Heads(Passed(cast[t], S))
  BY <1>1 DEF Resumed, Passed
<1> DEFINE h == Passed(cast[t], S)
<1>3. cast[t] \in CastType /\ cast[t].phase = "run"
  BY DEF HubInv, TypeOK, CastGoesOn
<1>4. S \subseteq Ids
  BY <1>2, <1>3, IteratedType DEF Ahead, CastType, HubInv, TypeOK
<1>5. /\ h \in CastType /\ h.phase = "run" /\ h.target = cast[t].target
      /\ h.except = cast[t].except /\ h.todo = S /\ h.obj = Onward(cast[t]) /\ h.got = cast[t].got
  BY <1>3, <1>4, DeliveredFacts
<1>6. /\ h.size0 = cast[t].size0 /\ h.must = cast[t].must /\ h.quiet = cast[t].quiet
      /\ h.delivered = cast[t].delivered + 1
  BY <1>3 DEF Passed, CastType
<1>7. k \in Heads(h)
  BY <1>2
<1> HIDE DEF h
<1>8. k.phase \in {"run", "ok"} /\ (k.phase = "run" => k.quiet = cast[t].quiet)
  BY <1>5, <1>6, <1>7, HeadsFacts, HeadsQuiet DEF HubInv
<1>9. cast[t].quiet =>
        /\ k.phase = "run" => Suspended(k)
        /\ k.phase # "run" => /\ cast[t].got = cast[t].must /\ k.phase = "ok"
                              /\ k.delivered = Cardinality(cast[t].must)
  <2> SUFFICES ASSUME cast[t].quiet
               PROVE  /\ k.phase = "run" => Suspended(k)
                      /\ k.phase # "run" => /\ cast[t].got = cast[t].must /\ k.phase = "ok"
                                            /\ k.delivered = Cardinality(cast[t].must)
    OBVIOUS
  <2>1. Exact(cast[t], cast[t].delivered + 1)
    BY <1>3 DEF QuietInv, Suspended
  <2>2. S = cast[t].todo
    BY <1>2, <2>1 DEF Ahead, Exact
  <2>3. h.obj = "clean"
    BY <1>5, <2>1 DEF Exact, Onward
  <2>4. Exact(h, h.delivered)
    BY <1>5, <1>6, <2>1, <2>2, <2>3 DEF Exact
  <2> QED
    BY <1>5, <1>6, <1>7, <2>4, HeadsExact DEF HubInv
<1> DEFINE g == Kept(t, k)
<1>10. (g.phase = "run" => g = k) /\ (t \in Ids => g = k) /\ (k.phase = "run" => g = k)
  BY <1>8, NoCastType, HubAssumption DEF Kept, HubAssumption
<1>11. cast' = [cast EXCEPT ![t] = g] /\ cast'[t] = g
  BY <1>1 DEF HubInv, TypeOK
<1> HIDE DEF g
<1>12. g.phase = "run" /\ g.quiet => Suspended(g)
  BY <1>8, <1>9, <1>10
<1>13. EndsExactly(t)
  BY <1>9, <1>10, <1>11 DEF EndsExactly
<1>14. UNCHANGED <<connections, principals, rooms, alive>>
  BY DEF CastGoesOn
<1> QED
  BY <1>11, <1>12, <1>13, <1>14, OneLoopKeepsQuiet

(* No exception leaves a quiet loop.                                       *)
LEMMA CastRaisesKeepsQuiet ==
  ASSUME HubInv, QuietInv, NEW t \in Tasks, CastRaises(t)
  PROVE  QuietInv' /\ \A u \in Tasks : EndsExactly(u)
<1>1. cast[t].phase = "run" /\ (MayRefuse(cast[t]) \/ ~alive[cast[t].to])
  BY DEF CastRaises
<1>2. ~cast[t].quiet
  <2> SUFFICES ASSUME cast[t].quiet PROVE FALSE
    OBVIOUS
  <2>1. Suspended(cast[t])
    BY <1>1 DEF QuietInv
  <2> QED
    BY <1>1, <2>1 DEF Suspended, Exact, MayRefuse
<1>3. CASE t \in Ids
  BY <1>1, <1>2, <1>3, FinallyKeepsQuiet DEF CastRaises, HubInv, TypeOK
<1>4. CASE t \notin Ids
  <2>1. /\ cast' = [cast EXCEPT ![t] = NoCast]
        /\ UNCHANGED <<connections, principals, rooms, alive>>
    BY <1>4 DEF CastRaises
  <2>2. EndsExactly(t)
    BY <1>2 DEF EndsExactly
  <2> QED
    BY <2>1, <2>2, NoCastType, OneLoopKeepsQuiet
<1> QED
  BY <1>3, <1>4

(* A task that is in no loop starts one.                                   *)
LEMMA StartKeepsQuiet ==
  ASSUME HubInv, QuietInv, NEW t \in Tasks, cast[t].phase # "run",
         NEW target \in Targets, NEW e \in Ids \cup {NoOne}, NEW k \in Started(target, e),
         cast' = [cast EXCEPT ![t] = k] \/ cast' = [cast EXCEPT ![t] = NoCast],
         UNCHANGED <<connections, principals, rooms, alive>>
  PROVE  QuietInv' /\ \A u \in Tasks : EndsExactly(u)
<1>1. EndsExactly(t)
  BY DEF EndsExactly
<1>2. k.phase = "run" /\ k.quiet => Suspended(k)
  BY StartedExact
<1>3. CASE cast' = [cast EXCEPT ![t] = k]
  BY <1>1, <1>2, <1>3, OneLoopKeepsQuiet
<1>4. CASE cast' = [cast EXCEPT ![t] = NoCast]
  BY <1>1, <1>4, NoCastType, OneLoopKeepsQuiet
<1> QED
  BY <1>3, <1>4
(* Every step keeps what suspended quiet loops know, and ends none of them *)
(* but exactly.                                                            *)
LEMMA QuietStep ==
  ASSUME MaxConns <= Slots, HubInv, QuietInv, [Next]_vars
  PROVE  QuietInv' /\ \A t \in Tasks : EndsExactly(t)
<1> DEFINE Held == QuietInv' /\ \A t \in Tasks : EndsExactly(t)
<1>1. HubInv'
  BY StepInv
<1>2. \A c \in Ids : c \in Tasks /\ (cast[c].phase = "run" <=> pc[c] = "cast")
  BY DEF HubInv, TypeOK, Tasks
<1>3. ASSUME NEW a \in Actors, Accept(a) PROVE Held
  <2>1. nextId \in Ids /\ principals[nextId] = NoActor
    BY <1>3, HubAssumption DEF HubAssumption, Accept, Ids, HubInv, TypeOK, IndexConsistent,
                               RegisteredWhileHandled
  <2>2. ActorsStay
    BY <1>3, <2>1 DEF Accept, Register, ActorsStay, HubInv, TypeOK
  <2>3. cast' = Observed(rooms', principals', alive')
    BY <1>3 DEF Accept
  <2> QED
    BY <1>1, <2>2, <2>3, ObservedKeepsAllQuiet
<1>4. ASSUME NEW c \in Ids, Greet(c) \/ RecvOther(c) PROVE Held
  <2>1. UNCHANGED <<connections, principals, rooms, alive, cast>>
    BY <1>4 DEF Greet, RecvOther
  <2> QED
    BY <2>1 DEF QuietInv, EndsExactly, Suspended, Exact, Iterated, Addressed
<1>5. ASSUME NEW c \in Ids, Reply(c) PROVE Held
  <2>1. pc[c] = "reply" /\ cast[c].phase # "run" /\ c \in Tasks
    BY <1>2, <1>5 DEF Reply
  <2>2. CASE Finally(c)
    BY <2>1, <2>2, FinallyKeepsQuiet
  <2>3. CASE ~Finally(c)
    <3>1. /\ cast' = [cast EXCEPT ![c] = NoCast]
          /\ UNCHANGED <<connections, principals, rooms, alive>>
      BY <1>5, <2>3 DEF Reply
    <3>2. EndsExactly(c)
      BY <2>1 DEF EndsExactly
    <3> QED
      BY <2>1, <3>1, <3>2, NoCastType, OneLoopKeepsQuiet
  <2> QED
    BY <2>2, <2>3
<1>6. ASSUME NEW c \in Ids, RecvDisconnect(c) PROVE Held
  BY <1>2, <1>6, FinallyKeepsQuiet DEF RecvDisconnect
<1>7. ASSUME NEW c \in Ids, NEW r \in Rooms, RecvJoin(c, r) \/ RecvLeave(c, r) PROVE Held
  <2>1. principals' = principals /\ cast' = Observed(rooms', principals', alive')
    BY <1>7 DEF RecvJoin, RecvLeave
  <2>2. ActorsStay
    BY <2>1 DEF ActorsStay
  <2> QED
    BY <1>1, <2>1, <2>2, ObservedKeepsAllQuiet
<1>8. ASSUME NEW c \in Ids, ClientDrop(c) PROVE Held
  <2>1. principals' = principals /\ cast' = Observed(rooms', principals', alive')
    BY <1>8 DEF ClientDrop
  <2>2. ActorsStay
    BY <2>1 DEF ActorsStay
  <2> QED
    BY <1>1, <2>1, <2>2, ObservedKeepsAllQuiet
<1>9. ASSUME NEW c \in Ids, NEW target \in Targets, Receives(c), StartCast(c, target) PROVE Held
  <2>1. c \in Tasks /\ cast[c].phase # "run"
    BY <1>2, <1>9 DEF Receives
  <2>2. PICK k \in Started(target, c) : cast' = [cast EXCEPT ![c] = k]
    BY <1>9 DEF StartCast
  <2>3. UNCHANGED <<connections, principals, rooms, alive>>
    BY <1>9 DEF StartCast
  <2> QED
    BY <2>1, <2>2, <2>3, StartKeepsQuiet
<1>10. ASSUME NEW c \in Ids, NEW r \in Rooms, RecvBroadcast(c, r) PROVE Held
  BY <1>9, <1>10 DEF RecvBroadcast, Targets
<1>11. ASSUME NEW c \in Ids, NEW a \in Actors, RecvDirect(c, a) PROVE Held
  BY <1>9, <1>11 DEF RecvDirect, Receives, Targets
<1>12. ASSUME NEW t \in Tasks, CastGoesOn(t) PROVE Held
  BY <1>12, CastGoesOnKeepsQuiet
<1>13. ASSUME NEW t \in Tasks, CastRaises(t) PROVE Held
  BY <1>13, CastRaisesKeepsQuiet
<1>14. ASSUME NEW s \in Subscribers, NEW target \in Targets, SubscriberDelivers(s, target)
       PROVE  Held
  <2>1. s \in Tasks /\ cast[s].phase # "run"
    BY <1>14 DEF SubscriberDelivers, Tasks
  <2>2. PICK k \in Started(target, NoOne) : cast' = [cast EXCEPT ![s] = Kept(s, k)]
    BY <1>14 DEF SubscriberDelivers
  <2>3. cast' = [cast EXCEPT ![s] = k] \/ cast' = [cast EXCEPT ![s] = NoCast]
    BY <2>2 DEF Kept
  <2>4. UNCHANGED <<connections, principals, rooms, alive>>
    BY <1>14 DEF SubscriberDelivers
  <2> QED
    BY <2>1, <2>2, <2>3, <2>4, StartKeepsQuiet
<1>15. CASE UNCHANGED vars
  BY <1>15 DEF vars, QuietInv, EndsExactly, Suspended, Exact, Iterated, Addressed
<1> HIDE DEF Held
<1>16. Held
  BY <1>3, <1>4, <1>5, <1>6, <1>7, <1>8, <1>10, <1>11, <1>12, <1>13, <1>14, <1>15 DEF Next, Held
<1> QED
  BY <1>16 DEF Held

(* A broadcast or direct message during which nobody it concerns comes,    *)
(* goes or dies ends normally, reaches every addressee and reports their   *)
(* number (hub.py 90-151), whatever else happens at its awaits.            *)
THEOREM HubQuietCastIsExact == MaxConns <= Slots => (Spec => QuietCastIsExact)
<1> SUFFICES ASSUME MaxConns <= Slots PROVE Spec => QuietCastIsExact
  OBVIOUS
<1>1. Init => QuietInv
  BY NoCastType DEF Init, QuietInv
<1>2. HubInv /\ QuietInv /\ [Next]_vars => QuietInv' /\ \A t \in Tasks : EndsExactly(t)
  BY QuietStep
<1>3. (\A t \in Tasks : EndsExactly(t)) =>
        [\A t \in Tasks :
           (cast[t].phase = "run" /\ cast'[t].phase # "run" /\ cast[t].quiet) =>
             /\ cast[t].got = cast[t].must
             /\ t \in Ids => /\ cast'[t].phase = "ok"
                            /\ cast'[t].delivered = Cardinality(cast[t].must)]_vars
  BY DEF EndsExactly
<1> QED
  BY SpecInv, <1>1, <1>2, <1>3, PTL DEF Spec, QuietCastIsExact
==============================================================================
