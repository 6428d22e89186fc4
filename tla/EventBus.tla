------------------------------ MODULE EventBus ------------------------------
(***************************************************************************)
(* InMemoryEventBus (messaging/dispatcher.py) and RedisPublishingEventBus  *)
(* over it (redis_bridge.py): publications whose handlers take time and    *)
(* may raise, on one event loop, while others subscribe.                   *)
(***************************************************************************)
EXTENDS Integers, FiniteSets, Sequences, SequencesExt

CONSTANTS
  EventNames,      \* names of events; ANY is the wildcard, and a name, too
  Listeners,       \* handlers
  Publishers,      \* tasks that publish
  MaxSubscribed,   \* bound: subscriptions
  MaxPublished     \* bound: publications

ANY == "*"
Names == EventNames \cup {ANY}

VARIABLES
  bus,          \* in memory only, or with Redis
  handlers,     \* _handlers
  publishing,   \* a task's publication: its handlers to come, and what follows
  outside,      \* external: what Redis was given, in order
  publications  \* history: event, batch, the subscriptions it met, and who was called

busVars == <<bus, handlers, publishing, outside, publications>>

NoPublication == [at |-> "idle", of |-> 0, todo |-> <<>>, many |-> <<>>]

BusInit ==
  /\ bus \in {"memory", "redis"}
  /\ handlers = [n \in Names |-> <<>>]
  /\ publishing = [p \in Publishers |-> NoPublication]
  /\ outside = <<>> /\ publications = <<>>

Subscribed == UNION {{n} \X DOMAIN handlers[n] : n \in Names}

Subscribes(n, h) ==
  /\ Cardinality(Subscribed) < MaxSubscribed
  /\ handlers' = [handlers EXCEPT ![n] = Append(@, h)]
  /\ UNCHANGED <<bus, publishing, outside, publications>>

(* _resolve_handlers                                                       *)
Resolved(n) == handlers[n] \o handlers[ANY]

(* The next handler is called at once; after the last one the event goes   *)
(* to Redis, or the publication is over.                                   *)
Proceeds(p, k, todo, many, past) ==
  IF todo # <<>>
  THEN /\ publishing' = [publishing EXCEPT ![p] = [at |-> "handler", of |-> k, todo |-> Tail(todo),
                                                   many |-> many]]
       /\ publications' = [past EXCEPT ![k].called = Append(@, Head(todo))]
  ELSE /\ publishing' = [publishing EXCEPT ![p] =
            IF bus = "redis" THEN [at |-> "redis", of |-> k, todo |-> <<>>, many |-> many]
            ELSE IF many # <<>> THEN [at |-> "next", of |-> k, todo |-> <<>>, many |-> many]
            ELSE NoPublication]
       /\ publications' = past

Begins(p, n, batch, many) ==
  LET k == Len(publications) + 1
      publication == [event |-> n, batch |-> IF batch = 0 THEN k ELSE batch,
                          met |-> IF n = ANY THEN handlers[ANY] ELSE handlers[n] \o handlers[ANY],
                      called |-> <<>>]
  IN /\ k <= MaxPublished
     /\ Proceeds(p, k, Resolved(n), many, Append(publications, publication))
     /\ UNCHANGED <<bus, handlers, outside>>

(* publish, and publish_many, which only the memory bus has.               *)
Publish(p, n) == publishing[p].at = "idle" /\ Begins(p, n, 0, <<>>)
PublishMany(p, n, more) == publishing[p].at = "idle" /\ bus = "memory" /\ Begins(p, n, 0, more)
PublishesNext(p) ==
  /\ publishing[p].at = "next"
  /\ Begins(p, Head(publishing[p].many), publications[publishing[p].of].batch,
            Tail(publishing[p].many))

(* mutated form: the lists are iterated over while others append to them   *)
HandlerReturnsLive(p) ==
  LET k == publishing[p].of
      now == Resolved(publications[k].event)
  IN /\ publishing[p].at = "handler"
     /\ Proceeds(p, k, SubSeq(now, Len(publications[k].called) + 1, Len(now)),
                 publishing[p].many, publications)
     /\ UNCHANGED <<bus, handlers, outside>>

HandlerReturns(p) ==
  /\ publishing[p].at = "handler"
  /\ Proceeds(p, publishing[p].of, publishing[p].todo, publishing[p].many, publications)
  /\ UNCHANGED <<bus, handlers, outside>>

Over(p) == publishing' = [publishing EXCEPT ![p] = NoPublication]

(* A handler raises, or the PUBLISH does, before or after Redis has it:    *)
(* publish raises, and publish_many with it.                               *)
PublishRaises(p) ==
  /\ publishing[p].at \in {"handler", "redis"}
  /\ Over(p)
  /\ \/ UNCHANGED outside
     \/ publishing[p].at = "redis" /\ outside' = Append(outside, publishing[p].of)
  /\ UNCHANGED <<bus, handlers, publications>>

RedisTakes(p) ==
  /\ publishing[p].at = "redis"
  /\ outside' = Append(outside, publishing[p].of)
  /\ Over(p)
  /\ UNCHANGED <<bus, handlers, publications>>

BusNext ==
  \/ \E n \in Names, h \in Listeners : Subscribes(n, h)
  \/ \E p \in Publishers :
       \/ \E n \in Names : Publish(p, n) \/ \E more \in Names : PublishMany(p, n, <<more>>)
       \/ PublishesNext(p) \/ HandlerReturns(p) \/ PublishRaises(p) \/ RedisTakes(p)

BusSpec == BusInit /\ [][BusNext]_busVars

BusTypeOK ==
  /\ bus \in {"memory", "redis"} /\ handlers \in [Names -> Seq(Listeners)]
  /\ \A p \in Publishers : /\ publishing[p].at \in {"idle", "handler", "redis", "next"}
                           /\ publishing[p].of \in 0..Len(publications)
  /\ ToSet(outside) \subseteq DOMAIN publications

------------------------------------------------------------------------------
(* A publication calls those who had subscribed when it began, in order,   *)
(* once for each subscription, and nobody who subscribes while a handler   *)
(* is awaited (an event that is itself named "*" meets each subscription   *)
(* twice).  Other processes hear of it only when all of them have          *)
(* returned; so does the next event of a publish_many.                     *)
HeardBy(k) == LET met == publications[k].met
          IN IF publications[k].event = ANY THEN met \o met ELSE met
HeardExact ==
  \A k \in DOMAIN publications :
    /\ IsPrefix(publications[k].called, HeardBy(k))
    /\ (\/ k \in ToSet(outside)
        \/ \E j \in DOMAIN publications : j > k /\ publications[j].batch = publications[k].batch)
       => publications[k].called = HeardBy(k)
=============================================================================
