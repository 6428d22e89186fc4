----------------------------- MODULE RedisFanout -----------------------------
(***************************************************************************)
(* Several worker processes whose hubs are RedisFanoutSocketHub            *)
(* (redis_hub.py): a broadcast or direct message is delivered to the       *)
(* author's own worker, then PUBLISHed, and the subscriber task of every   *)
(* other worker (realtime_redis.py) delivers it there.                     *)
(*                                                                         *)
(* A delivery inside one worker is the loop of SocketHub; here it is       *)
(* started, and ends or raises.  Redis pub/sub keeps one buffer per        *)
(* subscribed connection and forgets what nobody is subscribed to.         *)
(***************************************************************************)
EXTENDS Integers, Sequences, SequencesExt

CONSTANTS
  Workers,   \* the processes; each has its own publisher_id
  Clients,   \* the connections that send
  Home,      \* Home[c]: the worker that c is connected to
  Sends      \* bound: Sends[c], how many messages c sends

ASSUME FanoutAssumption ==
  /\ Home \in [Clients -> Workers]
  /\ Sends \in [Clients -> Nat]

Msgs == UNION {{c} \X (1..Sends[c]) : c \in Clients}
Author(m) == m[1]

VARIABLES
  sent,      \* how many messages the handler of c has received
  stage,     \* what the handler of c awaits
  inflight,  \* PUBLISH requests on their way to Redis
  sub,       \* the subscriber task of a worker
  mailbox,   \* Redis' buffer for a worker's subscription
  log,       \* history: the deliveries started in a worker's hub, in order
  published, \* history: published[m], the workers subscribed when Redis got m
  acked,     \* history: messages whose author got its broadcast_result
  fault      \* history: the worker stopped, or lost its connection to Redis

vars == <<sent, stage, inflight, sub, mailbox, log, published, acked, fault>>
handlerVars == <<sent, stage, inflight, published, acked>>
subscriberVars == <<sub, mailbox, fault>>

Current(c) == <<c, sent[c]>>

Init ==
  /\ sent = [c \in Clients |-> 0]
  /\ stage = [c \in Clients |-> "recv"]
  /\ inflight = {}
  /\ sub = [w \in Workers |-> "starting"]
  /\ mailbox = [w \in Workers |-> <<>>]
  /\ log = [w \in Workers |-> <<>>]
  /\ published = [m \in Msgs |-> {}]
  /\ acked = {}
  /\ fault = [w \in Workers |-> FALSE]

------------------------------------------------------------------------------
(* RedisFanoutSocketHub.broadcast and send_direct_to_actor, in the handler *)
(* of the client that sends.                                               *)

(* The inner hub starts delivering to the worker's own connections.        *)
LocalStarts(c) ==
  /\ stage[c] = "recv" /\ sent[c] < Sends[c]
  /\ sent' = [sent EXCEPT ![c] = @ + 1]
  /\ stage' = [stage EXCEPT ![c] = "local"]
  /\ log' = [log EXCEPT ![Home[c]] = Append(@, <<c, sent[c] + 1>>)]
  /\ UNCHANGED <<inflight, published, acked, subscriberVars>>

(* The inner delivery returned; the PUBLISH request leaves.                *)
LocalEnds(c) ==
  /\ stage[c] = "local"
  /\ stage' = [stage EXCEPT ![c] = "publish"]
  /\ inflight' = inflight \cup {Current(c)}
  /\ UNCHANGED <<sent, published, acked, log, subscriberVars>>

(* The inner delivery raised, or the PUBLISH did (Redis has the message,   *)
(* never gets it, or gets it yet): the handler ends without a result.      *)
HandlerRaises(c) ==
  /\ stage[c] \in {"local", "publish"}
  /\ stage' = [stage EXCEPT ![c] = "ended"]
  /\ inflight' \in {inflight, inflight \ {Current(c)}}
  /\ UNCHANGED <<sent, published, acked, log, subscriberVars>>

(* mutated form: the handler does not await the PUBLISH                    *)
PublishNotAwaited(c) ==
  /\ stage[c] = "publish"
  /\ stage' = [stage EXCEPT ![c] = "recv"]
  /\ acked' = acked \cup {Current(c)}
  /\ UNCHANGED <<sent, inflight, published, log, subscriberVars>>

(* The PUBLISH returned; the client gets its result.                       *)
PublishReturns(c) ==
  /\ stage[c] = "publish" /\ Current(c) \notin inflight
  /\ stage' = [stage EXCEPT ![c] = "recv"]
  /\ acked' = acked \cup {Current(c)}
  /\ UNCHANGED <<sent, inflight, published, log, subscriberVars>>

(* Redis executes a PUBLISH: one copy for every subscribed connection.     *)
RedisPublishes(m) ==
  LET listening == {w \in Workers : sub[w] \in {"polling", "delivering"}}
  IN /\ m \in inflight
     /\ inflight' = inflight \ {m}
     /\ published' = [published EXCEPT ![m] = listening]
     /\ mailbox' = [w \in Workers |->
                      IF w \in listening THEN Append(mailbox[w], m) ELSE mailbox[w]]
     /\ UNCHANGED <<sent, stage, sub, log, acked, fault>>

------------------------------------------------------------------------------
(* run_realtime_redis_subscriber, one task per worker.                     *)

(* pubsub.subscribe returned.  The server may accept clients before that.  *)
Subscribe(w) ==
  /\ sub[w] = "starting"
  /\ sub' = [sub EXCEPT ![w] = "polling"]
  /\ UNCHANGED <<mailbox, fault, log, handlerVars>>

(* mutated form: the worker's own messages are delivered again             *)
TakeEcho(w, m) ==
  /\ log' = [log EXCEPT ![w] = Append(@, m)]
  /\ sub' = [sub EXCEPT ![w] = "delivering"]

(* A message taken from Redis: an echo of the worker's own is dropped, any *)
(* other is delivered to the connections of this worker.                   *)
Take(w, m) ==
  IF Home[Author(m)] = w
  THEN UNCHANGED <<log, sub>>
  ELSE /\ log' = [log EXCEPT ![w] = Append(@, m)]
       /\ sub' = [sub EXCEPT ![w] = "delivering"]

(* mutated form: deliveries are spawned as tasks that overtake each other  *)
PollSpawns(w) ==
  /\ sub[w] = "polling"
  /\ \E i \in 1..Len(mailbox[w]) :
       /\ Take(w, mailbox[w][i])
       /\ mailbox' = [mailbox EXCEPT ![w] = RemoveAt(@, i)]
  /\ UNCHANGED <<fault, handlerVars>>

Poll(w) ==
  /\ sub[w] = "polling" /\ mailbox[w] # <<>>
  /\ Take(w, Head(mailbox[w]))
  /\ mailbox' = [mailbox EXCEPT ![w] = Tail(@)]
  /\ UNCHANGED <<fault, handlerVars>>

(* mutated form: an exception of a delivery is not caught in the loop      *)
DeliveryEndsUncaught(w) ==
  /\ sub[w] = "delivering"
  /\ \E next \in {"polling", "dead"} : sub' = [sub EXCEPT ![w] = next]
  /\ UNCHANGED <<mailbox, fault, log, handlerVars>>

(* The delivery returned, or raised and was logged: either way the loop    *)
(* goes on.                                                                *)
DeliveryEnds(w) ==
  /\ sub[w] = "delivering"
  /\ sub' = [sub EXCEPT ![w] = "polling"]
  /\ UNCHANGED <<mailbox, fault, log, handlerVars>>

(* subscribe or get_message raises: the task ends and nothing restarts it. *)
SubscriberDies(w) ==
  /\ sub[w] \in {"starting", "polling"}
  /\ sub' = [sub EXCEPT ![w] = "dead"]
  /\ mailbox' = [mailbox EXCEPT ![w] = <<>>]
  /\ fault' = [fault EXCEPT ![w] = TRUE]
  /\ UNCHANGED <<log, handlerVars>>

(* The worker shuts down (the lifespan cancels the task) or crashes, with  *)
(* all its handlers.                                                       *)
Stop(w) ==
  /\ sub[w] # "stopped"
  /\ sub' = [sub EXCEPT ![w] = "stopped"]
  /\ mailbox' = [mailbox EXCEPT ![w] = <<>>]
  /\ fault' = [fault EXCEPT ![w] = TRUE]
  /\ stage' = [c \in Clients |-> IF Home[c] = w THEN "ended" ELSE stage[c]]
  /\ inflight' = {m \in inflight : Home[Author(m)] # w}
  /\ UNCHANGED <<sent, published, acked, log>>

Next ==
  \/ \E c \in Clients :
       LocalStarts(c) \/ LocalEnds(c) \/ HandlerRaises(c) \/ PublishReturns(c)
  \/ \E m \in Msgs : RedisPublishes(m)
  \/ \E w \in Workers :
       Subscribe(w) \/ Poll(w) \/ DeliveryEnds(w) \/ SubscriberDies(w) \/ Stop(w)

Spec == Init /\ [][Next]_vars

------------------------------------------------------------------------------
(* Properties.                                                             *)

TypeOK ==
  /\ sent \in [Clients -> Nat] /\ \A c \in Clients : sent[c] <= Sends[c]
  /\ stage \in [Clients -> {"recv", "local", "publish", "ended"}]
  /\ inflight \subseteq {Current(c) : c \in {d \in Clients : stage[d] \in {"publish", "ended"}}}
  /\ sub \in [Workers -> {"starting", "polling", "delivering", "dead", "stopped"}]
  /\ mailbox \in [Workers -> Seq(Msgs)]
  /\ log \in [Workers -> Seq(Msgs)]
  /\ published \in [Msgs -> SUBSET Workers]
  /\ acked \subseteq Msgs
  /\ fault \in [Workers -> BOOLEAN]

(* The connections of a worker are sent each message at most once, by the  *)
(* author's worker as by the others: the echo check of deliver_cluster_... *)
(* and the local delivery never add up.                                    *)
DeliveredOnce == \A w \in Workers : IsInjective(log[w])

(* The pairs of messages that w delivered one after the other.             *)
InOrder(w) ==
  {p \in Msgs \X Msgs :
     \E i, j \in 1..Len(log[w]) : i < j /\ log[w][i] = p[1] /\ log[w][j] = p[2]}

(* No worker delivers two messages of one client in another order than the *)
(* client sent them: its handler awaits the PUBLISH of the first before it *)
(* receives the second.                                                    *)
ClientOrderKept ==
  \A w \in Workers : \A p \in InOrder(w) : Author(p[1]) = Author(p[2]) => p[1][2] < p[2][2]

(* Two workers that both hear of two messages through Redis deliver them   *)
(* in the same order: there is one channel, and one delivery at a time.    *)
PeersAgreeOnOrder ==
  \A w, v \in Workers : \A p \in InOrder(w) :
    (Home[Author(p[1])] \notin {w, v} /\ Home[Author(p[2])] \notin {w, v}) =>
      <<p[2], p[1]>> \notin InOrder(v)

(* A message that Redis has for a subscribed worker is delivered there or  *)
(* still waits before a subscriber that runs, as long as the worker keeps  *)
(* its connection to Redis: a delivery that fails does not take the        *)
(* messages behind it along.                                               *)
NothingLostWithoutFault ==
  \A m \in Msgs, w \in Workers :
    (w \in published[m] /\ w # Home[Author(m)] /\ ~fault[w]) =>
      \/ m \in ToSet(log[w])
      \/ m \in ToSet(mailbox[w]) /\ sub[w] \in {"polling", "delivering"}
==============================================================================
