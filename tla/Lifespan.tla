------------------------------ MODULE Lifespan ------------------------------
(***************************************************************************)
(* One worker with realtime over Redis, from its start to its shutdown:    *)
(* the application's lifespan (core/forge_application.py) and the task it  *)
(* starts and later cancels (infrastructure/sockets/realtime_redis.py).    *)
(* A task is cancelled at what it awaits; CancelledError is no Exception,  *)
(* so of the handlers in the task none catches it, its finally included.   *)
(* The application is shut down once, and nobody cancels the lifespan.     *)
(***************************************************************************)

VARIABLES
  subscriber,  \* the task: what it awaits, how it ends, whether a cancellation
               \* is on its way to it, and (history) what it last awaited
  unclosed,    \* the Redis clients that exist and were not asked to close
  lifespan     \* "serving", "awaiting" the task, "closing" the hub, "over", or
               \* "failed" with the task's exception

lifespanVars == <<subscriber, unclosed, lifespan>>

InTry == {"polling", "delivering"}
InFinally == {"unsubscribing", "closing_pubsub", "closing_client"}
Awaitable == {"start", "subscribing"} \cup InTry \cup InFinally

(* The awaited call is over, and no cancellation is there in its place.    *)
Resumes(stage) == subscriber.at = stage /\ ~subscriber.cancelling
GoesTo(stage) == subscriber' = [subscriber EXCEPT !.at = stage]
TaskEnds(how) ==
  subscriber' = [at |-> "ended", how |-> how, cancelling |-> FALSE, last |-> subscriber.at]

(* An exception within the try leaves it through the finally clause; one   *)
(* before it, or within the finally, ends the task there.                  *)
Leaves(how) ==
  IF subscriber.at \in InTry
  THEN subscriber' = [subscriber EXCEPT !.at = "unsubscribing", !.how = how, !.cancelling = FALSE]
  ELSE TaskEnds(how)

LifespanInit ==
  /\ subscriber = [at |-> "start", how |-> "none", cancelling |-> FALSE, last |-> "none"]
  /\ unclosed = {"publisher"}
  /\ lifespan = "serving"

(* The settings name no Redis any more, or cannot be read.                 *)
EndsAtStart ==
  /\ Resumes("start")
  /\ \E how \in {"returned", "raised"} : TaskEnds(how)
  /\ UNCHANGED <<unclosed, lifespan>>

StartsToSubscribe ==
  /\ Resumes("start")
  /\ GoesTo("subscribing")
  /\ unclosed' = unclosed \cup {"subscriber"}
  /\ UNCHANGED lifespan

ChannelSubscribed ==
  /\ Resumes("subscribing")
  /\ GoesTo("polling")
  /\ UNCHANGED <<unclosed, lifespan>>

GetsMessage ==
  /\ Resumes("polling")
  /\ GoesTo("delivering")
  /\ UNCHANGED <<unclosed, lifespan>>

(* Whether the delivery raised or not.                                     *)
DeliveryOver ==
  /\ Resumes("delivering")
  /\ GoesTo("polling")
  /\ UNCHANGED <<unclosed, lifespan>>

(* subscribe, or get_message.                                              *)
RedisRaises ==
  /\ Resumes("subscribing") \/ Resumes("polling")
  /\ Leaves("raised")
  /\ UNCHANGED <<unclosed, lifespan>>

(* Each of the three calls of the finally clause may raise and be logged.  *)
ChannelUnsubscribed ==
  /\ Resumes("unsubscribing")
  /\ GoesTo("closing_pubsub")
  /\ UNCHANGED <<unclosed, lifespan>>

PubsubClosed ==
  /\ Resumes("closing_pubsub")
  /\ GoesTo("closing_client")
  /\ unclosed' = unclosed \ {"subscriber"}
  /\ UNCHANGED lifespan

ClientClosed ==
  /\ Resumes("closing_client")
  /\ TaskEnds(subscriber.how)
  /\ UNCHANGED <<unclosed, lifespan>>

IsCancelled ==
  /\ subscriber.cancelling
  /\ Leaves("cancelled")
  /\ UNCHANGED <<unclosed, lifespan>>

(* stop.set and task.cancel; a task that has ended is past cancelling.     *)
ShutsDown ==
  /\ lifespan = "serving"
  /\ lifespan' = "awaiting"
  /\ subscriber' = [subscriber EXCEPT !.cancelling = subscriber.at # "ended"]
  /\ UNCHANGED unclosed

(* mutated form: the hub is closed without waiting for the task            *)
TaskAwaitedNot ==
  /\ lifespan = "awaiting"
  /\ lifespan' = "closing"
  /\ unclosed' = unclosed \ {"publisher"}
  /\ UNCHANGED subscriber

(* `await task` raises what the task ended with, and only CancelledError   *)
(* is caught.                                                              *)
TaskAwaited ==
  /\ lifespan = "awaiting" /\ subscriber.at = "ended"
  /\ IF subscriber.how = "raised"
     THEN lifespan' = "failed" /\ UNCHANGED unclosed
     ELSE lifespan' = "closing" /\ unclosed' = unclosed \ {"publisher"}
  /\ UNCHANGED subscriber

(* hub.aclose has returned or raised.                                      *)
HubClosed ==
  /\ lifespan = "closing"
  /\ lifespan' = "over"
  /\ UNCHANGED <<subscriber, unclosed>>

LifespanNext ==
  \/ EndsAtStart \/ StartsToSubscribe \/ ChannelSubscribed \/ GetsMessage \/ DeliveryOver \/ RedisRaises
  \/ ChannelUnsubscribed \/ PubsubClosed \/ ClientClosed \/ IsCancelled
  \/ ShutsDown \/ TaskAwaited \/ HubClosed

LifespanSpec == LifespanInit /\ [][LifespanNext]_lifespanVars

LifespanTypeOK ==
  /\ subscriber \in [at : Awaitable \cup {"ended"}, how : {"none", "returned", "raised", "cancelled"},
                     cancelling : BOOLEAN, last : Awaitable \cup {"none"}]
  /\ unclosed \subseteq {"publisher", "subscriber"}
  /\ lifespan \in {"serving", "awaiting", "closing", "over", "failed"}

------------------------------------------------------------------------------
(* The hub is closed only when no task can deliver to it any more, and it  *)
(* stays open for good exactly if the task ended with an exception of its  *)
(* own -- the shutdown then fails with it -- even one from long before.    *)
(* The task leaves its own client open exactly if `subscribe` raised or    *)
(* was cancelled, or if the cancellation came while it was cleaning up     *)
(* after an exception: that it was cancelled then hides the exception, and *)
(* the shutdown goes on.                                                   *)
LifespanReleases ==
  /\ lifespan \in {"closing", "over", "failed"} =>
       /\ subscriber.at = "ended"
       /\ subscriber.how = "raised" <=> lifespan = "failed"
       /\ "publisher" \in unclosed <=> lifespan = "failed"
  /\ subscriber.at = "ended" =>
       /\ "subscriber" \in unclosed <=>
            subscriber.last \in {"subscribing", "unsubscribing", "closing_pubsub"}
       /\ subscriber.last \in {"unsubscribing", "closing_pubsub"} => subscriber.how = "cancelled"
=============================================================================
