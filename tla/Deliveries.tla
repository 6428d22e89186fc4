----------------------------- MODULE Deliveries -----------------------------
(***************************************************************************)
(* Background jobs, some of whose handlers await the dispatch of a webhook *)
(* event and raise when it was dead-lettered: the queue's retries on top   *)
(* of the dispatcher's.  Other handlers succeed or raise as they please.   *)
(***************************************************************************)
EXTENDS JobQueue, Webhooks

ASSUME DeliveriesAssumption == Events \subseteq Jobs \cap Handled /\ MaxRuns = MaxAttempts

vars == <<queueVars, hookVars>>

Init == QueueInit /\ HookInit

Awaits(w) == running[w] # NoJob
JobOf(w) == running[w].id

HandlerDispatches(w) ==
  /\ Awaits(w) /\ JobOf(w) \in Events
  /\ Dispatches(JobOf(w), running[w].attempts)
  /\ UNCHANGED queueVars

HandlerEnds(w) ==
  /\ Awaits(w)
  /\ \/ /\ JobOf(w) \notin Events
        /\ HandlerSucceeds(w) \/ HandlerRaises(w)
        /\ UNCHANGED hookVars
     \/ /\ JobOf(w) \in Events
        /\ \/ post[JobOf(w)].at = "succeeded" /\ HandlerSucceeds(w)
           \/ post[JobOf(w)].at = "dead_lettered" /\ HandlerRaises(w)
        /\ DispatchGone(JobOf(w))

RunnerCancelled(w) ==
  /\ Awaits(w) /\ Cancelled(w)
  /\ IF JobOf(w) \in Events THEN DispatchGone(JobOf(w)) ELSE UNCHANGED hookVars

RunnerStep(w) ==
  \/ (RunNext(w) \/ NoHandler(w)) /\ UNCHANGED hookVars
  \/ HandlerDispatches(w)
  \/ HandlerEnds(w)

Submitted(j) == Enqueue(j) /\ UNCHANGED hookVars
Posting(e) == Answered(e) /\ UNCHANGED queueVars
SendEnds(e) == TransportRaises(e) /\ UNCHANGED queueVars
Network == \E m \in flying : (Receives(m) \/ Vanishes(m)) /\ UNCHANGED queueVars

(* A second passes.                                                        *)
Tick ==
  /\ QueueTick /\ HookTick
  /\ UNCHANGED <<running, dead, tried, ended, post, letters, received>>

Next ==
  \/ \E j \in Jobs : Submitted(j)
  \/ \E w \in Runners : RunnerStep(w) \/ RunnerCancelled(w)
  \/ \E e \in Events : Posting(e) \/ SendEnds(e)
  \/ Tick \/ Network

(* Fairness: the loop runs every task that is ready, a send ends (if only  *)
(* by its timeout), the clock runs, and a runner calls run_next again.     *)
(* Submitting, cancelling and the network are free.                        *)
Spec ==
  /\ Init /\ [][Next]_vars
  /\ WF_vars(Tick)
  /\ \A w \in Runners : WF_vars(RunnerStep(w))
  /\ \A e \in Events : WF_vars(Posting(e)) /\ WF_vars(SendEnds(e))

TypeOK == QueueTypeOK /\ HookTypeOK

------------------------------------------------------------------------------
(* InMemoryBackgroundJobQueue keeps the promise of JobSpec, under several  *)
(* runners, retries with delays and cancelled runners: no job runs twice   *)
(* at once or too often, is buried early or vanishes except while it runs. *)
JobsKept == Promise!JobPromise

(* Every submitted job comes to an end, whatever the webhook receiver      *)
(* answers: a delayed head of the queue holds the others up, but not for   *)
(* good.                                                                   *)
JobsSettle == \A j \in Jobs : j \in Waiting ~> (ended[j] # "no" \/ j \in Buried)

(* At least once, end to end: a webhook job that counts as done was        *)
(* handled by the receiver, in that very run of the job.                   *)
DoneWasReceived ==
  \A e \in Events : ended[e] = "done" => [event |-> e, run |-> tried[e]] \in received
=============================================================================
