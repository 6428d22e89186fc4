------------------------------ MODULE Webhooks ------------------------------
(***************************************************************************)
(* WebhookDispatcher.dispatch (webhooks/dispatcher.py) against the inbound *)
(* endpoint (inbound.py): a request may be lost, or arrive after the       *)
(* sender has given it up; so may the response.                            *)
(***************************************************************************)
EXTENDS Integers, FiniteSets, FiniteSetsExt

CONSTANTS
  Events,          \* events to deliver
  HookAttempts,    \* RetryPolicy.max_attempts of the dispatcher
  Skew,            \* allowed_skew_seconds of the receiver
  MaxRuns          \* bound: dispatches of one event

ASSUME HookAssumption == HookAttempts \in Nat \ {0} /\ Skew \in Nat

VARIABLES
  post,      \* the dispatch of an event: what it awaits and its attempt
  flying,    \* external: requests on their way, and their age since signing
  letters,   \* _dead_letters: the dispatches that were given up
  received   \* history: what the receiver's handler was called with

hookVars == <<post, flying, letters, received>>

NoPost == [at |-> "idle", attempt |-> 0, run |-> 0]
Settled == {"succeeded", "dead_lettered"}

HookInit ==
  /\ post = [e \in Events |-> NoPost]
  /\ flying = {} /\ letters = {} /\ received = {}

Signed(e, run, attempt) == [event |-> e, run |-> run, attempt |-> attempt, age |-> 0]

(* Each attempt is signed anew, with the time it is sent at.               *)
Sends(e, run, attempt) ==
  /\ post' = [post EXCEPT ![e] = [at |-> "sending", attempt |-> attempt, run |-> run]]
  /\ flying' = flying \cup {Signed(e, run, attempt)}

Dispatches(e, run) ==
  /\ post[e].at = "idle"
  /\ Sends(e, run, 1)
  /\ UNCHANGED <<letters, received>>

(* The response, if the sender still waits for this attempt.               *)
Responds(m, response) ==
  post' = IF post[m.event] = [at |-> "sending", attempt |-> m.attempt, run |-> m.run]
          THEN [post EXCEPT ![m.event].at = response] ELSE post

(* mutated form: a handler that raised is answered with success            *)
ReceivesSwallowing(m) ==
  /\ m \in flying
  /\ flying' = flying \ {m}
  /\ \/ received' = received \cup {[event |-> m.event, run |-> m.run]}
     \/ UNCHANGED received
  /\ Responds(m, IF m.age > Skew THEN "refused" ELSE "accepted")
  /\ UNCHANGED letters

(* receive: a stale signature is 401, a handler that raises is a 500.      *)
Receives(m) ==
  /\ m \in flying
  /\ flying' = flying \ {m}
  /\ \/ /\ m.age > Skew
        /\ Responds(m, "refused")
        /\ UNCHANGED received
     \/ /\ m.age <= Skew
        /\ received' = received \cup {[event |-> m.event, run |-> m.run]}
        /\ Responds(m, "accepted")
     \/ /\ m.age <= Skew
        /\ Responds(m, "raised")
        /\ UNCHANGED received
  /\ UNCHANGED letters

Vanishes(m) ==
  /\ m \in flying
  /\ flying' = flying \ {m}
  /\ UNCHANGED <<post, letters, received>>

(* transport.send raises: a timeout, or a response that was lost.  The     *)
(* request may still arrive.                                               *)
TransportRaises(e) ==
  /\ post[e].at \in {"sending", "accepted", "refused", "raised"}
  /\ post' = [post EXCEPT ![e].at = "raised"]
  /\ UNCHANGED <<flying, letters, received>>

Ends(e, how) == post' = [post EXCEPT ![e].at = how]

Answered(e) ==
  \/ /\ post[e].at = "accepted"
     /\ Ends(e, "succeeded")
     /\ UNCHANGED <<flying, letters, received>>
  \/ /\ post[e].at = "raised" /\ post[e].attempt < HookAttempts
     /\ Sends(e, post[e].run, post[e].attempt + 1)
     /\ UNCHANGED <<letters, received>>
  \/ /\ \/ post[e].at = "refused"
        \/ post[e].at = "raised" /\ post[e].attempt = HookAttempts
     /\ Ends(e, "dead_lettered")
     /\ letters' = letters \cup {[event |-> e, run |-> post[e].run]}
     /\ UNCHANGED <<flying, received>>

DispatchGone(e) ==
  /\ post' = [post EXCEPT ![e] = NoPost]
  /\ UNCHANGED <<flying, letters, received>>

HookTick == flying' = {[m EXCEPT !.age = Min({Skew + 1, @ + 1})] : m \in flying}

HookTypeOK ==
  /\ post \in [Events -> [at : {"idle", "sending", "accepted", "refused", "raised"} \cup Settled,
                          attempt : 0..HookAttempts, run : 0..MaxRuns]]
  /\ flying \subseteq [event : Events, run : 1..MaxRuns, attempt : 1..HookAttempts, age : 0..Skew + 1]
  /\ letters \subseteq [event : Events, run : 1..MaxRuns]
  /\ received \subseteq [event : Events, run : 1..MaxRuns]
=============================================================================
