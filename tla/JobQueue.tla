------------------------------ MODULE JobQueue ------------------------------
(***************************************************************************)
(* InMemoryBackgroundJobQueue (jobs/memory.py): one event loop, several    *)
(* tasks calling run_next.  A job leaves the queue before its handler is   *)
(* awaited and comes back, at the tail and with a delay, when it failed.   *)
(* Times are relative: a job holds the seconds until its available_at.     *)
(***************************************************************************)
EXTENDS Backoff, Sequences, SequencesExt, FiniteSets

CONSTANTS
  Jobs,          \* every job ever enqueued
  Handled,       \* those whose name has a handler
  Runners,       \* tasks that call run_next
  NoJob,         \* "this runner awaits no handler"
  MaxAttempts, BaseDelay, Multiplier, MaxDelay    \* RetryPolicy

ASSUME RetryPolicyAssumption ==
  /\ MaxAttempts \in Nat \ {0}
  /\ BaseDelay \in Nat /\ Multiplier \in Nat /\ MaxDelay \in Nat

(* It follows from the types of the constants, by an induction over the    *)
(* exponent in Delay.                                                      *)
ASSUME WaitsAssumption ==
  \A a \in 1..MaxAttempts : Delay(BaseDelay, Multiplier, MaxDelay, a) \in 0..MaxDelay

Job == [id : Jobs, attempts : 0..MaxAttempts, wait : 0..MaxDelay]

ASSUME NoJobAssumption == NoJob \notin Job

VARIABLES
  pending,   \* _pending: jobs in order, with their attempts and wait
  running,   \* the job whose handler a runner awaits
  dead,      \* _dead_letter
  tried,     \* history: how often a job's handler was called
  ended      \* history: jobs that succeeded or were lost

queueVars == <<pending, running, dead, tried, ended>>

QueueInit ==
  /\ pending = <<>>
  /\ running = [w \in Runners |-> NoJob]
  /\ dead = {}
  /\ tried = [j \in Jobs |-> 0]
  /\ ended = [j \in Jobs |-> "no"]

Waiting == {pending[i].id : i \in DOMAIN pending}
Awaited == {running[w].id : w \in {v \in Runners : running[v] # NoJob}}
Buried == {d.id : d \in dead}
Known == Waiting \cup Awaited \cup Buried \cup {j \in Jobs : ended[j] # "no"}

Enqueue(j) ==
  /\ j \notin Known
  /\ pending' = Append(pending, [id |-> j, attempts |-> 0, wait |-> 0])
  /\ UNCHANGED <<running, dead, tried, ended>>

(* Only the head is looked at.                                             *)
Available(w) == running[w] = NoJob /\ pending # <<>> /\ Head(pending).wait = 0

(* run_next: the head leaves the queue and its handler is awaited.         *)
RunNext(w) ==
  LET job == Head(pending)
  IN /\ Available(w) /\ job.id \in Handled
     /\ pending' = Tail(pending)
     /\ running' = [running EXCEPT ![w] = [job EXCEPT !.attempts = @ + 1]]
     /\ tried' = [tried EXCEPT ![job.id] = @ + 1]
     /\ UNCHANGED <<dead, ended>>

(* mutated form: a job without a handler goes back to the queue            *)
NoHandlerRequeues(w) ==
  /\ Available(w) /\ Head(pending).id \notin Handled
  /\ pending' = Append(Tail(pending), Head(pending))
  /\ UNCHANGED <<running, dead, tried, ended>>

(* run_next of a job nothing is registered for.                            *)
NoHandler(w) ==
  /\ Available(w) /\ Head(pending).id \notin Handled
  /\ pending' = Tail(pending)
  /\ dead' = dead \cup {Head(pending)}
  /\ UNCHANGED <<running, tried, ended>>

Leaves(w, how) ==
  /\ running' = [running EXCEPT ![w] = NoJob]
  /\ ended' = [ended EXCEPT ![running[w].id] = how]

HandlerSucceeds(w) ==
  /\ Leaves(w, "done")
  /\ UNCHANGED <<pending, dead, tried>>

(* mutated form: a retried job does not keep its count                     *)
HandlerRaisesUncounted(w) ==
  /\ Leaves(w, "no")
  /\ IF running[w].attempts >= MaxAttempts
     THEN dead' = dead \cup {running[w]} /\ UNCHANGED pending
     ELSE /\ pending' = Append(pending, [id |-> running[w].id, attempts |-> 0, wait |-> 0])
          /\ UNCHANGED dead
  /\ UNCHANGED tried

(* The handler raised an Exception: a dead letter after the last attempt,  *)
(* else back to the tail with the delay of the next one.                   *)
HandlerRaises(w) ==
  LET job == running[w]
  IN /\ Leaves(w, "no")
     /\ IF job.attempts >= MaxAttempts
        THEN dead' = dead \cup {job} /\ UNCHANGED pending
        ELSE /\ pending' = Append(pending,
                             [job EXCEPT !.wait = Delay(BaseDelay, Multiplier, MaxDelay, job.attempts + 1)])
             /\ UNCHANGED dead
     /\ UNCHANGED tried

(* The awaiting task is cancelled: CancelledError is not an Exception, and *)
(* the job is in no structure any more.                                    *)
Cancelled(w) ==
  /\ Leaves(w, "lost")
  /\ UNCHANGED <<pending, dead, tried>>

QueueTick == pending' = [i \in DOMAIN pending |-> [pending[i] EXCEPT !.wait = Max({0, @ - 1})]]

QueueTypeOK ==
  /\ pending \in Seq(Job) /\ dead \subseteq Job
  /\ running \in [Runners -> Job \cup {NoJob}]
  /\ tried \in [Jobs -> 0..MaxAttempts]
  /\ ended \in [Jobs -> {"no", "done", "lost"}]

------------------------------------------------------------------------------
(* What the queue implements.                                              *)

FateOf(j) ==
  CASE ended[j] # "no"  -> ended[j]
    [] j \in Buried     -> "dead"
    [] j \in Awaited    -> "running"
    [] j \in Waiting    -> "waiting"
    [] OTHER            -> "absent"

Promise == INSTANCE JobSpec WITH fate <- [j \in Jobs |-> FateOf(j)], runs <- tried
=============================================================================
