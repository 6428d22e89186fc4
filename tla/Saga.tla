-------------------------------- MODULE Saga --------------------------------
(***************************************************************************)
(* SagaOrchestrator.run (saga.py), one saga: the forward loop over the     *)
(* steps, the compensation loop, the calls of the state store between them *)
(* and the compensation-failure callback.  Every call that may raise, and  *)
(* every await at which the task may be cancelled, is a step of its own; a *)
(* crash of the process may come between any two.                          *)
(***************************************************************************)
EXTENDS Integers

CONSTANT MaxSteps    \* bound: steps of a saga
ASSUME OrchestratorAssumption == MaxSteps \in Nat

Steps == 1..MaxSteps

VARIABLES
  n,           \* number of steps registered for this saga
  callback,    \* an on_compensation_failure was given
  storeFails,  \* the state store is one whose calls may raise
  pc,          \* the call run is about to make, or how it ended
  executed,    \* executed_steps: the steps 1..executed
  left,        \* compensation loop: the steps 1..left are still ahead of it
  compensated, \* compensated_names
  gaveUp,      \* history: steps whose compensate raised
  status,      \* of the result returned
  effect,      \* the world: what a step's operation has left behind
  reported,    \* the world: steps the callback was called for
  recorded,    \* the store: steps recorded as executed
  finished     \* the store: last terminal status recorded

vars == <<n, callback, storeFails, pc, executed, left, compensated, gaveUp, status,
          effect, reported, recorded, finished>>
config == <<n, callback, storeFails>>
progress == <<executed, left, compensated, gaveUp>>
world == <<effect, reported>>
store == <<recorded, finished>>

Ended == {"returned", "escaped", "abandoned"}

Init ==
  /\ n \in 0..MaxSteps
  /\ callback \in BOOLEAN /\ storeFails \in BOOLEAN
  /\ pc = "start"
  /\ executed = 0 /\ left = 0 /\ compensated = {} /\ gaveUp = {}
  /\ status = "none" /\ finished = "none"
  /\ effect = [s \in Steps |-> "none"]
  /\ reported = {} /\ recorded = {}

(* run raises: an exception from outside its try, or from its handler.     *)
Escapes ==
  /\ pc' = "escaped"
  /\ UNCHANGED <<config, progress, status, world, store>>

(* The compensation loop, reversed(executed_steps), with the steps 1..left *)
(* still ahead of it.                                                      *)
LoopHead == IF left > 0 THEN "compensate" ELSE "finish_failed"

StartCompensating ==
  /\ left' = executed
  /\ pc' = IF executed > 0 THEN "compensate" ELSE "finish_failed"

(* mutated form: the compensation loop runs in execution order             *)
ToCompensateForward == executed - left + 1

ToCompensate == left

JustCompensated == left + 1

(* state_store.start, outside the try.                                     *)
Start ==
  /\ pc = "start"
  /\ \/ /\ pc' = IF n = 0 THEN "finish" ELSE "execute"
        /\ UNCHANGED <<config, progress, status, world, store>>
     \/ storeFails /\ Escapes

(* await step.execute returned.                                            *)
ExecuteReturns ==
  /\ pc = "execute"
  /\ executed' = executed + 1
  /\ effect' = [effect EXCEPT ![executed + 1] = "applied"]
  /\ pc' = "record"
  /\ UNCHANGED <<config, left, compensated, gaveUp, status, reported, store>>

(* It raised, before or after its effect: a failed step is not in          *)
(* executed_steps and is never compensated.                                *)
ExecuteRaises ==
  /\ pc = "execute"
  /\ \E e \in {"none", "applied"} : effect' = [effect EXCEPT ![executed + 1] = e]
  /\ StartCompensating
  /\ UNCHANGED <<config, executed, compensated, gaveUp, status, reported, store>>

(* mutated form: a failing state store is ignored                          *)
RecordSwallowed ==
  /\ pc = "record"
  /\ \/ recorded' = recorded \cup {executed}
     \/ storeFails /\ UNCHANGED recorded
  /\ pc' = IF executed < n THEN "execute" ELSE "finish"
  /\ UNCHANGED <<config, progress, status, world, finished>>

(* state_store.step_executed: it records the step, or raises before or     *)
(* after it did.                                                           *)
Record ==
  /\ pc = "record"
  /\ \/ /\ recorded' = recorded \cup {executed}
        /\ pc' = IF executed < n THEN "execute" ELSE "finish"
        /\ UNCHANGED left
     \/ /\ storeFails
        /\ recorded' \in {recorded, recorded \cup {executed}}
        /\ StartCompensating
  /\ UNCHANGED <<config, executed, compensated, gaveUp, status, world, finished>>

(* state_store.finish(SUCCEEDED), inside the try: if it raises, a saga     *)
(* whose steps all succeeded, and which may be recorded so, is compensated.*)
Finish ==
  /\ pc = "finish"
  /\ \/ /\ finished' = "succeeded"
        /\ pc' = "returned" /\ status' = "succeeded"
        /\ UNCHANGED left
     \/ /\ storeFails
        /\ finished' \in {finished, "succeeded"}
        /\ StartCompensating
        /\ UNCHANGED status
  /\ UNCHANGED <<config, executed, compensated, gaveUp, world, recorded>>

(* await step.compensate returned.                                         *)
CompensateReturns ==
  /\ pc = "compensate"
  /\ compensated' = compensated \cup {ToCompensate}
  /\ effect' = [effect EXCEPT ![ToCompensate] = "reverted"]
  /\ left' = left - 1
  /\ pc' = "record_compensated"
  /\ UNCHANGED <<config, executed, gaveUp, status, reported, store>>

(* It raised, before or after it reverted the effect.                      *)
CompensateRaises ==
  /\ pc = "compensate"
  /\ gaveUp' = gaveUp \cup {ToCompensate}
  /\ \E e \in {"applied", "reverted"} : effect' = [effect EXCEPT ![ToCompensate] = e]
  /\ left' = left - 1
  /\ pc' = "report"
  /\ UNCHANGED <<config, executed, compensated, status, reported, store>>

(* state_store.step_compensated; a failure of it is handled as a failure   *)
(* to compensate.                                                          *)
RecordCompensated ==
  /\ pc = "record_compensated"
  /\ pc' \in {LoopHead} \cup (IF storeFails THEN {"report"} ELSE {})
  /\ UNCHANGED <<config, progress, status, world, store>>

(* mutated form: the callback is called for the first failure only         *)
ReportOnce ==
  /\ pc = "report"
  /\ reported' = IF callback /\ reported = {} THEN {JustCompensated} ELSE reported
  /\ pc' = LoopHead
  /\ UNCHANGED <<config, progress, status, effect, store>>

(* The callback, if there is one.  It is not guarded: if it raises, run    *)
(* ends and the remaining steps are not compensated.                       *)
Report ==
  /\ pc = "report"
  /\ reported' = IF callback THEN reported \cup {JustCompensated} ELSE reported
  /\ pc' \in {LoopHead} \cup (IF callback THEN {"escaped"} ELSE {})
  /\ UNCHANGED <<config, progress, status, effect, store>>

FinalStatus == IF compensated # {} THEN "compensated" ELSE "failed"

(* state_store.finish at the end of the compensations.                     *)
FinishFailed ==
  /\ pc = "finish_failed"
  /\ \/ /\ finished' = FinalStatus
        /\ pc' = "returned" /\ status' = FinalStatus
     \/ /\ storeFails
        /\ finished' \in {finished, FinalStatus}
        /\ pc' = "escaped" /\ UNCHANGED status
  /\ UNCHANGED <<config, progress, world, recorded>>

(* The process crashes, or the task is cancelled at an await, before or    *)
(* after the effect of what it awaits.  Its CancelledError is no           *)
(* Exception, so nothing is compensated.                                   *)
Abandoned ==
  /\ pc \notin Ended
  /\ pc' = "abandoned"
  /\ \/ UNCHANGED effect
     \/ pc = "execute" /\ effect' = [effect EXCEPT ![executed + 1] = "applied"]
     \/ pc = "compensate" /\ effect' = [effect EXCEPT ![ToCompensate] = "reverted"]
  /\ UNCHANGED <<config, progress, status, reported, store>>

Next ==
  \/ Start \/ ExecuteReturns \/ ExecuteRaises \/ Record \/ Finish
  \/ CompensateReturns \/ CompensateRaises \/ RecordCompensated \/ Report
  \/ FinishFailed \/ Abandoned

Spec == Init /\ [][Next]_vars

------------------------------------------------------------------------------
(* Properties.                                                             *)

TypeOK ==
  /\ n \in 0..MaxSteps
  /\ callback \in BOOLEAN /\ storeFails \in BOOLEAN
  /\ pc \in {"start", "execute", "record", "finish", "compensate", "record_compensated",
             "report", "finish_failed"} \cup Ended
  /\ executed \in 0..n
  /\ left \in 0..executed
  /\ compensated \subseteq Steps /\ gaveUp \subseteq Steps
  /\ status \in {"none", "succeeded", "compensated", "failed"}
  /\ finished \in {"none", "succeeded", "compensated", "failed"}
  /\ effect \in [Steps -> {"none", "applied", "reverted"}]
  /\ reported \subseteq Steps
  /\ recorded \subseteq Steps

(* The saga's promise, with a step handled at the moment its compensate    *)
(* returns or raises.                                                      *)
Promise ==
  INSTANCE SagaSpec WITH
    mode <- IF pc \in {"start", "execute", "record", "finish"} THEN "forward"
            ELSE IF pc = "returned" THEN status
            ELSE IF pc \in Ended THEN "abandoned" ELSE "backward",
    done <- executed,
    next <- left,
    fate <- [s \in Steps |-> IF s \in compensated THEN "undone"
                             ELSE IF s \in gaveUp THEN "given_up"
                             ELSE IF s <= executed THEN "done" ELSE "untouched"]

(* run implements the saga's promise: steps in order, compensation of the  *)
(* executed ones only, each once, from the last to the first, no step done *)
(* after a failure, and a status that says what happened.                  *)
KeepsPromise == Promise!SagaPromise

(* When run returns a result that is not a success, each executed step was *)
(* compensated or, where a callback was given, reported to it: nothing     *)
(* that was done is silently left in place.                                *)
HandledOrReported ==
  (pc = "returned" /\ status # "succeeded" /\ callback) =>
    \A s \in 1..executed : effect[s] = "reverted" \/ s \in reported

(* A saga that returns success has done every step, undone none, and is    *)
(* recorded as a success, whatever the store raised on the way.            *)
SuccessIsComplete ==
  (pc = "returned" /\ status = "succeeded") =>
    /\ executed = n
    /\ \A s \in 1..n : effect[s] = "applied" /\ s \in recorded
    /\ finished = "succeeded"

(* The result says what was done, whichever it is.                         *)
ResultIsTrue == HandledOrReported /\ SuccessIsComplete

(* However a saga was cut off, the store has every executed step but       *)
(* perhaps the last, and no other: what a recovery would start from.       *)
OnlyLastUnrecorded == 1..(executed - 1) \subseteq recorded /\ recorded \subseteq 1..executed

(* saga.py:107, "Run saga steps; compensate in reverse order on failure.": *)
(* when run is over, and was not cancelled or crashed, after a failure     *)
(* every executed step was handed to compensate.                           *)
FailureCompensatesAll ==
  (pc \in {"returned", "escaped"} /\ status # "succeeded" /\ executed > 0) =>
    \A s \in 1..executed : s \in compensated \cup gaveUp
=============================================================================
