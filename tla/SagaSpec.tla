------------------------------ MODULE SagaSpec ------------------------------
(***************************************************************************)
(* What a saga promises, without stores and callbacks: steps are done in   *)
(* order; once one fails no further step is done, and those done are       *)
(* handled one by one from the last to the first, each undone or given up; *)
(* the saga succeeds only when every step is done and none was undone.     *)
(* The process or the task may be stopped at any time.                     *)
(***************************************************************************)
EXTENDS Integers

CONSTANT MaxSteps    \* bound: steps of a saga

VARIABLES
  n,      \* steps of this saga
  mode,   \* forward, backward, or how it ended
  done,   \* steps 1..done were executed
  next,   \* backward: steps 1..next are still to be handled
  fate    \* what became of each step

specVars == <<n, mode, done, next, fate>>

Undone == \E s \in 1..MaxSteps : fate[s] = "undone"

SpecInit ==
  /\ n \in 0..MaxSteps
  /\ mode = "forward"
  /\ done = 0
  /\ next = 0
  /\ fate = [s \in 1..MaxSteps |-> "untouched"]

Do ==
  /\ mode = "forward" /\ done < n
  /\ done' = done + 1
  /\ fate' = [fate EXCEPT ![done + 1] = "done"]
  /\ UNCHANGED <<n, mode, next>>

Fail ==
  /\ mode = "forward"
  /\ mode' = "backward"
  /\ next' = done
  /\ UNCHANGED <<n, done, fate>>

Handle ==
  /\ mode = "backward" /\ next > 0
  /\ \E f \in {"undone", "given_up"} : fate' = [fate EXCEPT ![next] = f]
  /\ next' = next - 1
  /\ UNCHANGED <<n, mode, done>>

End ==
  /\ \/ mode = "forward" /\ done = n /\ mode' = "succeeded"
     \/ mode = "backward" /\ next = 0 /\ mode' = IF Undone THEN "compensated" ELSE "failed"
  /\ UNCHANGED <<n, done, next, fate>>

Abandon ==
  /\ mode \in {"forward", "backward"}
  /\ mode' = "abandoned"
  /\ UNCHANGED <<n, done, next, fate>>

SpecNext == Do \/ Fail \/ Handle \/ End \/ Abandon

SagaPromise == SpecInit /\ [][SpecNext]_specVars
=============================================================================
