------------------------------ MODULE JobSpec ------------------------------
(***************************************************************************)
(* What the background job queue promises of each job, whatever its order  *)
(* and its delays: it runs at most MaxAttempts times, once at a time; it   *)
(* ends done, or dead after that many runs (or at once without a handler); *)
(* and it is lost only while it runs.                                      *)
(***************************************************************************)
EXTENDS Integers

CONSTANTS Jobs, Handled, MaxAttempts

VARIABLES
  fate,   \* where a job stands
  runs    \* how often its handler was called

jobVars == <<fate, runs>>

Moves(j, from, to) == fate[j] = from /\ fate' = [fate EXCEPT ![j] = to]

Submit(j) == Moves(j, "absent", "waiting") /\ UNCHANGED runs
Start(j) ==
  /\ j \in Handled /\ runs[j] < MaxAttempts
  /\ Moves(j, "waiting", "running")
  /\ runs' = [runs EXCEPT ![j] = @ + 1]
Finish(j) == Moves(j, "running", "done") /\ UNCHANGED runs
Again(j) == runs[j] < MaxAttempts /\ Moves(j, "running", "waiting") /\ UNCHANGED runs
Bury(j) == runs[j] = MaxAttempts /\ Moves(j, "running", "dead") /\ UNCHANGED runs
Reject(j) == j \notin Handled /\ Moves(j, "waiting", "dead") /\ UNCHANGED runs
Lose(j) == Moves(j, "running", "lost") /\ UNCHANGED runs

JobInit == fate = [j \in Jobs |-> "absent"] /\ runs = [j \in Jobs |-> 0]
JobNext == \E j \in Jobs : \/ Submit(j) \/ Start(j) \/ Finish(j) \/ Again(j)
                           \/ Bury(j) \/ Reject(j) \/ Lose(j)
JobPromise == JobInit /\ [][JobNext]_jobVars
=============================================================================
