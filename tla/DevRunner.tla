----------------------------- MODULE DevRunner -----------------------------
(***************************************************************************)
(* `eitohforge dev` (eitohforge_cli/commands/dev.py): starts the services  *)
(* of forge.dev.json one after the other, waits for each in turn, and on   *)
(* Ctrl-C terminates all and waits again.  A service may exit, or stay, as *)
(* it likes.                                                               *)
(***************************************************************************)
EXTENDS Integers

CONSTANT Services    \* how many services the manifest lists

ASSUME ServicesAssumption == Services \in Nat \ {0}

VARIABLES
  child,    \* external: the services' processes
  asked,    \* those that were sent SIGTERM
  runner    \* where the runner is, at which service, and how it ended

runnerVars == <<child, asked, runner>>

At(phase, k) == runner.at = phase /\ runner.k = k
Moves(phase, k) == runner' = [at |-> phase, k |-> k, how |-> "none"]
Ends(how) == runner' = [at |-> "ended", k |-> 0, how |-> how]

(* The loops go over all services in the order of the manifest.            *)
NextOr(k, phase, done) == IF k < Services THEN Moves(phase, k + 1) ELSE done

RunnerInit ==
  /\ child = [s \in 1..Services |-> "none"]
  /\ asked = {}
  /\ runner = [at |-> "starting", k |-> 1, how |-> "none"]

Starts(k) ==
  /\ At("starting", k)
  /\ child' = [child EXCEPT ![k] = "runs"]
  /\ NextOr(k, "starting", Moves("started", 0))
  /\ UNCHANGED asked

(* An entry is malformed, Popen raises, or Ctrl-C comes: the processes     *)
(* started so far are left alone.                                          *)
StartFails ==
  /\ runner.at = "starting"
  /\ Ends("not_started")
  /\ UNCHANGED <<child, asked>>

(* All are started, and now the try begins.  A Ctrl-C before it ends the   *)
(* runner like any other program.                                          *)
StartsToWait ==
  /\ runner.at = "started"
  /\ Moves("waiting", 1)
  /\ UNCHANGED <<child, asked>>

InterruptedBeforeWaiting ==
  /\ runner.at = "started"
  /\ Ends("interrupted_early")
  /\ UNCHANGED <<child, asked>>

WaitReturns(k) ==
  /\ At("waiting", k) /\ child[k] = "exited"
  /\ NextOr(k, "waiting", Ends("all_exited"))
  /\ UNCHANGED <<child, asked>>

(* mutated form: the services are only waited for                          *)
InterruptedUnasked ==
  /\ runner.at = "waiting"
  /\ Moves("reaping", 1)
  /\ UNCHANGED <<child, asked>>

Interrupted ==
  /\ runner.at = "waiting"
  /\ Moves("terminating", 1)
  /\ UNCHANGED <<child, asked>>

Terminates(k) ==
  /\ At("terminating", k)
  /\ asked' = asked \cup {k}
  /\ NextOr(k, "terminating", Moves("reaping", 1))
  /\ UNCHANGED child

Reaps(k) ==
  /\ At("reaping", k) /\ child[k] = "exited"
  /\ NextOr(k, "reaping", Ends("stopped"))
  /\ UNCHANGED <<child, asked>>

(* wait(timeout=5) raises; the services behind are not waited for.         *)
ReapTimesOut(k) ==
  /\ At("reaping", k) /\ child[k] = "runs"
  /\ Ends("timed_out")
  /\ UNCHANGED <<child, asked>>

InterruptedAgain ==
  /\ runner.at \in {"terminating", "reaping"}
  /\ Ends("interrupted_again")
  /\ UNCHANGED <<child, asked>>

ServiceExits(s) ==
  /\ child[s] = "runs"
  /\ child' = [child EXCEPT ![s] = "exited"]
  /\ UNCHANGED <<asked, runner>>

RunnerNext ==
  \/ \E k \in 1..Services : \/ Starts(k) \/ WaitReturns(k) \/ Terminates(k)
                            \/ Reaps(k) \/ ReapTimesOut(k) \/ ServiceExits(k)
  \/ StartFails \/ StartsToWait \/ InterruptedBeforeWaiting
  \/ Interrupted \/ InterruptedAgain

RunnerSpec == RunnerInit /\ [][RunnerNext]_runnerVars

RunnerTypeOK ==
  /\ child \in [1..Services -> {"none", "runs", "exited"}]
  /\ asked \subseteq 1..Services /\ runner.k \in 0..Services

------------------------------------------------------------------------------
(* When the runner has ended, no service still runs that was not asked to  *)
(* terminate -- unless a later one could not be started, Ctrl-C came after *)
(* the last was started and before the waiting began, or a second Ctrl-C   *)
(* cut the asking short; and none runs at all when it ended by itself or   *)
(* reports that it stopped them.                                           *)
NoServiceForgotten ==
  runner.at = "ended" =>
    \A s \in 1..Services : child[s] = "runs" =>
      \/ runner.how \in {"not_started", "interrupted_early", "interrupted_again"}
      \/ runner.how = "timed_out" /\ s \in asked
=============================================================================
