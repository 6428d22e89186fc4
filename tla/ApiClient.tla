----------------------------- MODULE ApiClient -----------------------------
(***************************************************************************)
(* ResilientExternalApiClient (external_api/client.py): calls on one event *)
(* loop share a circuit breaker.  A call decides at its start whether it   *)
(* may go out and may retry, then awaits the transport and its own sleeps; *)
(* the circuit may change under it meanwhile.                              *)
(***************************************************************************)
EXTENDS Backoff, Sequences, SequencesExt, FiniteSets

CONSTANTS
  Callers,            \* tasks that make calls
  Idempotent,         \* those whose method is in retry_methods
  CallAttempts, CallBase, CallMultiplier, CallMaxDelay,    \* RetryStrategy
  FailureThreshold, RecoveryTimeout    \* CircuitBreakerSettings

ASSUME CircuitAssumption ==
  /\ CallAttempts \in Nat \ {0}
  /\ FailureThreshold \in Nat \ {0}
  /\ RecoveryTimeout \in Nat
  /\ CallBase \in Nat /\ CallMultiplier \in Nat /\ CallMaxDelay \in Nat

(* It follows from the types of the constants, by an induction over the    *)
(* exponent in Delay.                                                      *)
ASSUME DelaysAssumption ==
  \A a \in 1..CallAttempts : Delay(CallBase, CallMultiplier, CallMaxDelay, a) \in 0..CallMaxDelay

Closed == -1

VARIABLES
  up,        \* external: whether the API answers with success
  call,      \* a caller's call: what it awaits, its attempt and allow_retries
  failures,  \* _failure_count, saturating at the threshold
  opened,    \* seconds since _opened_at, up to the timeout; or Closed
  recent,    \* history: the last FailureThreshold outcomes of calls
  early      \* history: calls that began before the circuit last opened

clientVars == <<up, call, failures, opened, recent, early>>

Ended == {"short_circuited", "succeeded", "failed"}
NoCall == [at |-> "idle", attempt |-> 0, retries |-> FALSE, wait |-> 0]
Call == [at : {"idle", "sending", "sleeping"} \cup Ended, attempt : 0..CallAttempts,
         retries : BOOLEAN, wait : 0..CallMaxDelay]

ClientInit ==
  /\ up \in BOOLEAN
  /\ call = [c \in Callers |-> NoCall]
  /\ failures = 0 /\ opened = Closed
  /\ recent = <<>> /\ early = {}

(* _state                                                                  *)
State == IF opened = Closed THEN "closed"
         ELSE IF opened >= RecoveryTimeout THEN "half_open" ELSE "open"

InFlight == {c \in Callers : call[c].at \in {"sending", "sleeping"}}

(* mutated form: the circuit is not looked at                              *)
BeginsUnchecked(c) ==
  /\ call[c].at = "idle"
  /\ call' = [call EXCEPT ![c] = [at |-> "sending", attempt |-> 1, retries |-> c \in Idempotent,
                                  wait |-> 0]]
  /\ UNCHANGED <<up, failures, opened, recent, early>>

Begins(c) ==
  /\ call[c].at = "idle"
  /\ call' = [call EXCEPT ![c] =
       IF State = "open" THEN [NoCall EXCEPT !.at = "short_circuited"]
       ELSE [at |-> "sending", attempt |-> 1, wait |-> 0,
             retries |-> State # "half_open" /\ c \in Idempotent]]
  /\ UNCHANGED <<up, failures, opened, recent, early>>

Remember(outcome) ==
  recent' = LET all == Append(recent, outcome)
            IN IF Len(all) > FailureThreshold THEN Tail(all) ELSE all

EndsCall(c, how) ==
  /\ call' = [call EXCEPT ![c] = [NoCall EXCEPT !.at = how]]
  /\ Remember(how)

(* mutated form: a success leaves the failures counted                     *)
OnSuccessCounting ==
  /\ opened' = Closed
  /\ UNCHANGED failures

(* mutated form: only a probe closes the circuit                           *)
OnSuccessOfProbe ==
  /\ failures' = 0
  /\ opened' = IF State = "open" THEN Closed ELSE opened

OnSuccess ==
  /\ failures' = 0
  /\ opened' = Closed

(* A failed probe, and any failure at the threshold, (re)starts the wait.  *)
OnFailure ==
  /\ failures' = IF State = "half_open" THEN FailureThreshold
                 ELSE Min({FailureThreshold, failures + 1})
  /\ opened' = IF failures' >= FailureThreshold THEN 0 ELSE opened

Succeeds(c) ==
  /\ call[c].at = "sending" /\ up
  /\ EndsCall(c, "succeeded")
  /\ OnSuccess
  /\ early' = early \ {c}
  /\ UNCHANGED up

(* mutated form: one attempt too many                                      *)
MayRetryOnceMore(c) == call[c].retries /\ call[c].attempt <= CallAttempts

MayRetry(c) == call[c].retries /\ call[c].attempt < CallAttempts

(* An exception or a status worth a retry.                                 *)
Retries(c) ==
  /\ call[c].at = "sending" /\ ~up
  /\ MayRetry(c)
  /\ call' = [call EXCEPT ![c].at = "sleeping",
       ![c].wait = Delay(CallBase, CallMultiplier, CallMaxDelay, call[c].attempt + 1)]
  /\ UNCHANGED <<up, failures, opened, recent, early>>

(* No attempt is left, or a status that is not retried.                    *)
Fails(c) ==
  /\ call[c].at = "sending" /\ ~up
  /\ EndsCall(c, "failed")
  /\ OnFailure
  /\ early' = IF opened' = 0 THEN InFlight \ {c} ELSE early \ {c}
  /\ UNCHANGED up

(* The sleep is over and the next attempt is sent.                         *)
SendsAgain(c) ==
  /\ call[c].at = "sleeping" /\ call[c].wait = 0
  /\ call' = [call EXCEPT ![c].at = "sending", ![c].attempt = @ + 1]
  /\ UNCHANGED <<up, failures, opened, recent, early>>

(* The caller has its result, or was cancelled: neither touches the        *)
(* circuit.                                                                *)
CallGone(c) ==
  /\ call' = [call EXCEPT ![c] = NoCall]
  /\ early' = early \ {c}
  /\ UNCHANGED <<up, failures, opened, recent>>

UpstreamChanges == up' = ~up /\ UNCHANGED <<call, failures, opened, recent, early>>

ClientTick ==
  /\ opened' = IF opened = Closed THEN Closed ELSE Min({RecoveryTimeout, opened + 1})
  /\ call' = [c \in Callers |-> [call[c] EXCEPT !.wait = Max({0, @ - 1})]]
  /\ UNCHANGED <<up, failures, recent, early>>

(* The loop runs a caller that is ready; sends end; a caller calls again.  *)
CallStep(c) == \/ Begins(c) \/ Succeeds(c) \/ Retries(c) \/ Fails(c) \/ SendsAgain(c)
               \/ call[c].at \in Ended /\ CallGone(c)

Cancelled(c) == c \in InFlight /\ CallGone(c)

Next == UpstreamChanges \/ ClientTick \/ \E c \in Callers : CallStep(c) \/ Cancelled(c)

(* Fairness: tasks that are ready run, and the clock does; the API may     *)
(* change at any time.  A cancelled caller is an end nobody promises.      *)
Spec == ClientInit /\ [][Next]_clientVars
        /\ WF_clientVars(ClientTick) /\ \A c \in Callers : WF_clientVars(CallStep(c))

TypeOK ==
  /\ up \in BOOLEAN /\ call \in [Callers -> Call]
  /\ failures \in 0..FailureThreshold
  /\ opened \in {Closed} \cup 0..RecoveryTimeout
  /\ recent \in Seq({"succeeded", "failed"}) /\ early \subseteq InFlight

------------------------------------------------------------------------------
(* The circuit is closed exactly when a success is among the last          *)
(* FailureThreshold outcomes or there were fewer: calls that overlap, late *)
(* answers and failed probes never make it open on too few failures, and   *)
(* never leave it open after a success.                                    *)
OpenExactlyOnStreak ==
  opened # Closed <=> Len(recent) = FailureThreshold /\ "succeeded" \notin Range(recent)

(* An open circuit closes before its recovery timeout only by the late     *)
(* success of a call that began before it opened.                          *)
EarlyCloseIsLateSuccess ==
  [][State = "open" /\ opened' = Closed =>
       \E c \in early : call[c].at = "sending" /\ call'[c].at = "succeeded"]_clientVars

(* When the API answers for good from some time on, calls keep being made  *)
(* and are no longer cancelled, the circuit is closed for good: no failure *)
(* of an earlier call and no probe keeps it open.                          *)
CircuitRecovers ==
  <>[]up /\ <>[][\A c \in Callers : ~Cancelled(c)]_clientVars => <>[](opened = Closed)
=============================================================================
