-------------------------- MODULE ApiClientProofs --------------------------
(***************************************************************************)
(* Proofs about ApiClient for any callers, thresholds and delays: the      *)
(* circuit is open exactly on a full streak of failures, and closes early  *)
(* only by a call that began before it opened.                             *)
(***************************************************************************)
EXTENDS ApiClient, TLAPS

(* min(a, b), as FiniteSetsExt picks it: caps on counters and delays.      *)
LEMMA MinOfTwo ==
  ASSUME NEW a \in Int, NEW b \in Int
  PROVE  Min({a, b}) = IF a <= b THEN a ELSE b
<1> DEFINE least == IF a <= b THEN a ELSE b
<1>1. least \in {a, b} /\ \A y \in {a, b} : least =< y
  OBVIOUS
<1>2. \A x \in {a, b} : (\A y \in {a, b} : x =< y) => x = least
  OBVIOUS
<1> QED
  BY <1>1, <1>2 DEF Min

(* max(a, b), likewise: a wait that runs down to 0.                        *)
LEMMA MaxOfTwo ==
  ASSUME NEW a \in Int, NEW b \in Int
  PROVE  Max({a, b}) = IF a >= b THEN a ELSE b
<1> DEFINE greatest == IF a >= b THEN a ELSE b
<1>1. greatest \in {a, b} /\ \A y \in {a, b} : greatest >= y
  OBVIOUS
<1>2. \A x \in {a, b} : (\A y \in {a, b} : x >= y) => x = greatest
  OBVIOUS
<1> QED
  BY <1>1, <1>2 DEF Max

Outcomes == {"succeeded", "failed"}

(* A call is a record whose fields steps may set; their values beyond `at` *)
(* do not matter to the circuit.                                           *)
CallShape ==
  /\ call = [c \in Callers |-> call[c]]
  /\ \A c \in Callers : call[c] = [at |-> call[c].at, attempt |-> call[c].attempt,
                                   retries |-> call[c].retries, wait |-> call[c].wait]

(* A sequence of outcomes that ends in exactly n failures.                 *)
Streak(outcomes, n) ==
  /\ outcomes \in Seq(Outcomes) /\ Len(outcomes) \in n..FailureThreshold
  /\ \A i \in (Len(outcomes) - n + 1)..Len(outcomes) : outcomes[i] = "failed"
  /\ n < Len(outcomes) => outcomes[Len(outcomes) - n] = "succeeded"

(* The counter counts the failures at the end of the recent outcomes, and  *)
(* the circuit is open when it is at the threshold.                        *)
CircuitInv ==
  /\ failures \in 0..FailureThreshold /\ opened \in {Closed} \cup Nat
  /\ Streak(recent, failures)
  /\ opened # Closed <=> failures = FailureThreshold

(* While the circuit is open nothing is sent but what was sent before.     *)
EarlyInv == State = "open" => InFlight \subseteq early

ClientInv == CallShape /\ CircuitInv /\ EarlyInv

------------------------------------------------------------------------------
(* What remembering an outcome does to the sequence.                       *)
LEMMA RememberOutcome ==
  ASSUME recent \in Seq(Outcomes), Len(recent) <= FailureThreshold,
         NEW outcome \in Outcomes, Remember(outcome)
  PROVE  /\ recent' \in Seq(Outcomes)
         /\ Len(recent') = (IF Len(recent) = FailureThreshold THEN FailureThreshold
                            ELSE Len(recent) + 1)
         /\ \A i \in 1..Len(recent') :
              recent'[i] = IF i = Len(recent') THEN outcome
                           ELSE recent[i + Len(recent) + 1 - Len(recent')]
<1> DEFINE all == Append(recent, outcome)
<1>1. /\ all \in Seq(Outcomes) /\ Len(all) = Len(recent) + 1
      /\ \A i \in 1..Len(all) : all[i] = IF i = Len(all) THEN outcome ELSE recent[i]
  OBVIOUS
<1>2. recent' = IF Len(all) > FailureThreshold THEN Tail(all) ELSE all
  BY DEF Remember
<1>3. CASE Len(recent) = FailureThreshold
  <2>1. recent' = Tail(all) /\ all # <<>>
    BY <1>1, <1>2, <1>3, CircuitAssumption DEF CircuitAssumption
  <2>2. /\ Tail(all) \in Seq(Outcomes) /\ Len(Tail(all)) = Len(all) - 1
        /\ \A i \in 1..Len(Tail(all)) : Tail(all)[i] = all[i + 1]
    BY <1>1, <2>1
  <2> HIDE DEF all
  <2> QED
    BY <1>1, <1>3, <2>1, <2>2, CircuitAssumption DEF CircuitAssumption
<1>4. CASE Len(recent) < FailureThreshold
  <2>1. Len(recent) \in Nat /\ FailureThreshold \in Nat
    BY CircuitAssumption DEF CircuitAssumption
  <2> HIDE DEF all
  <2>2. recent' = all
    BY <1>1, <1>2, <1>4, <2>1
  <2>3. \A i \in 1..Len(all) : i + Len(recent) + 1 - Len(all) = i
    BY <1>1, <2>1
  <2> QED
    BY <1>1, <1>4, <2>1, <2>2, <2>3
<1> QED
  BY <1>3, <1>4, CircuitAssumption DEF CircuitAssumption

LEMMA InitInv == ClientInit => ClientInv
<1> SUFFICES ASSUME ClientInit PROVE ClientInv
  OBVIOUS
<1>1. CallShape
  BY DEF ClientInit, CallShape, NoCall
<1>2. CircuitInv
  BY CircuitAssumption DEF ClientInit, CircuitInv, Streak, CircuitAssumption, Closed, Outcomes
<1>3. EarlyInv
  BY DEF ClientInit, EarlyInv, State
<1> QED
  BY <1>1, <1>2, <1>3 DEF ClientInv

(* Every step keeps the calls well formed.                                 *)
LEMMA ShapeStep == CallShape /\ [Next]_clientVars => CallShape'
<1> SUFFICES ASSUME CallShape, [Next]_clientVars PROVE CallShape'
  OBVIOUS
<1> USE DEF CallShape
<1>1. ASSUME NEW c \in Callers, NEW r,
             r = [at |-> r.at, attempt |-> r.attempt, retries |-> r.retries, wait |-> r.wait],
             call' = [call EXCEPT ![c] = r]
      PROVE  CallShape'
  BY <1>1
<1>2. ASSUME NEW c \in Callers, Begins(c) PROVE CallShape'
  BY <1>2, <1>1 DEF Begins, NoCall
<1>3. ASSUME NEW c \in Callers, Succeeds(c) \/ Fails(c) \/ CallGone(c) PROVE CallShape'
  BY <1>3, <1>1 DEF Succeeds, Fails, CallGone, EndsCall, NoCall
<1>4. ASSUME NEW c \in Callers, Retries(c) PROVE CallShape'
  BY <1>4 DEF Retries
<1>5. ASSUME NEW c \in Callers, SendsAgain(c) PROVE CallShape'
  BY <1>5 DEF SendsAgain
<1>6. CASE ClientTick
  BY <1>6 DEF ClientTick
<1>7. CASE UpstreamChanges \/ UNCHANGED clientVars
  BY <1>7 DEF UpstreamChanges, clientVars
<1> QED
  BY <1>2, <1>3, <1>4, <1>5, <1>6, <1>7 DEF Next, CallStep, Cancelled

------------------------------------------------------------------------------
(* One more failure makes the streak longer by one, up to the threshold.   *)
LEMMA StreakGrows ==
  ASSUME NEW n \in 0..FailureThreshold, NEW old, Streak(old, n),
         NEW new \in Seq(Outcomes), NEW m,
         m = IF n = FailureThreshold THEN FailureThreshold ELSE n + 1,
         Len(new) = IF Len(old) = FailureThreshold THEN FailureThreshold ELSE Len(old) + 1,
         \A i \in 1..Len(new) : new[i] = IF i = Len(new) THEN "failed"
                                        ELSE old[i + Len(old) + 1 - Len(new)]
  PROVE  Streak(new, m)
<1>1. PICK k \in Nat : k = Len(old)
  BY DEF Streak
<1>2. PICK l \in Nat : l = Len(new)
  OBVIOUS
<1>3. FailureThreshold \in Nat /\ n \in Nat /\ m \in Nat /\ n <= k /\ k <= FailureThreshold
  BY <1>1, CircuitAssumption DEF Streak, CircuitAssumption
<1>4. l = IF k = FailureThreshold THEN FailureThreshold ELSE k + 1
  BY <1>1, <1>2
<1>5. m <= l /\ l <= FailureThreshold
  BY <1>3, <1>4
<1>6. ASSUME NEW i \in (l - m + 1)..l PROVE new[i] = "failed"
  <2>1. i \in 1..l
    BY <1>3, <1>5
  <2>2. i # l => i + k + 1 - l \in (k - n + 1)..k
    BY <1>3, <1>4
  <2> QED
    BY <1>1, <1>2, <2>1, <2>2 DEF Streak
<1>7. ASSUME m < l PROVE new[l - m] = "succeeded"
  <2>1. l - m \in 1..l /\ l - m # l /\ n < k /\ l - m + k + 1 - l = k - n
    BY <1>3, <1>4, <1>5, <1>7
  <2> QED
    BY <1>1, <1>2, <2>1 DEF Streak
<1>8. \A i \in (Len(new) - m + 1)..Len(new) : new[i] = "failed"
  BY <1>2, <1>6
<1>9. m < Len(new) => new[Len(new) - m] = "succeeded"
  BY <1>2, <1>7
<1>10. Len(new) \in m..FailureThreshold
  BY <1>2, <1>3, <1>5
<1> QED
  BY <1>8, <1>9, <1>10 DEF Streak

(* A success leaves the circuit closed with nothing counted.               *)
LEMMA SuccessStep ==
  ASSUME CircuitInv, NEW c \in Callers, Succeeds(c)
  PROVE  CircuitInv'
<1>1. failures' = 0 /\ opened' = Closed /\ Remember("succeeded")
  BY DEF Succeeds, OnSuccess, EndsCall
<1>2. recent \in Seq(Outcomes) /\ Len(recent) <= FailureThreshold /\ "succeeded" \in Outcomes
  BY CircuitAssumption DEF CircuitInv, Streak, CircuitAssumption, Outcomes
<1>3. /\ recent' \in Seq(Outcomes)
      /\ Len(recent') \in 1..FailureThreshold
      /\ recent'[Len(recent')] = "succeeded"
  <2>1. Len(recent') = (IF Len(recent) = FailureThreshold THEN FailureThreshold ELSE Len(recent) + 1)
    BY <1>1, <1>2, RememberOutcome
  <2>2. Len(recent') \in 1..FailureThreshold
    BY <1>2, <2>1, CircuitAssumption DEF CircuitAssumption
  <2> QED
    BY <1>1, <1>2, <2>2, RememberOutcome
<1> QED
  BY <1>1, <1>3, CircuitAssumption DEF CircuitInv, Streak, CircuitAssumption

(* A failure lengthens the streak, up to the threshold: a probe that fails *)
(* finds the counter there.                                                *)
LEMMA FailureStep ==
  ASSUME CircuitInv, NEW c \in Callers, Fails(c)
  PROVE  CircuitInv'
<1> USE CircuitAssumption DEF CircuitAssumption
<1>1. OnFailure /\ Remember("failed")
  BY DEF Fails, EndsCall
<1>2. recent \in Seq(Outcomes) /\ Len(recent) <= FailureThreshold /\ "failed" \in Outcomes
  BY DEF CircuitInv, Streak, Outcomes
<1>3. failures' = IF failures = FailureThreshold THEN FailureThreshold ELSE failures + 1
  <2>1. Min({FailureThreshold, failures + 1})
          = IF FailureThreshold <= failures + 1 THEN FailureThreshold ELSE failures + 1
    BY MinOfTwo DEF CircuitInv
  <2>2. State = "half_open" => failures = FailureThreshold
    BY DEF CircuitInv, State
  <2> QED
    BY <1>1, <2>1, <2>2 DEF OnFailure, CircuitInv
<1>4. /\ failures' \in 0..FailureThreshold /\ opened' \in {Closed} \cup Nat
      /\ opened' # Closed <=> failures' = FailureThreshold
  BY <1>1, <1>3 DEF OnFailure, CircuitInv, Closed
<1>5. Streak(recent', failures')
  <2>1. /\ recent' \in Seq(Outcomes)
        /\ Len(recent') = (IF Len(recent) = FailureThreshold THEN FailureThreshold
                           ELSE Len(recent) + 1)
        /\ \A i \in 1..Len(recent') :
             recent'[i] = IF i = Len(recent') THEN "failed"
                          ELSE recent[i + Len(recent) + 1 - Len(recent')]
    BY <1>1, <1>2, RememberOutcome
  <2>2. failures \in 0..FailureThreshold /\ Streak(recent, failures)
    BY DEF CircuitInv
  <2> QED
    BY <1>3, <2>1, <2>2, StreakGrows
<1> QED
  BY <1>4, <1>5 DEF CircuitInv, Streak

LEMMA CircuitStep == CircuitInv /\ [Next]_clientVars => CircuitInv'
<1> SUFFICES ASSUME CircuitInv, [Next]_clientVars PROVE CircuitInv'
  OBVIOUS
<1>1. ASSUME NEW c \in Callers, Begins(c) \/ Retries(c) \/ SendsAgain(c) \/ CallGone(c)
      PROVE  CircuitInv'
  BY <1>1 DEF Begins, Retries, SendsAgain, CallGone, CircuitInv, Streak
<1>2. CASE ClientTick
  <2>1. UNCHANGED <<failures, recent>>
    BY <1>2 DEF ClientTick
  <2>2. opened # Closed => Min({RecoveryTimeout, opened + 1}) \in Nat
    BY MinOfTwo, CircuitAssumption DEF CircuitInv, CircuitAssumption
  <2>3. opened' \in {Closed} \cup Nat /\ (opened' = Closed <=> opened = Closed)
    BY <1>2, <2>2 DEF ClientTick, Closed
  <2> QED
    BY <2>1, <2>3 DEF CircuitInv, Streak
<1>3. CASE UpstreamChanges \/ UNCHANGED clientVars
  BY <1>3 DEF UpstreamChanges, clientVars, CircuitInv, Streak
<1> QED
  BY <1>1, <1>2, <1>3, SuccessStep, FailureStep DEF Next, CallStep, Cancelled

(* The calls in flight over an open circuit are the early ones.            *)
LEMMA EarlyStep == ClientInv /\ [Next]_clientVars => EarlyInv'
<1> SUFFICES ASSUME ClientInv, [Next]_clientVars, State' = "open"
             PROVE  InFlight' \subseteq early'
  BY DEF EarlyInv
<1> USE DEF ClientInv
<1>1. ASSUME NEW c \in Callers, Begins(c) PROVE InFlight' \subseteq early'
  <2>1. State = "open" /\ early' = early /\ InFlight \subseteq early
    BY <1>1 DEF Begins, State, EarlyInv
  <2>2. call' = [call EXCEPT ![c] = [NoCall EXCEPT !.at = "short_circuited"]]
    BY <1>1, <2>1 DEF Begins
  <2>3. InFlight' \subseteq InFlight
    BY <2>2 DEF CallShape, InFlight, NoCall
  <2> QED
    BY <2>1, <2>3
<1>2. ASSUME NEW c \in Callers, Succeeds(c) PROVE FALSE
  BY <1>2 DEF Succeeds, OnSuccess, State
<1>3. ASSUME NEW c \in Callers, Fails(c) \/ CallGone(c) PROVE InFlight' \subseteq early'
  <2>1. InFlight' = InFlight \ {c}
    BY <1>3 DEF Fails, EndsCall, CallGone, InFlight, NoCall, CallShape
  <2>2. early' = InFlight \ {c} \/ (State = "open" /\ early' = early \ {c})
    BY <1>3 DEF Fails, CallGone, OnFailure, State
  <2> QED
    BY <2>1, <2>2 DEF EarlyInv
<1>4. ASSUME NEW c \in Callers, Retries(c) \/ SendsAgain(c) PROVE InFlight' \subseteq early'
  <2>1. InFlight' = InFlight
    BY <1>4 DEF Retries, SendsAgain, InFlight, CallShape
  <2> QED
    BY <1>4, <2>1 DEF Retries, SendsAgain, State, EarlyInv
<1>5. CASE ClientTick
  <2>1. InFlight' = InFlight
    BY <1>5 DEF ClientTick, InFlight, CallShape
  <2>2. opened # Closed => Min({RecoveryTimeout, opened + 1})
          = IF RecoveryTimeout <= opened + 1 THEN RecoveryTimeout ELSE opened + 1
    BY MinOfTwo, CircuitAssumption DEF CircuitInv, CircuitAssumption
  <2>3. State = "open"
    BY <1>5, <2>2, CircuitAssumption DEF ClientTick, State, CircuitInv, CircuitAssumption, Closed
  <2> QED
    BY <1>5, <2>1, <2>3 DEF ClientTick, EarlyInv
<1>6. CASE UpstreamChanges \/ UNCHANGED clientVars
  BY <1>6 DEF UpstreamChanges, clientVars, State, InFlight, EarlyInv
<1> QED
  BY <1>1, <1>2, <1>3, <1>4, <1>5, <1>6 DEF Next, CallStep, Cancelled

LEMMA Invariance == Spec => []ClientInv
<1>1. ClientInv /\ [Next]_clientVars => ClientInv'
  BY ShapeStep, CircuitStep, EarlyStep DEF ClientInv
<1> QED
  BY InitInv, <1>1, PTL DEF Spec

------------------------------------------------------------------------------
(* The counter and the streak say the same, so the circuit is open exactly *)
(* when the recent outcomes are all failures.                              *)
LEMMA StreakIsFull == CircuitInv => OpenExactlyOnStreak
<1> SUFFICES ASSUME CircuitInv PROVE OpenExactlyOnStreak
  OBVIOUS
<1> USE CircuitAssumption DEF CircuitAssumption
<1>1. recent \in Seq(Outcomes) /\ Range(recent) = {recent[i] : i \in 1..Len(recent)}
  BY DEF CircuitInv, Streak, Range
<1>2. CASE failures = FailureThreshold
  <2>1. Len(recent) = FailureThreshold /\ \A i \in 1..Len(recent) : recent[i] = "failed"
    BY <1>2 DEF CircuitInv, Streak
  <2> QED
    BY <1>1, <1>2, <2>1 DEF OpenExactlyOnStreak, CircuitInv
<1>3. CASE failures < FailureThreshold
  <2>1. Len(recent) = FailureThreshold => "succeeded" \in Range(recent)
    <3> SUFFICES ASSUME Len(recent) = FailureThreshold PROVE "succeeded" \in Range(recent)
      OBVIOUS
    <3>1. Len(recent) - failures \in 1..Len(recent) /\ recent[Len(recent) - failures] = "succeeded"
      BY <1>3 DEF CircuitInv, Streak
    <3> QED
      BY <1>1, <3>1
  <2> QED
    BY <1>3, <2>1 DEF OpenExactlyOnStreak, CircuitInv
<1> QED
  BY <1>2, <1>3 DEF CircuitInv

(* The circuit is closed exactly when there is a success among the last    *)
(* FailureThreshold outcomes or there were fewer, whatever the callers,    *)
(* their interleaving and the thresholds.                                  *)
THEOREM CircuitFollowsOutcomes == Spec => []OpenExactlyOnStreak
<1>1. ClientInv => OpenExactlyOnStreak
  BY StreakIsFull DEF ClientInv
<1> QED
  BY Invariance, <1>1, PTL

(* An open circuit is closed before its recovery timeout by nothing but    *)
(* the late success of a call that began before it opened.                 *)
THEOREM OnlyLateSuccessClosesEarly == Spec => EarlyCloseIsLateSuccess
<1> DEFINE Late == State = "open" /\ opened' = Closed =>
                     \E c \in early : call[c].at = "sending" /\ call'[c].at = "succeeded"
<1>1. ClientInv /\ [Next]_clientVars => [Late]_clientVars
  <2> SUFFICES ASSUME ClientInv, Next, State = "open", opened' = Closed
               PROVE  \E c \in early : call[c].at = "sending" /\ call'[c].at = "succeeded"
    OBVIOUS
  <2>1. opened # Closed /\ opened \in Nat
    BY DEF State, ClientInv, CircuitInv
  <2>2. ~ClientTick
    <3>1. Min({RecoveryTimeout, opened + 1}) \in Nat
      BY <2>1, MinOfTwo, CircuitAssumption DEF CircuitAssumption
    <3> QED
      BY <2>1, <3>1 DEF ClientTick, Closed
  <2>3. PICK c \in Callers : Succeeds(c) \/ Fails(c)
    BY <2>1, <2>2 DEF Next, UpstreamChanges, CallStep, Cancelled, Begins, Retries, SendsAgain,
                      CallGone
  <2>4. Succeeds(c)
    BY <2>1, <2>3 DEF Fails, OnFailure, Closed
  <2>5. c \in early
    BY <2>4 DEF ClientInv, EarlyInv, InFlight, Succeeds
  <2>6. call'[c].at = "succeeded"
    BY <2>4 DEF Succeeds, EndsCall, NoCall, ClientInv, CallShape
  <2> QED
    BY <2>4, <2>5, <2>6 DEF Succeeds
<1> QED
  BY Invariance, <1>1, PTL DEF Spec, EarlyCloseIsLateSuccess

------------------------------------------------------------------------------
(* Type correctness.  A call that sleeps has an attempt left.              *)
CallsInv ==
  /\ up \in BOOLEAN /\ call \in [Callers -> Call]
  /\ \A c \in Callers : call[c].at = "sleeping" => call[c].attempt < CallAttempts
  /\ opened \in {Closed} \cup 0..RecoveryTimeout
  /\ early \subseteq InFlight

LEMMA CallsInit == ClientInit => CallsInv
  BY CircuitAssumption DEF ClientInit, CallsInv, NoCall, Call, CircuitAssumption, InFlight

LEMMA CallsStep == CallsInv /\ CircuitInv /\ [Next]_clientVars => CallsInv'
<1> SUFFICES ASSUME CallsInv, CircuitInv, [Next]_clientVars PROVE CallsInv'
  OBVIOUS
<1> USE CircuitAssumption DEF CircuitAssumption
<1> DEFINE Sane(r) == r \in Call /\ (r.at = "sleeping" => r.attempt < CallAttempts)
           Set(c, r) == call' = [call EXCEPT ![c] = r]
<1>1. \A c \in Callers : Sane(call[c])
  BY DEF CallsInv
<1>2. ASSUME NEW c \in Callers, NEW r, Sane(r), Set(c, r)
      PROVE  /\ call' \in [Callers -> Call]
             /\ \A d \in Callers : call'[d].at = "sleeping" => call'[d].attempt < CallAttempts
             /\ \A d \in Callers \ {c} : call'[d] = call[d]
             /\ call'[c] = r
  BY <1>2 DEF CallsInv
<1>3. \A how \in {"idle"} \cup Ended : Sane([NoCall EXCEPT !.at = how])
  <2>1. NoCall \in Call
    BY DEF NoCall, Call
  <2> HIDE DEF NoCall
  <2> QED
    BY <2>1 DEF Call, Ended
<1>4. ASSUME NEW c \in Callers, Begins(c) PROVE CallsInv'
  <2> DEFINE sent == [at |-> "sending", attempt |-> 1, wait |-> 0,
                      retries |-> State # "half_open" /\ c \in Idempotent]
  <2>1. Sane(sent)
    BY DEF Call
  <2>2. call[c].at = "idle" /\ UNCHANGED <<up, opened, early>>
        /\ \E r : Sane(r) /\ Set(c, r)
    BY <1>4, <1>3, <2>1 DEF Begins, Ended
  <2>3. c \notin early
    BY <2>2 DEF CallsInv, InFlight
  <2> QED
    BY <1>2, <2>2, <2>3 DEF CallsInv, InFlight
<1>5. ASSUME NEW c \in Callers, Succeeds(c) \/ Fails(c) \/ CallGone(c) PROVE CallsInv'
  <2>1. up' = up /\ \E r : Sane(r) /\ Set(c, r)
    BY <1>5, <1>3 DEF Succeeds, Fails, CallGone, EndsCall, Ended, NoCall, Call
  <2>2. opened' \in {Closed} \cup 0..RecoveryTimeout
    BY <1>5 DEF Succeeds, Fails, CallGone, OnSuccess, OnFailure, CallsInv
  <2>3. early' \subseteq InFlight \ {c}
    BY <1>5 DEF Succeeds, Fails, CallGone, CallsInv
  <2> QED
    BY <1>2, <2>1, <2>2, <2>3 DEF CallsInv, InFlight
<1>6. ASSUME NEW c \in Callers, Retries(c) PROVE CallsInv'
  <2> DEFINE pause == Delay(CallBase, CallMultiplier, CallMaxDelay, call[c].attempt + 1)
             r == [call[c] EXCEPT !.at = "sleeping", !.wait = pause]
  <2>1. call[c] \in Call /\ call[c].attempt < CallAttempts /\ call[c].at = "sending"
    BY <1>6 DEF Retries, MayRetry, CallsInv
  <2>2. pause \in 0..CallMaxDelay
    <3>1. call[c].attempt + 1 \in 1..CallAttempts
      BY <2>1 DEF Call
    <3> QED
      BY <3>1, DelaysAssumption
  <2>3. Set(c, r)
    BY <1>6 DEF Retries, CallsInv
  <2> HIDE DEF pause
  <2>4. Sane(r) /\ r.at = "sleeping"
    BY <2>1, <2>2 DEF Call
  <2> HIDE DEF r
  <2> QED
    BY <1>2, <1>6, <2>3, <2>4 DEF Retries, CallsInv, InFlight
<1>7. ASSUME NEW c \in Callers, SendsAgain(c) PROVE CallsInv'
  <2> DEFINE r == [call[c] EXCEPT !.at = "sending", !.attempt = @ + 1]
  <2>1. Set(c, r)
    BY <1>7 DEF SendsAgain, CallsInv
  <2>2. Sane(r) /\ r.at = "sending"
    BY <1>7 DEF SendsAgain, CallsInv, Call
  <2> HIDE DEF r
  <2> QED
    BY <1>2, <1>7, <2>1, <2>2 DEF SendsAgain, CallsInv, InFlight
<1>8. CASE ClientTick
  <2>1. \A c \in Callers : Max({0, call[c].wait - 1}) \in 0..CallMaxDelay
    BY MaxOfTwo DEF CallsInv, Call
  <2>2. /\ call' \in [Callers -> Call]
        /\ \A c \in Callers : call'[c].at = call[c].at /\ call'[c].attempt = call[c].attempt
    BY <1>8, <2>1 DEF ClientTick, CallsInv, Call
  <2>3. opened # Closed => Min({RecoveryTimeout, opened + 1}) \in 0..RecoveryTimeout
    BY MinOfTwo DEF CallsInv, Closed
  <2>4. opened' \in {Closed} \cup 0..RecoveryTimeout
    BY <1>8, <2>3 DEF ClientTick
  <2> QED
    BY <1>8, <2>2, <2>4 DEF ClientTick, CallsInv, InFlight
<1>9. CASE UpstreamChanges \/ UNCHANGED clientVars
  BY <1>9 DEF UpstreamChanges, clientVars, CallsInv, InFlight
<1> QED
  BY <1>4, <1>5, <1>6, <1>7, <1>8, <1>9 DEF Next, CallStep, Cancelled

(* Every variable of the client keeps its type: no call makes more than    *)
(* CallAttempts attempts or waits longer than CallMaxDelay, and what counts *)
(* as begun before the circuit opened is in flight.                        *)
THEOREM ClientTypeOK == Spec => []TypeOK
<1>1. CallsInv /\ CircuitInv /\ [Next]_clientVars => CallsInv' /\ CircuitInv'
  BY CallsStep, CircuitStep
<1>2. ClientInit => CallsInv /\ CircuitInv
  BY CallsInit, InitInv DEF ClientInv
<1>3. CallsInv /\ CircuitInv => TypeOK
  BY DEF CallsInv, CircuitInv, Streak, Outcomes, TypeOK
<1> QED
  BY <1>1, <1>2, <1>3, PTL DEF Spec
=============================================================================
