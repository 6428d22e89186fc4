----------------------------- MODULE SagaProofs -----------------------------
(***************************************************************************)
(* Proofs about Saga for sagas of any length, with and without a callback, *)
(* with stores that may and may not raise: run keeps the saga's promise    *)
(* (refinement of SagaSpec), and what its result and the store's record    *)
(* say is true.                                                            *)
(***************************************************************************)
EXTENDS Saga, TLAPS

Forward == {"start", "execute", "record", "finish"}
Backward == {"compensate", "record_compensated", "report", "finish_failed"}

(* What each program point knows about the two loops.                      *)
LoopInv ==
  /\ pc \in Forward => left = 0 /\ compensated = {} /\ gaveUp = {}
  /\ pc = "start" => executed = 0
  /\ pc = "execute" => executed < n
  /\ pc = "record" => executed > 0
  /\ pc = "finish" => executed = n
  /\ pc = "compensate" => left > 0
  /\ pc \in {"record_compensated", "report"} => left < executed
  /\ pc = "finish_failed" => left = 0
  /\ pc \in Backward => \A s \in Steps : (s \in compensated \cup gaveUp <=> left < s /\ s <= executed)

(* The steps whose operation stands, and what the store knows of them.     *)
RecordInv ==
  /\ pc \in Forward => \A s \in 1..executed : effect[s] = "applied"
  /\ pc = "record" => recorded = 1..(executed - 1)
  /\ pc \in Forward \ {"record"} => recorded = 1..executed
  /\ OnlyLastUnrecorded
  /\ SuccessIsComplete

(* Each handled step is reverted or, by the time the loop is past it,      *)
(* reported.                                                               *)
ReportInv ==
  /\ \A s \in compensated : effect[s] = "reverted"
  /\ (callback /\ pc \in Backward) =>
       \A s \in gaveUp : s \in reported \/ (pc = "report" /\ s = JustCompensated)
  /\ HandledOrReported

(* The inductive invariant.                                                *)
SagaInv == TypeOK /\ LoopInv /\ RecordInv /\ ReportInv

LEMMA InitInv == Init => SagaInv
<1> SUFFICES ASSUME Init PROVE SagaInv
  OBVIOUS
<1> USE OrchestratorAssumption DEF Init, OrchestratorAssumption
<1>1. TypeOK
  BY DEF TypeOK, Steps
<1>2. LoopInv
  BY DEF LoopInv, Forward, Backward
<1>3. RecordInv
  BY DEF RecordInv, Forward, OnlyLastUnrecorded, SuccessIsComplete
<1>4. ReportInv
  BY DEF ReportInv, Backward, HandledOrReported
<1> QED
  BY <1>1, <1>2, <1>3, <1>4 DEF SagaInv

(* Every step of run preserves each part of the invariant.                 *)
LEMMA StepInv == SagaInv /\ [Next]_vars => SagaInv'
<1> SUFFICES ASSUME SagaInv, [Next]_vars PROVE SagaInv'
  OBVIOUS
<1> USE OrchestratorAssumption DEF OrchestratorAssumption, SagaInv, Steps, Ended, Forward, Backward,
          config, progress, world, store
<1>1. CASE Start
  <2>1. /\ pc = "start"
        /\ pc' \in {IF n = 0 THEN "finish" ELSE "execute", "escaped"}
        /\ UNCHANGED <<n, callback, storeFails, executed, left, compensated, gaveUp, status,
                       effect, reported, recorded, finished>>
    BY <1>1 DEF Start, Escapes
  <2>2. TypeOK'
    BY <2>1 DEF TypeOK
  <2>3. LoopInv'
    <3>1. n \in Nat /\ executed = 0 /\ left = 0 /\ compensated = {} /\ gaveUp = {}
      BY <2>1 DEF TypeOK, LoopInv
    <3> QED
      BY <2>1, <3>1 DEF LoopInv
  <2>4. RecordInv'
    BY <2>1 DEF TypeOK, LoopInv, RecordInv, OnlyLastUnrecorded, SuccessIsComplete
  <2>5. ReportInv'
    BY <2>1 DEF LoopInv, ReportInv, HandledOrReported
  <2> QED
    BY <2>2, <2>3, <2>4, <2>5
<1>2. CASE ExecuteReturns
  <2>1. TypeOK'
    BY <1>2 DEF ExecuteReturns, TypeOK, LoopInv
  <2>2. LoopInv'
    BY <1>2 DEF ExecuteReturns, TypeOK, LoopInv
  <2>3. RecordInv'
    BY <1>2 DEF ExecuteReturns, TypeOK, LoopInv, RecordInv, OnlyLastUnrecorded, SuccessIsComplete
  <2>4. ReportInv'
    BY <1>2 DEF ExecuteReturns, TypeOK, LoopInv, ReportInv, HandledOrReported, JustCompensated
  <2> QED
    BY <2>1, <2>2, <2>3, <2>4
<1>3. CASE ExecuteRaises
  <2>1. TypeOK'
    BY <1>3 DEF ExecuteRaises, StartCompensating, TypeOK, LoopInv
  <2>2. LoopInv'
    BY <1>3 DEF ExecuteRaises, StartCompensating, TypeOK, LoopInv
  <2>3. RecordInv'
    BY <1>3 DEF ExecuteRaises, StartCompensating, TypeOK, LoopInv, RecordInv, OnlyLastUnrecorded, SuccessIsComplete
  <2>4. ReportInv'
    BY <1>3 DEF ExecuteRaises, StartCompensating, TypeOK, LoopInv, ReportInv, HandledOrReported, JustCompensated
  <2> QED
    BY <2>1, <2>2, <2>3, <2>4
<1>4. CASE Record
  <2> USE <1>4 DEF Record
  <2>0. executed \in 1..n /\ n \in 0..MaxSteps /\ left = 0 /\ compensated = {} /\ gaveUp = {}
    BY DEF TypeOK, LoopInv
  <2>1. CASE /\ recorded' = recorded \cup {executed}
             /\ pc' = (IF executed < n THEN "execute" ELSE "finish")
             /\ UNCHANGED left
    <3>1. TypeOK'
      BY <2>0, <2>1 DEF TypeOK
    <3>2. LoopInv'
      BY <2>0, <2>1 DEF LoopInv
    <3>3. recorded' = 1..executed
      <4>1. recorded = 1..(executed - 1)
        BY DEF RecordInv
      <4>2. (1..(executed - 1)) \cup {executed} = 1..executed
        BY <2>0
      <4> QED
        BY <2>1, <4>1, <4>2
    <3>4. RecordInv'
      BY <2>0, <2>1, <3>3 DEF RecordInv, OnlyLastUnrecorded, SuccessIsComplete
    <3>5. ReportInv'
      BY <2>0, <2>1 DEF ReportInv, HandledOrReported
    <3> QED
      BY <3>1, <3>2, <3>4, <3>5
  <2>2. CASE /\ recorded' \in {recorded, recorded \cup {executed}}
             /\ StartCompensating
    <3>1. TypeOK'
      BY <2>0, <2>2 DEF TypeOK, StartCompensating
    <3>2. LoopInv'
      BY <2>0, <2>2 DEF LoopInv, StartCompensating
    <3>3. RecordInv'
      <4>1. recorded = 1..(executed - 1)
        BY DEF RecordInv
      <4>2. OnlyLastUnrecorded'
        BY <2>0, <2>2, <4>1 DEF OnlyLastUnrecorded
      <4> QED
        BY <2>2, <4>2 DEF RecordInv, SuccessIsComplete, StartCompensating
    <3>4. ReportInv'
      BY <2>0, <2>2 DEF ReportInv, HandledOrReported, StartCompensating
    <3> QED
      BY <3>1, <3>2, <3>3, <3>4
  <2> QED
    BY <2>1, <2>2
<1>5. CASE Finish
  BY <1>5 DEF Finish, StartCompensating, TypeOK, LoopInv, RecordInv, ReportInv, OnlyLastUnrecorded,
       SuccessIsComplete, HandledOrReported, JustCompensated
<1>6. CASE CompensateReturns
  <2>1. TypeOK'
    BY <1>6 DEF CompensateReturns, ToCompensate, TypeOK, LoopInv
  <2>2. LoopInv'
    BY <1>6 DEF CompensateReturns, ToCompensate, TypeOK, LoopInv
  <2>3. RecordInv'
    BY <1>6 DEF CompensateReturns, ToCompensate, TypeOK, LoopInv, RecordInv, OnlyLastUnrecorded, SuccessIsComplete
  <2>4. ReportInv'
    BY <1>6 DEF CompensateReturns, ToCompensate, TypeOK, LoopInv, ReportInv, HandledOrReported, JustCompensated
  <2> QED
    BY <2>1, <2>2, <2>3, <2>4
<1>7. CASE CompensateRaises
  BY <1>7 DEF CompensateRaises, ToCompensate, TypeOK, LoopInv, RecordInv, ReportInv, OnlyLastUnrecorded,
       SuccessIsComplete, HandledOrReported, JustCompensated
<1>8. CASE RecordCompensated
  BY <1>8 DEF RecordCompensated, LoopHead, TypeOK, LoopInv, RecordInv, ReportInv, OnlyLastUnrecorded,
       SuccessIsComplete, HandledOrReported, JustCompensated
<1>9. CASE Report
  BY <1>9 DEF Report, LoopHead, TypeOK, LoopInv, RecordInv, ReportInv, OnlyLastUnrecorded,
       SuccessIsComplete, HandledOrReported, JustCompensated
<1>10. CASE FinishFailed
  BY <1>10 DEF FinishFailed, FinalStatus, TypeOK, LoopInv, RecordInv, ReportInv, OnlyLastUnrecorded,
       SuccessIsComplete, HandledOrReported, JustCompensated
<1>11. CASE Abandoned
  BY <1>11 DEF Abandoned, TypeOK, LoopInv, RecordInv, ReportInv, OnlyLastUnrecorded,
       SuccessIsComplete, HandledOrReported, JustCompensated
<1>12. CASE UNCHANGED vars
  BY <1>12 DEF vars, TypeOK, LoopInv, RecordInv, ReportInv, OnlyLastUnrecorded,
       SuccessIsComplete, HandledOrReported, JustCompensated
<1> QED
  BY <1>1, <1>2, <1>3, <1>4, <1>5, <1>6, <1>7, <1>8, <1>9, <1>10, <1>11, <1>12 DEF Next

LEMMA SpecInv == Spec => []SagaInv
<1> QED
  BY InitInv, StepInv, PTL DEF Spec

(* Every variable keeps its type: the loops stay within the steps of the   *)
(* saga.                                                                   *)
THEOREM SagaTypeOK == Spec => []TypeOK
<1>1. SagaInv => TypeOK
  BY DEF SagaInv
<1> QED
  BY <1>1, SpecInv, PTL

(* A returned failure leaves no executed step in place that was not        *)
(* reported to the callback.                                               *)
THEOREM SagaHandledOrReported == Spec => []HandledOrReported
<1>1. SagaInv => HandledOrReported
  BY DEF SagaInv, ReportInv
<1> QED
  BY <1>1, SpecInv, PTL

(* A returned success is complete, in place and recorded.                  *)
THEOREM SagaSuccessIsComplete == Spec => []SuccessIsComplete
<1>1. SagaInv => SuccessIsComplete
  BY DEF SagaInv, RecordInv
<1> QED
  BY <1>1, SpecInv, PTL

(* So what run returns says what was done.                                 *)
THEOREM SagaResultIsTrue == Spec => []ResultIsTrue
<1> QED
  BY SagaHandledOrReported, SagaSuccessIsComplete, PTL DEF ResultIsTrue

(* At any time, crashed, cancelled or escaped included, the store misses   *)
(* at most the last executed step and records no other.                    *)
THEOREM SagaOnlyLastUnrecorded == Spec => []OnlyLastUnrecorded
<1>1. SagaInv => OnlyLastUnrecorded
  BY DEF SagaInv, RecordInv
<1> QED
  BY <1>1, SpecInv, PTL

------------------------------------------------------------------------------
(* Refinement: each step of run is a step of SagaSpec, or none.            *)

FateOf(undone, given, upto) ==
  [s \in Steps |-> IF s \in undone THEN "undone"
                   ELSE IF s \in given THEN "given_up"
                   ELSE IF s <= upto THEN "done" ELSE "untouched"]

LEMMA InitPromise == Init => Promise!SpecInit
<1> QED
  BY OrchestratorAssumption DEF OrchestratorAssumption, Init, Promise!SpecInit, Steps

LEMMA StepPromise == SagaInv /\ [Next]_vars => [Promise!SpecNext]_(Promise!specVars)
<1> SUFFICES ASSUME SagaInv, [Next]_vars
             PROVE  Promise!SpecNext \/ UNCHANGED Promise!specVars
  OBVIOUS
<1> USE OrchestratorAssumption DEF OrchestratorAssumption, SagaInv, Steps, Ended,
          config, progress, world, store
<1>1. CASE Start
  BY <1>1 DEF Start, Escapes, Promise!SpecNext, Promise!Abandon, Promise!specVars
<1>2. CASE ExecuteReturns
  <2>1. executed \in 0..(n - 1) /\ n \in 0..MaxSteps /\ compensated = {} /\ gaveUp = {} /\ left = 0
    BY <1>2 DEF ExecuteReturns, TypeOK, LoopInv, Forward
  <2>2. executed' = executed + 1 /\ pc = "execute" /\ pc' = "record"
        /\ UNCHANGED <<n, left, compensated, gaveUp>>
    BY <1>2 DEF ExecuteReturns
  <2>3. FateOf(compensated', gaveUp', executed')
          = [FateOf(compensated, gaveUp, executed) EXCEPT ![executed + 1] = "done"]
    <3>1. executed + 1 \in Steps
      BY <2>1
    <3>2. \A s \in Steps : s <= executed + 1 <=> (s = executed + 1 \/ s <= executed)
      BY <2>1
    <3>3. FateOf({}, {}, executed + 1) = [FateOf({}, {}, executed) EXCEPT ![executed + 1] = "done"]
      BY <3>1, <3>2 DEF FateOf
    <3> QED
      BY <2>1, <2>2, <3>3
  <2>4. Promise!Do
    BY <2>1, <2>2, <2>3 DEF Promise!Do, FateOf
  <2> QED
    BY <2>4 DEF Promise!SpecNext
<1>3. CASE ExecuteRaises
  <2>1. Promise!Fail
    BY <1>3 DEF ExecuteRaises, StartCompensating, TypeOK, LoopInv, Promise!Fail
  <2> QED
    BY <2>1 DEF Promise!SpecNext
<1>4. CASE Record
  <2>1. Promise!Fail \/ UNCHANGED Promise!specVars
    BY <1>4 DEF Record, StartCompensating, TypeOK, LoopInv, Forward, Promise!Fail, Promise!specVars
  <2> QED
    BY <2>1 DEF Promise!SpecNext
<1>5. CASE Finish
  <2>1. Promise!Fail \/ Promise!End
    BY <1>5 DEF Finish, StartCompensating, TypeOK, LoopInv, Forward, Promise!Fail, Promise!End
  <2> QED
    BY <2>1 DEF Promise!SpecNext
<1>6. CASE CompensateReturns
  <2>1. /\ left \in 1..executed /\ executed \in 0..n /\ n \in 0..MaxSteps
        /\ left \notin compensated \cup gaveUp
    BY <1>6 DEF CompensateReturns, TypeOK, LoopInv, Backward
  <2>2. /\ compensated' = compensated \cup {left} /\ left' = left - 1
        /\ UNCHANGED <<n, executed, gaveUp>>
        /\ pc = "compensate" /\ pc' \in {"record_compensated", "report"}
    BY <1>6 DEF CompensateReturns, ToCompensate
  <2>3. FateOf(compensated', gaveUp', executed') = [FateOf(compensated, gaveUp, executed) EXCEPT ![left] = "undone"]
    BY <2>1, <2>2 DEF FateOf
  <2>4. Promise!Handle
    BY <2>1, <2>2, <2>3 DEF Promise!Handle, FateOf
  <2> QED
    BY <2>4 DEF Promise!SpecNext
<1>7. CASE CompensateRaises
  <2>1. /\ left \in 1..executed /\ executed \in 0..n /\ n \in 0..MaxSteps
        /\ left \notin compensated \cup gaveUp
    BY <1>7 DEF CompensateRaises, TypeOK, LoopInv, Backward
  <2>2. /\ gaveUp' = gaveUp \cup {left} /\ left' = left - 1
        /\ UNCHANGED <<n, executed, compensated>>
        /\ pc = "compensate" /\ pc' \in {"record_compensated", "report"}
    BY <1>7 DEF CompensateRaises, ToCompensate
  <2>3. FateOf(compensated', gaveUp', executed') = [FateOf(compensated, gaveUp, executed) EXCEPT ![left] = "given_up"]
    BY <2>1, <2>2 DEF FateOf
  <2>4. Promise!Handle
    BY <2>1, <2>2, <2>3 DEF Promise!Handle, FateOf
  <2> QED
    BY <2>4 DEF Promise!SpecNext
<1>8. CASE RecordCompensated
  BY <1>8 DEF RecordCompensated, LoopHead, TypeOK, LoopInv, Promise!specVars
<1>9. CASE Report
  BY <1>9 DEF Report, LoopHead, TypeOK, LoopInv, Promise!SpecNext, Promise!Abandon, Promise!specVars
<1>10. CASE FinishFailed
  <2>1. Promise!End \/ Promise!Abandon
    BY <1>10 DEF FinishFailed, FinalStatus, TypeOK, LoopInv, Promise!End, Promise!Abandon, Promise!Undone
  <2> QED
    BY <2>1 DEF Promise!SpecNext
<1>11. CASE Abandoned
  BY <1>11 DEF Abandoned, TypeOK, LoopInv, Promise!SpecNext, Promise!Abandon
<1>12. CASE UNCHANGED vars
  BY <1>12 DEF vars, Promise!specVars
<1> QED
  BY <1>1, <1>2, <1>3, <1>4, <1>5, <1>6, <1>7, <1>8, <1>9, <1>10, <1>11, <1>12 DEF Next

(* run keeps the saga's promise for sagas of any length: it implements     *)
(* SagaSpec under the mapping of Saga.                                     *)
THEOREM SagaKeepsPromise == Spec => KeepsPromise
<1> QED
  BY InitPromise, StepPromise, SpecInv, PTL DEF Spec, KeepsPromise, Promise!SagaPromise
=============================================================================
