------------------------ MODULE WriteRequestsProofs ------------------------
(***************************************************************************)
(* Proofs about WriteRequests, for any numbers of requests, callers, keys  *)
(* and nonces, any limit, window and times to live.                        *)
(***************************************************************************)
EXTENDS WriteRequests, FiniteSetTheorems, SequenceTheorems, TLAPS

(* The limiter.  A bucket is sorted and holds the time of every admission  *)
(* of the last window: each of those requests can be given a place in it.  *)
Sorted(times) == \A i, j \in 1..Len(times) : i <= j => times[i] <= times[j]
BucketSorted(c) == Sorted(bucket[c]) /\ \A i \in 1..Len(bucket[c]) : bucket[c][i] <= now

InLastWindow(c) == {r \in Admitted(c) : at[r] > now - WindowSeconds}
Places(c, place) ==
  /\ place \in [1..Len(bucket[c]) -> Requests]
  /\ \A r \in InLastWindow(c) : \E i \in 1..Len(bucket[c]) : place[i] = r /\ bucket[c][i] = at[r]
Covered(c) == \E place : Places(c, place)

(* Only the limiter answers "rate_limited", and what it answered is final. *)
Limited(r) == answer[r].status = "rate_limited"
ArrivalKnown(r) ==
  /\ at[r] <= now
  /\ stage[r] \in {"look_up", "sign", "handle", "store"} => ~Limited(r)
  /\ Limited(r) => stage[r] = "done" /\ retry[r] >= 1

(* A refused caller's bucket stays as it was until its head expires.       *)
NoneAdmittedSince(r) == \A q \in Admitted(input[r].caller) : at[q] <= at[r]
FullSince(r) ==
  LET times == bucket[input[r].caller]
  IN \/ Len(times) < MaxRequests /\ now >= at[r] + retry[r]
     \/ Len(times) = MaxRequests /\ times[1] + WindowSeconds = at[r] + retry[r]
Refusal(r) == Limited(r) /\ NoneAdmittedSince(r) => FullSince(r)

LimiterInv ==
  /\ \A c \in Callers : BucketSorted(c) /\ Covered(c)
  /\ \A r \in Requests : ArrivalKnown(r) /\ Refusal(r)
  /\ LimitHolds

(* Idempotency.  A record is of a request that is done; a stored response  *)
(* has a record that lives as long, if not of this request then of a later *)
(* one.                                                                    *)
InProgress(r) ==
  /\ stage[r] \in {"look_up", "store"} => input[r].key \in Keys
  /\ stage[r] # "done" => answer[r].by = r

Remembered(r) ==
  stored[r] >= 0 =>
    /\ stage[r] = "done" /\ input[r].key \in Keys /\ stored[r] <= now
    /\ \/ now >= stored[r] + TtlSeconds
       \/ /\ records[input[r].key] # NoRecord
          /\ records[input[r].key].expires >= stored[r] + TtlSeconds

RecordSound(k) ==
  records[k] # NoRecord =>
    LET p == records[k].of.by
    IN /\ input[p].key = k /\ input[p].body = records[k].body
       /\ answer[p] = records[k].of /\ answer[p].status \notin {"server_error", "rate_limited"}
       /\ stored[p] >= 0 /\ records[k].expires = stored[p] + TtlSeconds

IdempotencyInv ==
  /\ \A r \in Requests : InProgress(r) /\ Remembered(r)
  /\ \A k \in Keys : RecordSound(k)

(* Request signing.  An accepted nonce is kept until it expires.           *)
SigningInv ==
  \A n \in Nonces : marked[n] >= 0 =>
    now >= marked[n] + NonceTtlSeconds \/ nonces[n] >= marked[n] + NonceTtlSeconds

RequestsInv == TypeOK /\ LimiterInv /\ IdempotencyInv /\ SigningInv

------------------------------------------------------------------------------
(* Popping the heads of a sorted sequence up to t.                         *)
LEMMA AfterLemma ==
  ASSUME NEW S \in SUBSET Int, NEW times \in Seq(S), Sorted(times), NEW t \in Int
  PROVE  \E d \in 0..Len(times) :
           /\ After(times, t) \in Seq(S)
           /\ Len(After(times, t)) = Len(times) - d
           /\ \A i \in 1..(Len(times) - d) : /\ After(times, t)[i] = times[i + d]
                                             /\ times[i + d] > t
           /\ \A i \in 1..d : times[i] <= t
<1> DEFINE n == Len(times)
           U == UpTo(times, t)
           d == Cardinality(U)
<1>0. n \in Nat
  BY LenProperties
<1>1. n \in Nat /\ \A i \in 1..n : times[i] \in S /\ times[i] \in Int
  <2>1. \A i \in 1..n : times[i] \in S
    BY ElementOfSeq
  <2> QED
    BY <1>0, <2>1
<1>2. IsFiniteSet(1..n) /\ Cardinality(1..n) = n
  <2> HIDE DEF n
  <2> QED
    BY <1>0, FS_Interval
<1>3. U \in SUBSET (1..n)
  BY DEF UpTo
<1>4. IsFiniteSet(U) /\ d <= n
  <2> HIDE DEF U, n
  <2>1. IsFiniteSet(U) /\ Cardinality(U) <= Cardinality(1..n)
    BY <1>2, <1>3, FS_Subset
  <2> QED
    BY <2>1, <1>2
<1>5. d \in Nat
  BY <1>4, FS_CardinalityType
<1>6. ASSUME NEW i \in U PROVE i \in 1..d
  <2>1. 1..i \in SUBSET U
    BY <1>1, <1>3 DEF UpTo, Sorted
  <2>2. Cardinality(1..i) = i
    BY <1>1, <1>3, FS_Interval
  <2> QED
    BY <2>1, <2>2, <1>1, <1>3, <1>4, <1>5, FS_Subset
<1>7. U = 1..d
  <2>1. IsFiniteSet(1..d) /\ Cardinality(1..d) = d
    BY <1>5, FS_Interval
  <2>2. U \in SUBSET (1..d)
    BY <1>6
  <2> QED
    BY <2>1, <2>2, FS_Subset
<1>8. After(times, t) = SubSeq(times, d + 1, n)
  BY DEF After
<1> HIDE DEF d, n
<1>9. /\ SubSeq(times, d + 1, n) \in Seq(S)
      /\ Len(SubSeq(times, d + 1, n)) = IF d + 1 <= n THEN n - (d + 1) + 1 ELSE 0
      /\ \A i \in 1..(n - (d + 1) + 1) : SubSeq(times, d + 1, n)[i] = times[d + 1 + i - 1]
  <2>1. \A i \in (d + 1)..n : times[i] \in S
    BY <1>1, <1>5
  <2> QED
    BY <2>1, <1>1, <1>5, SubSeqProperties
<1>10. \A i \in 1..(n - d) : i + d \in 1..n /\ i + d \notin U /\ times[i + d] > t
  BY <1>1, <1>4, <1>5, <1>7 DEF UpTo, n
<1>11. \A i \in 1..d : times[i] <= t
  BY <1>7 DEF UpTo
<1>12. Len(After(times, t)) = n - d
  BY <1>1, <1>4, <1>5, <1>8, <1>9
<1>13. \A i \in 1..(n - d) : After(times, t)[i] = times[i + d]
  BY <1>1, <1>4, <1>5, <1>8, <1>9
<1>14. d \in 0..n
  BY <1>1, <1>4, <1>5
<1> QED
  BY <1>8, <1>9, <1>10, <1>11, <1>12, <1>13, <1>14 DEF n

(* What InWindow makes of a bucket: it drops the first d elements, those   *)
(* that left the window.                                                   *)
Dropped(c, d) ==
  LET times == bucket[c]
  IN /\ InWindow(times) \in Seq(0..MaxTime)
     /\ Len(InWindow(times)) = Len(times) - d
     /\ \A i \in 1..(Len(times) - d) : /\ InWindow(times)[i] = times[i + d]
                                       /\ times[i + d] > now - WindowSeconds
     /\ \A i \in 1..d : times[i] <= now - WindowSeconds

LEMMA InWindowLemma ==
  ASSUME TypeOK, NEW c \in Callers, BucketSorted(c)
  PROVE  /\ bucket[c] \in Seq(0..MaxTime) /\ Len(bucket[c]) \in Nat /\ Len(bucket[c]) <= MaxRequests
         /\ \A i \in 1..Len(bucket[c]) : bucket[c][i] \in 0..MaxTime
         /\ \E d \in 0..Len(bucket[c]) : Dropped(c, d)
<1>1. bucket[c] \in Seq(0..MaxTime) /\ Len(bucket[c]) <= MaxRequests
  BY DEF TypeOK
<1>2. Len(bucket[c]) \in Nat
  BY <1>1, LenProperties
<1>3. \A i \in 1..Len(bucket[c]) : bucket[c][i] \in 0..MaxTime
  BY <1>1, ElementOfSeq
<1>4. now - WindowSeconds \in Int /\ 0..MaxTime \in SUBSET Int
  BY RequestsAssumption DEF RequestsAssumption, TypeOK
<1>5. Sorted(bucket[c])
  BY DEF BucketSorted
<1>6. \E d \in 0..Len(bucket[c]) : Dropped(c, d)
  BY <1>1, <1>4, <1>5, AfterLemma DEF Dropped, InWindow
<1> QED
  BY <1>1, <1>2, <1>3, <1>6

(* At most as many admissions in the last window as the bucket has left.   *)
LEMMA CountLastWindow ==
  ASSUME TypeOK, NEW c \in Callers, BucketSorted(c), Covered(c)
  PROVE  /\ IsFiniteSet(InLastWindow(c))
         /\ Cardinality(InLastWindow(c)) <= Len(InWindow(bucket[c]))
         /\ Len(InWindow(bucket[c])) \in Nat
<1>1. PICK d \in 0..Len(bucket[c]) : Dropped(c, d)
  BY InWindowLemma
<1>2. PICK place : Places(c, place)
  BY DEF Covered
<1> DEFINE m == Len(bucket[c]) - d
           f == [i \in 1..m |-> place[i + d]]
           T == {f[i] : i \in 1..m}
<1>3. m \in Nat /\ Len(InWindow(bucket[c])) = m
  BY <1>1, InWindowLemma DEF Dropped
<1>4. ASSUME NEW r \in InLastWindow(c) PROVE r \in T
  <2>1. PICK i \in 1..Len(bucket[c]) : place[i] = r /\ bucket[c][i] = at[r]
    BY <1>2 DEF Places
  <2>2. at[r] > now - WindowSeconds /\ at[r] \in Int /\ now - WindowSeconds \in Int
    BY RequestsAssumption DEF RequestsAssumption, InLastWindow, Admitted, TypeOK
  <2>3. i \notin 1..d
    BY <1>1, <2>1, <2>2 DEF Dropped
  <2>4. i - d \in 1..m /\ (i - d) + d = i
    BY <1>1, <2>1, <2>3, InWindowLemma
  <2>5. f[i - d] = r
    BY <2>1, <2>4
  <2> QED
    BY <2>4, <2>5
<1>5. f \in Surjection(1..m, T)
  BY DEF Surjection
<1> HIDE DEF m, f, T
<1>6. IsFiniteSet(1..m) /\ Cardinality(1..m) = m
  BY <1>3, FS_Interval
<1>7. IsFiniteSet(T) /\ Cardinality(T) <= m
  BY <1>5, <1>6, FS_Surjection
<1>8. InLastWindow(c) \in SUBSET T
  BY <1>4
<1>9. IsFiniteSet(InLastWindow(c)) /\ Cardinality(InLastWindow(c)) <= Cardinality(T)
  BY <1>7, <1>8, FS_Subset
<1>10. Cardinality(T) \in Nat /\ Cardinality(InLastWindow(c)) \in Nat
  BY <1>7, <1>9, FS_CardinalityType
<1> QED
  BY <1>3, <1>7, <1>9, <1>10

------------------------------------------------------------------------------
(* The invariant holds initially.                                          *)
LEMMA InitInv == Init => RequestsInv
<1> SUFFICES ASSUME Init PROVE RequestsInv
  OBVIOUS
<1> USE RequestsAssumption DEF RequestsAssumption, Init
<1>1. \A c \in Callers : bucket[c] = <<>> /\ bucket[c] \in Seq(0..MaxTime) /\ Len(bucket[c]) = 0
  BY EmptySeq
<1>2. TypeOK
  <2>1. bucket \in [Callers -> Seq(0..MaxTime)] /\ \A c \in Callers : Len(bucket[c]) <= MaxRequests
    BY <1>1
  <2> QED
    BY <2>1 DEF TypeOK, Answers, Statuses
<1>3. \A c \in Callers : Admitted(c) = {}
  BY DEF Admitted
<1>4. \A c \in Callers : BucketSorted(c) /\ Covered(c)
  <2> TAKE c \in Callers
  <2>1. BucketSorted(c)
    BY <1>1 DEF BucketSorted, Sorted
  <2>2. Places(c, [i \in {} |-> i])
    BY <1>1, <1>3 DEF Places, InLastWindow
  <2> QED
    BY <2>1, <2>2 DEF Covered
<1>5. LimitHolds
  <2> SUFFICES ASSUME NEW c \in Callers, NEW t \in 0..MaxTime
               PROVE  Cardinality({r \in Admitted(c) : at[r] \in (t - WindowSeconds + 1)..t}) <= MaxRequests
    BY DEF LimitHolds
  <2>1. {r \in Admitted(c) : at[r] \in (t - WindowSeconds + 1)..t} = {}
    BY <1>3
  <2>2. Cardinality({}) <= MaxRequests
    BY FS_EmptySet
  <2> QED
    BY <2>1, <2>2
<1>6. \A r \in Requests : ArrivalKnown(r) /\ Refusal(r)
  BY DEF ArrivalKnown, Refusal, Limited
<1>7. IdempotencyInv
  BY DEF IdempotencyInv, InProgress, Remembered, RecordSound
<1>8. SigningInv
  BY DEF SigningInv
<1> QED
  BY <1>2, <1>4, <1>5, <1>6, <1>7, <1>8 DEF RequestsInv, LimiterInv

------------------------------------------------------------------------------
(* The clock.                                                              *)
LEMMA TickKeepsInv ==
  ASSUME RequestsInv, Tick
  PROVE  RequestsInv'
<1> USE RequestsAssumption DEF RequestsAssumption, Tick, limiterVars, idempotencyVars, signingVars
<1>1. TypeOK'
  BY DEF RequestsInv, TypeOK
<1>2. now \in Int /\ now' = now + 1
  BY DEF RequestsInv, TypeOK
<1>3. \A c \in Callers : Admitted(c)' = Admitted(c)
  BY DEF Admitted
<1>4. LimiterInv'
  <2>1. ASSUME NEW c \in Callers PROVE BucketSorted(c)'
    <3>1. BucketSorted(c) /\ \A i \in 1..Len(bucket[c]) : bucket[c][i] \in 0..MaxTime
      BY InWindowLemma DEF RequestsInv, LimiterInv
    <3>2. Sorted(bucket[c])'
      BY <3>1 DEF BucketSorted, Sorted
    <3>3. ASSUME NEW i \in 1..Len(bucket[c]) PROVE bucket[c][i] <= now + 1
      BY <3>1, <1>2 DEF BucketSorted
    <3> QED
      BY <3>2, <3>3, <1>2 DEF BucketSorted
  <2>2. ASSUME NEW c \in Callers PROVE Covered(c)'
    <3>1. PICK place : Places(c, place)
      BY DEF RequestsInv, LimiterInv, Covered
    <3>2. InLastWindow(c)' \subseteq InLastWindow(c)
      <4> SUFFICES ASSUME NEW r \in InLastWindow(c)' PROVE r \in InLastWindow(c)
        OBVIOUS
      <4>1. r \in Admitted(c) /\ at[r] > (now + 1) - WindowSeconds /\ at[r] \in Int
        BY <1>2, <1>3 DEF InLastWindow, RequestsInv, TypeOK, Admitted
      <4> QED
        BY <4>1, <1>2 DEF InLastWindow
    <3>3. Places(c, place)'
      BY <3>1, <3>2 DEF Places
    <3> QED
      BY <3>3 DEF Covered
  <2>3. ASSUME NEW r \in Requests PROVE ArrivalKnown(r)' /\ Refusal(r)'
    <3>1. ArrivalKnown(r) /\ Refusal(r) /\ at[r] \in Int /\ retry[r] \in Int
      BY DEF RequestsInv, LimiterInv, TypeOK
    <3>2. ArrivalKnown(r)'
      BY <3>1, <1>2 DEF ArrivalKnown, Limited
    <3>3. NoneAdmittedSince(r)' => NoneAdmittedSince(r)
      BY <1>3 DEF NoneAdmittedSince, RequestsInv, TypeOK
    <3>4. FullSince(r) => FullSince(r)'
      BY <3>1, <1>2 DEF FullSince
    <3> QED
      BY <3>1, <3>2, <3>3, <3>4 DEF Refusal, Limited
  <2>4. LimitHolds'
    BY <1>3 DEF RequestsInv, LimiterInv, LimitHolds
  <2> QED
    BY <2>1, <2>2, <2>3, <2>4 DEF LimiterInv
<1>5. IdempotencyInv'
  <2>1. ASSUME NEW r \in Requests PROVE InProgress(r)' /\ Remembered(r)'
    <3>1. InProgress(r) /\ Remembered(r) /\ stored[r] \in Int
      BY DEF RequestsInv, IdempotencyInv, TypeOK
    <3> QED
      BY <3>1, <1>2 DEF InProgress, Remembered
  <2>2. ASSUME NEW k \in Keys PROVE RecordSound(k)'
    BY DEF RequestsInv, IdempotencyInv, RecordSound
  <2> QED
    BY <2>1, <2>2 DEF IdempotencyInv
<1>6. SigningInv'
  <2>1. \A n \in Nonces : marked[n] \in Int
    BY DEF RequestsInv, TypeOK
  <2> QED
    BY <1>2, <2>1 DEF RequestsInv, SigningInv
<1> QED
  BY <1>1, <1>4, <1>5, <1>6 DEF RequestsInv

------------------------------------------------------------------------------
(* The limiter's two actions.                                              *)

(* Appending the time of an admission to what is left of the bucket.       *)
LEMMA AdmitBucket ==
  ASSUME RequestsInv, NEW r \in Requests, NEW c \in Callers, c = input[r].caller, Admit(r),
         NEW d \in 0..Len(bucket[c]), Dropped(c, d)
  PROVE  \E m \in Nat :
           /\ m = Len(bucket[c]) - d /\ m < MaxRequests
           /\ bucket'[c] \in Seq(0..MaxTime) /\ Len(bucket'[c]) = m + 1
           /\ \A i \in 1..m : bucket'[c][i] = bucket[c][i + d]
           /\ bucket'[c][m + 1] = now
<1> DEFINE w == InWindow(bucket[c])
<1>1. TypeOK /\ now \in 0..MaxTime
  BY DEF RequestsInv, TypeOK
<1>2. BucketSorted(c)
  BY <1>1 DEF RequestsInv, LimiterInv
<1>3. Len(bucket[c]) \in Nat
  BY <1>1, <1>2, InWindowLemma
<1>4. w \in Seq(0..MaxTime) /\ Len(w) = Len(bucket[c]) - d /\ \A i \in 1..Len(w) : w[i] = bucket[c][i + d]
  BY DEF Dropped
<1>5. Len(w) < MaxRequests
  BY DEF Admit, HasRoom
<1>6. bucket'[c] = Append(w, now)
  BY <1>1 DEF Admit, TypeOK
<1> HIDE DEF w
<1>7. /\ Append(w, now) \in Seq(0..MaxTime) /\ Len(Append(w, now)) = Len(w) + 1
      /\ \A i \in 1..Len(w) : Append(w, now)[i] = w[i]
      /\ Append(w, now)[Len(w) + 1] = now
  <2>1. w \in Seq(0..MaxTime) /\ now \in 0..MaxTime
    BY <1>1, <1>4
  <2> QED
    BY <2>1, AppendProperties
<1>8. Len(w) \in Nat
  BY <1>4, LenProperties
<1> QED
  BY <1>4, <1>5, <1>6, <1>7, <1>8

LEMMA AdmitKeepsInv ==
  ASSUME RequestsInv, NEW r \in Requests, Admit(r)
  PROVE  RequestsInv'
<1> USE RequestsAssumption DEF RequestsAssumption
<1>0. PICK c \in Callers : c = input[r].caller
  BY DEF RequestsInv, TypeOK
<1>1. TypeOK /\ input[r].caller = c /\ now \in 0..MaxTime /\ input' = input /\ now' = now
  BY <1>0 DEF RequestsInv, TypeOK, Admit
<1>2. BucketSorted(c) /\ Covered(c) /\ LimitHolds
  BY <1>1 DEF RequestsInv, LimiterInv
<1>3. PICK d \in 0..Len(bucket[c]) : Dropped(c, d)
  BY <1>1, <1>2, InWindowLemma
<1>4. PICK m \in Nat :
      /\ m = Len(bucket[c]) - d /\ m < MaxRequests
      /\ bucket'[c] \in Seq(0..MaxTime) /\ Len(bucket'[c]) = m + 1
      /\ \A i \in 1..m : bucket'[c][i] = bucket[c][i + d]
      /\ bucket'[c][m + 1] = now
  BY <1>0, <1>3, AdmitBucket
<1>5. /\ \A a \in Callers \ {c} : bucket'[a] = bucket[a]
      /\ bucket' \in [Callers -> Seq(0..MaxTime)]
  BY <1>1, <1>4 DEF Admit, TypeOK
<1>6. /\ stage[r] = "new" /\ stage'[r] = IF input[r].key = NoKey THEN "sign" ELSE "look_up"
      /\ at'[r] = now /\ \A q \in Requests \ {r} : stage'[q] = stage[q] /\ at'[q] = at[q]
      /\ answer' = answer /\ retry' = retry /\ records' = records /\ stored' = stored
      /\ nonces' = nonces /\ marked' = marked /\ executed' = executed
  BY <1>1 DEF Admit, Arrives, TypeOK, idempotencyVars, signingVars
<1>7. Len(bucket[c]) \in Nat /\ Len(bucket[c]) <= MaxRequests /\ \A i \in 1..Len(bucket[c]) : bucket[c][i] \in 0..MaxTime /\ bucket[c][i] <= now
  BY <1>1, <1>2, InWindowLemma DEF BucketSorted
<1>7a. /\ d \in Nat /\ Len(bucket[c]) = m + d /\ Len(bucket'[c]) = m + 1
       /\ m + 1 \in Nat /\ m + 1 <= MaxRequests
  <2>1. m < MaxRequests /\ Len(bucket[c]) = m + d /\ d \in Nat
    BY <1>3, <1>4, <1>7
  <2> QED
    BY <2>1, <1>4
<1>8. TypeOK'
  <2>1. stage' \in [Requests -> {"new", "look_up", "sign", "handle", "store", "done"}]
    BY <1>1 DEF Admit, TypeOK
  <2>2. at' \in [Requests -> 0..MaxTime]
    BY <1>1 DEF Admit, Arrives, TypeOK
  <2>3. Len(bucket'[c]) <= MaxRequests
    BY <1>7a
  <2>4. \A a \in Callers : Len(bucket'[a]) <= MaxRequests
    BY <1>1, <1>5, <2>3 DEF TypeOK
  <2> QED
    BY <1>1, <1>5, <1>6, <2>1, <2>2, <2>4 DEF TypeOK
<1>9. ~Limited(r) /\ ArrivalKnown(r)
  BY <1>6 DEF RequestsInv, LimiterInv, ArrivalKnown
<1>10. /\ r \notin Admitted(c) /\ Admitted(c)' = Admitted(c) \cup {r}
       /\ \A a \in Callers \ {c} : Admitted(a)' = Admitted(a) /\ r \notin Admitted(a)
  BY <1>1, <1>6, <1>9 DEF Admitted, Limited
<1>11. BucketSorted(c)'
  <2>1. ASSUME NEW i \in 1..m
        PROVE  i + d \in 1..Len(bucket[c]) /\ bucket'[c][i] = bucket[c][i + d]
    <3>1. i + d \in 1..Len(bucket[c])
      BY <1>7a
    <3> QED
      BY <3>1, <1>4
  <2>2. ASSUME NEW i \in 1..(m + 1) PROVE bucket'[c][i] <= now
    <3>1. CASE i = m + 1
      BY <3>1, <1>1, <1>4
    <3>2. CASE i # m + 1
      <4>1. i \in 1..m
        BY <3>2, <1>7a
      <4> QED
        BY <4>1, <2>1, <1>7
    <3> QED
      BY <3>1, <3>2
  <2>3. ASSUME NEW i \in 1..(m + 1), NEW j \in 1..(m + 1), i <= j
        PROVE  bucket'[c][i] <= bucket'[c][j]
    <3>1. CASE j = m + 1
      BY <3>1, <2>2, <1>4
    <3>2. CASE i \in 1..m /\ j \in 1..m
      <4>1. i + d \in 1..Len(bucket[c]) /\ j + d \in 1..Len(bucket[c]) /\ i + d <= j + d
        BY <1>7a, <2>3, <3>2
      <4> QED
        BY <4>1, <3>2, <2>1, <1>2 DEF BucketSorted, Sorted
    <3> QED
      BY <3>1, <3>2, <2>3, <1>7a
  <2> QED
    BY <2>2, <2>3, <1>1, <1>4 DEF BucketSorted, Sorted
<1>12. Covered(c)'
  <2>1. PICK place : Places(c, place)
    BY <1>2 DEF Covered
  <2> DEFINE next == [i \in 1..(m + 1) |-> IF i = m + 1 THEN r ELSE place[i + d]]
  <2>2. \A i \in 1..m : i + d \in 1..Len(bucket[c])
    BY <1>7a
  <2>3. next \in [1..Len(bucket'[c]) -> Requests]
    <3>1. ASSUME NEW i \in 1..(m + 1), i # m + 1 PROVE place[i + d] \in Requests
      <4>1. i \in 1..m
        BY <3>1
      <4> QED
        BY <4>1, <2>1, <2>2 DEF Places
    <3> QED
      BY <1>4, <3>1
  <2>4. ASSUME NEW q \in InLastWindow(c)', q # r
        PROVE  \E i \in 1..(m + 1) : next[i] = q /\ bucket'[c][i] = at'[q]
    <3>1. q \in InLastWindow(c) /\ at'[q] = at[q] /\ at[q] > now - WindowSeconds
      BY <2>4, <1>1, <1>6, <1>10 DEF InLastWindow, Admitted
    <3>2. PICK i \in 1..Len(bucket[c]) : place[i] = q /\ bucket[c][i] = at[q]
      BY <2>1, <3>1 DEF Places
    <3>3. i \notin 1..d
      BY <1>1, <1>3, <1>7, <3>1, <3>2 DEF Dropped
    <3>4. i - d \in 1..m /\ (i - d) + d = i /\ i - d # m + 1 /\ i - d \in 1..(m + 1)
      BY <1>7a, <3>3
    <3>5. next[i - d] = q /\ bucket'[c][i - d] = at'[q]
      BY <1>4, <3>1, <3>2, <3>4
    <3> QED
      BY <3>4, <3>5
  <2>5. next[m + 1] = r /\ bucket'[c][m + 1] = at'[r] /\ m + 1 \in 1..(m + 1)
    BY <1>4, <1>6
  <2> HIDE DEF next
  <2>6. \A q \in InLastWindow(c)' : \E i \in 1..Len(bucket'[c]) : next[i] = q /\ bucket'[c][i] = at'[q]
    BY <1>4, <2>4, <2>5
  <2>7. Places(c, next)'
    BY <1>1, <2>3, <2>6 DEF Places
  <2> QED
    BY <2>7 DEF Covered
<1>13. ASSUME NEW a \in Callers PROVE BucketSorted(a)' /\ Covered(a)'
  <2>1. CASE a = c
    BY <2>1, <1>11, <1>12
  <2>2. CASE a # c
    <3>1. BucketSorted(a) /\ Covered(a)
      BY DEF RequestsInv, LimiterInv
    <3>2. bucket'[a] = bucket[a] /\ Admitted(a)' = Admitted(a) /\ r \notin Admitted(a)
      BY <2>2, <1>5, <1>10
    <3>3. InLastWindow(a)' = InLastWindow(a)
      BY <1>1, <1>6, <3>2 DEF InLastWindow, Admitted
    <3>4. \A q \in InLastWindow(a) : at'[q] = at[q]
      BY <1>6, <3>2 DEF InLastWindow, Admitted
    <3> QED
      BY <1>1, <3>1, <3>2, <3>3, <3>4 DEF BucketSorted, Sorted, Covered, Places
  <2> QED
    BY <2>1, <2>2
<1>14. ASSUME NEW a \in Callers, NEW t \in 0..MaxTime
       PROVE  Cardinality({q \in Admitted(a) : at[q] \in (t - WindowSeconds + 1)..t}') <= MaxRequests
  <2> DEFINE W == {q \in Admitted(a) : at[q] \in (t - WindowSeconds + 1)..t}
  <2>1. Cardinality(W) <= MaxRequests
    BY <1>2 DEF LimitHolds
  <2>2. CASE a # c \/ now \notin (t - WindowSeconds + 1)..t
    <3>1. W' = W
      BY <2>2, <1>1, <1>6, <1>10 DEF Admitted
    <3> QED
      BY <2>1, <3>1
  <2>3. CASE a = c /\ now \in (t - WindowSeconds + 1)..t
    <3>1. W' \in SUBSET (InLastWindow(c) \cup {r})
      <4> SUFFICES ASSUME NEW q \in W', q # r PROVE q \in InLastWindow(c)
        BY <2>3
      <4>1. q \in Admitted(c) /\ at[q] \in (t - WindowSeconds + 1)..t
        BY <2>3, <1>1, <1>6, <1>10 DEF Admitted
      <4>2. at[q] > now - WindowSeconds
        BY <4>1, <2>3
      <4> QED
        BY <4>1, <4>2 DEF InLastWindow
    <3>2. /\ IsFiniteSet(InLastWindow(c)) /\ Cardinality(InLastWindow(c)) <= m
          /\ Cardinality(InLastWindow(c)) \in Nat
      <4>1. Len(InWindow(bucket[c])) = m
        BY <1>3, <1>4 DEF Dropped
      <4> QED
        BY <4>1, <1>1, <1>2, CountLastWindow, FS_CardinalityType
    <3>3. /\ IsFiniteSet(InLastWindow(c) \cup {r})
          /\ Cardinality(InLastWindow(c) \cup {r}) <= Cardinality(InLastWindow(c)) + 1
      <4>1. IsFiniteSet(InLastWindow(c))
        BY <3>2
      <4>2. /\ IsFiniteSet(InLastWindow(c) \cup {r})
            /\ Cardinality(InLastWindow(c) \cup {r})
                 = IF r \in InLastWindow(c) THEN Cardinality(InLastWindow(c))
                                            ELSE Cardinality(InLastWindow(c)) + 1
        BY <4>1, FS_AddElement
      <4> QED
        BY <4>2, <3>2
    <3> HIDE DEF W
    <3>4. IsFiniteSet(W') /\ Cardinality(W') <= Cardinality(InLastWindow(c) \cup {r})
      BY <3>1, <3>3, FS_Subset
    <3>5. Cardinality(W') \in Nat /\ Cardinality(InLastWindow(c) \cup {r}) \in Nat
      BY <3>3, <3>4, FS_CardinalityType
    <3>6. Cardinality(W') <= MaxRequests
      BY <1>4, <3>2, <3>3, <3>4, <3>5
    <3> QED
      BY <3>6 DEF W
  <2> QED
    BY <2>2, <2>3
<1>15. LimitHolds'
  BY <1>14 DEF LimitHolds
<1>16. ASSUME NEW q \in Requests PROVE ArrivalKnown(q)' /\ Refusal(q)'
  <2>1. ArrivalKnown(q) /\ Refusal(q) /\ at[q] \in Int /\ retry[q] \in Int
    BY DEF RequestsInv, LimiterInv, TypeOK
  <2>2. ArrivalKnown(q)'
    BY <2>1, <1>1, <1>6, <1>9 DEF ArrivalKnown, Limited
  <2>3. ASSUME Limited(q)', NoneAdmittedSince(q)' PROVE FullSince(q)'
    <3>1. q # r /\ Limited(q) /\ at'[q] = at[q] /\ retry'[q] = retry[q]
      BY <2>3, <1>6, <1>9 DEF Limited
    <3>2. NoneAdmittedSince(q)
      BY <2>3, <3>1, <1>1, <1>6, <1>10 DEF NoneAdmittedSince, Admitted, TypeOK
    <3>3. FullSince(q) /\ at[q] <= now /\ retry[q] >= 1
      BY <2>1, <3>1, <3>2 DEF Refusal, ArrivalKnown
    <3>4. CASE input[q].caller # c
      BY <3>1, <3>3, <3>4, <1>1, <1>5 DEF FullSince, TypeOK
    <3>5. CASE input[q].caller = c
      <4>1. at[q] = now
        BY <2>3, <3>1, <3>3, <3>5, <1>1, <1>6, <1>10, <2>1 DEF NoneAdmittedSince
      <4>2. Len(bucket[c]) = MaxRequests /\ bucket[c][1] + WindowSeconds = now + retry[q]
        BY <3>3, <3>5, <4>1, <1>1, <2>1 DEF FullSince
      <4>3. bucket[c][1] > now - WindowSeconds
        BY <4>2, <3>3, <1>1, <1>7, <2>1
      <4>4. d = 0
        <5>1. 1 \notin 1..d
          BY <4>3, <1>1, <1>3, <1>7 DEF Dropped
        <5> QED
          BY <5>1, <1>3, <1>7
      <4> QED
        BY <4>2, <4>4, <1>4
    <3> QED
      BY <3>4, <3>5
  <2> QED
    BY <2>2, <2>3 DEF Refusal
<1>17. IdempotencyInv'
  <2>1. ASSUME NEW q \in Requests PROVE InProgress(q)' /\ Remembered(q)'
    <3>1. InProgress(q) /\ Remembered(q) /\ input[q].key \in Keys \cup {NoKey}
      BY DEF RequestsInv, IdempotencyInv, TypeOK
    <3> QED
      BY <3>1, <1>1, <1>6 DEF InProgress, Remembered
  <2>2. ASSUME NEW k \in Keys PROVE RecordSound(k)'
    BY <1>1, <1>6 DEF RequestsInv, IdempotencyInv, RecordSound
  <2> QED
    BY <2>1, <2>2 DEF IdempotencyInv
<1>18. SigningInv'
  BY <1>1, <1>6 DEF RequestsInv, SigningInv
<1> QED
  BY <1>8, <1>13, <1>15, <1>16, <1>17, <1>18 DEF RequestsInv, LimiterInv

(* A caller without room has a full bucket, all of it in the window.       *)
LEMMA FullBucket ==
  ASSUME TypeOK, NEW c \in Callers, BucketSorted(c), ~HasRoom(c)
  PROVE  /\ InWindow(bucket[c]) = bucket[c] /\ Len(bucket[c]) = MaxRequests
         /\ bucket[c][1] \in 0..MaxTime /\ bucket[c][1] > now - WindowSeconds
         /\ Head(bucket[c]) = bucket[c][1]
<1> USE RequestsAssumption DEF RequestsAssumption
<1>1. PICK d \in 0..Len(bucket[c]) : Dropped(c, d)
  BY InWindowLemma
<1>2. /\ bucket[c] \in Seq(0..MaxTime) /\ Len(bucket[c]) \in Nat /\ Len(bucket[c]) <= MaxRequests
      /\ \A i \in 1..Len(bucket[c]) : bucket[c][i] \in 0..MaxTime
  BY InWindowLemma
<1>3. Len(InWindow(bucket[c])) = Len(bucket[c]) - d
  BY <1>1 DEF Dropped
<1>4. ~(Len(InWindow(bucket[c])) < MaxRequests)
  BY DEF HasRoom
<1>5. d = 0 /\ Len(bucket[c]) = MaxRequests
  BY <1>1, <1>2, <1>3, <1>4
<1>6. /\ InWindow(bucket[c]) \in Seq(0..MaxTime) /\ Len(InWindow(bucket[c])) = Len(bucket[c])
      /\ \A i \in 1..Len(bucket[c]) : /\ InWindow(bucket[c])[i] = bucket[c][i]
                                      /\ bucket[c][i] > now - WindowSeconds
  BY <1>1, <1>2, <1>5 DEF Dropped
<1>7. InWindow(bucket[c]) = bucket[c]
  BY <1>2, <1>6, SeqEqual
<1>8. 1 \in 1..Len(bucket[c])
  BY <1>5
<1> QED
  BY <1>2, <1>5, <1>6, <1>7, <1>8

LEMMA RefuseKeepsInv ==
  ASSUME RequestsInv, NEW r \in Requests, Refuse(r)
  PROVE  RequestsInv'
<1> USE RequestsAssumption DEF RequestsAssumption
<1>0. PICK c \in Callers : c = input[r].caller
  BY DEF RequestsInv, TypeOK
<1>1. TypeOK /\ input[r].caller = c /\ now \in 0..MaxTime /\ BucketSorted(c) /\ ~HasRoom(c)
  BY <1>0 DEF RequestsInv, TypeOK, LimiterInv, Refuse
<1>2. /\ InWindow(bucket[c]) = bucket[c] /\ Len(bucket[c]) = MaxRequests
      /\ bucket[c][1] \in 0..MaxTime /\ bucket[c][1] > now - WindowSeconds
      /\ Head(bucket[c]) = bucket[c][1]
  BY <1>1, FullBucket
<1>3. bucket' = bucket
  BY <1>1, <1>2 DEF Refuse, TypeOK
<1>4. retry' = [retry EXCEPT ![r] = (bucket[c][1] + WindowSeconds) - now]
  BY <1>1, <1>2 DEF Refuse, RetryAfter
<1>5. /\ stage[r] = "new" /\ stage' = [stage EXCEPT ![r] = "done"] /\ at' = [at EXCEPT ![r] = now]
      /\ answer' = [answer EXCEPT ![r] = [by |-> r, status |-> "rate_limited"]]
      /\ now' = now /\ input' = input /\ executed' = executed /\ records' = records
      /\ stored' = stored /\ nonces' = nonces /\ marked' = marked
  BY DEF Refuse, Arrives, Answered, idempotencyVars, signingVars
<1>6. /\ stage'[r] = "done" /\ at'[r] = now /\ answer'[r] = [by |-> r, status |-> "rate_limited"]
      /\ retry'[r] = (bucket[c][1] + WindowSeconds) - now /\ retry'[r] \in Nat /\ retry'[r] >= 1
      /\ \A q \in Requests \ {r} : /\ stage'[q] = stage[q] /\ at'[q] = at[q]
                                  /\ answer'[q] = answer[q] /\ retry'[q] = retry[q]
  BY <1>1, <1>2, <1>4, <1>5 DEF TypeOK
<1>7. TypeOK'
  <2>1. stage' \in [Requests -> {"new", "look_up", "sign", "handle", "store", "done"}]
    BY <1>1, <1>5 DEF TypeOK
  <2>2. at' \in [Requests -> 0..MaxTime] /\ retry' \in [Requests -> Nat]
    BY <1>1, <1>4, <1>5, <1>6 DEF TypeOK
  <2>3. answer' \in [Requests -> Answers]
    BY <1>1, <1>5 DEF TypeOK, Answers, Statuses
  <2> QED
    BY <1>1, <1>3, <1>5, <2>1, <2>2, <2>3 DEF TypeOK
<1>8. \A a \in Callers : Admitted(a)' = Admitted(a) /\ r \notin Admitted(a)
  BY <1>1, <1>5, <1>6 DEF Admitted
<1>9. LimiterInv'
  <2>1. ASSUME NEW a \in Callers PROVE BucketSorted(a)' /\ Covered(a)'
    <3>1. BucketSorted(a) /\ Covered(a)
      BY DEF RequestsInv, LimiterInv
    <3>2. InLastWindow(a)' = InLastWindow(a) /\ \A q \in InLastWindow(a) : at'[q] = at[q]
      BY <1>5, <1>6, <1>8 DEF InLastWindow, Admitted
    <3> QED
      BY <1>3, <1>5, <3>1, <3>2 DEF BucketSorted, Sorted, Covered, Places
  <2>2. LimitHolds'
    <3> SUFFICES ASSUME NEW a \in Callers, NEW t \in 0..MaxTime
                 PROVE  Cardinality({q \in Admitted(a) : at[q] \in (t - WindowSeconds + 1)..t}')
                          <= MaxRequests
      BY DEF LimitHolds
    <3>1. {q \in Admitted(a) : at[q] \in (t - WindowSeconds + 1)..t}'
            = {q \in Admitted(a) : at[q] \in (t - WindowSeconds + 1)..t}
      BY <1>6, <1>8 DEF Admitted
    <3> QED
      BY <3>1 DEF RequestsInv, LimiterInv, LimitHolds
  <2>3. ASSUME NEW q \in Requests PROVE ArrivalKnown(q)' /\ Refusal(q)'
    <3>1. CASE q = r
      <4>1. ArrivalKnown(r)'
        BY <1>1, <1>5, <1>6 DEF ArrivalKnown
      <4>2. FullSince(r)'
        BY <1>1, <1>2, <1>3, <1>5, <1>6 DEF FullSince
      <4> QED
        BY <3>1, <4>1, <4>2 DEF Refusal
    <3>2. CASE q # r
      <4>1. ArrivalKnown(q) /\ Refusal(q)
        BY DEF RequestsInv, LimiterInv
      <4>2. /\ stage'[q] = stage[q] /\ at'[q] = at[q] /\ answer'[q] = answer[q]
            /\ retry'[q] = retry[q]
        BY <3>2, <1>6
      <4>3. NoneAdmittedSince(q)' => NoneAdmittedSince(q)
        <5>1. Admitted(input[q].caller)' = Admitted(input[q].caller) /\ input' = input
          BY <1>1, <1>5, <1>8 DEF TypeOK
        <5>2. \A x \in Admitted(input[q].caller) : at'[x] = at[x]
          BY <1>1, <1>6, <1>8 DEF Admitted, TypeOK
        <5> QED
          BY <4>2, <5>1, <5>2 DEF NoneAdmittedSince
      <4> QED
        BY <4>1, <4>2, <4>3, <1>3, <1>5 DEF ArrivalKnown, Refusal, Limited, FullSince
    <3> QED
      BY <3>1, <3>2
  <2> QED
    BY <2>1, <2>2, <2>3 DEF LimiterInv
<1>10. IdempotencyInv'
  <2>1. ASSUME NEW q \in Requests PROVE InProgress(q)' /\ Remembered(q)'
    <3>1. InProgress(q) /\ Remembered(q)
      BY DEF RequestsInv, IdempotencyInv
    <3> QED
      BY <3>1, <1>5, <1>6 DEF InProgress, Remembered
  <2>2. ASSUME NEW k \in Keys PROVE RecordSound(k)'
    <3>1. RecordSound(k) /\ (records[k] # NoRecord => records[k].of.by \in Requests)
      BY <1>1 DEF RequestsInv, IdempotencyInv, TypeOK, Records, Answers
    <3>2. ~(stored[r] >= 0)
      <4>1. Remembered(r) /\ stage[r] # "done"
        BY <1>5 DEF RequestsInv, IdempotencyInv
      <4> QED
        BY <4>1 DEF Remembered
    <3>3. records[k] # NoRecord => answer'[records[k].of.by] = answer[records[k].of.by]
      BY <3>1, <3>2, <1>6 DEF RecordSound
    <3> QED
      BY <3>1, <3>3, <1>5 DEF RecordSound
  <2> QED
    BY <2>1, <2>2 DEF IdempotencyInv
<1>11. SigningInv'
  BY <1>5 DEF RequestsInv, SigningInv
<1> QED
  BY <1>7, <1>9, <1>10, <1>11 DEF RequestsInv

------------------------------------------------------------------------------
(* The steps behind the limiter.  A request under way moves on, with an    *)
(* answer that is not the limiter's.                                       *)
Moves(r, s, a) ==
  /\ stage[r] \notin {"new", "done"}
  /\ stage' = [stage EXCEPT ![r] = s] /\ answer' = [answer EXCEPT ![r] = a]
  /\ s \in {"sign", "handle", "store", "done"} /\ a \in Answers /\ a.status # "rate_limited"
  /\ s = "store" => input[r].key \in Keys
  /\ s # "done" => a.by = r
  /\ now' = now /\ input' = input /\ bucket' = bucket /\ at' = at /\ retry' = retry

LEMMA MovesLemma ==
  ASSUME RequestsInv, NEW r \in Requests, NEW s, NEW a, Moves(r, s, a)
  PROVE  /\ stage'[r] = s /\ answer'[r] = a
         /\ \A q \in Requests \ {r} : stage'[q] = stage[q] /\ answer'[q] = answer[q]
         /\ stage' \in [Requests -> {"new", "look_up", "sign", "handle", "store", "done"}]
         /\ answer' \in [Requests -> Answers]
         /\ LimiterInv' /\ \A q \in Requests : InProgress(q)'
<1>1. TypeOK /\ ArrivalKnown(r)
  BY DEF RequestsInv, LimiterInv
<1>2. stage'[r] = s /\ answer'[r] = a
  BY <1>1 DEF Moves, TypeOK
<1>3. \A q \in Requests \ {r} : stage'[q] = stage[q] /\ answer'[q] = answer[q]
  BY <1>1 DEF Moves, TypeOK
<1>4. stage' \in [Requests -> {"new", "look_up", "sign", "handle", "store", "done"}]
  BY <1>1 DEF Moves, TypeOK
<1>5. answer' \in [Requests -> Answers]
  BY <1>1 DEF Moves, TypeOK
<1>6. stage[r] \in {"look_up", "sign", "handle", "store"}
  BY <1>1 DEF Moves, TypeOK
<1>7. ~Limited(r) /\ ~Limited(r)'
  BY <1>1, <1>2, <1>6 DEF ArrivalKnown, Limited, Moves
<1>8. \A c \in Callers : Admitted(c)' = Admitted(c)
  BY <1>2, <1>3, <1>6, <1>7 DEF Admitted, Limited, Moves
<1>9. LimiterInv'
  <2>1. ASSUME NEW c \in Callers PROVE BucketSorted(c)' /\ Covered(c)'
    BY <1>8 DEF RequestsInv, LimiterInv, BucketSorted, Sorted, Covered, Places, InLastWindow, Moves
  <2>2. LimitHolds'
    BY <1>8 DEF RequestsInv, LimiterInv, LimitHolds, Moves
  <2>3. ASSUME NEW q \in Requests PROVE ArrivalKnown(q)' /\ Refusal(q)'
    <3>1. ArrivalKnown(q) /\ Refusal(q)
      BY DEF RequestsInv, LimiterInv
    <3>2. Limited(q)' => Limited(q) /\ stage'[q] = stage[q]
      BY <1>3, <1>7 DEF Limited
    <3>3. stage'[q] \in {"look_up", "sign", "handle", "store"} => ~Limited(q)'
      BY <3>1, <3>2 DEF ArrivalKnown
    <3>4. ArrivalKnown(q)'
      BY <3>1, <3>2, <3>3 DEF ArrivalKnown, Moves
    <3>5. Admitted(input[q].caller)' = Admitted(input[q].caller)
      BY <1>1, <1>8 DEF TypeOK, Moves
    <3>6. Refusal(q)'
      BY <3>1, <3>2, <3>5 DEF Refusal, NoneAdmittedSince, FullSince, Moves
    <3> QED
      BY <3>4, <3>6
  <2> QED
    BY <2>1, <2>2, <2>3 DEF LimiterInv
<1>10. ASSUME NEW q \in Requests PROVE InProgress(q)'
  <2>1. InProgress(q)
    BY DEF RequestsInv, IdempotencyInv
  <2> QED
    BY <2>1, <1>2, <1>3 DEF InProgress, Moves
<1> QED
  BY <1>2, <1>3, <1>4, <1>5, <1>9, <1>10

(* A request whose response was stored, and every record's request, are    *)
(* done and so not the one that moves.                                     *)
LEMMA MovesKeepsRecords ==
  ASSUME RequestsInv, NEW r \in Requests, NEW s, NEW a, Moves(r, s, a)
  PROVE  /\ ~(stored[r] >= 0)
         /\ \A k \in Keys : records[k] # NoRecord =>
              LET p == records[k].of.by
              IN p \in Requests \ {r} /\ answer'[p] = answer[p]
         /\ records' = records /\ stored' = stored => IdempotencyInv'
<1>1. TypeOK /\ Remembered(r) /\ stage[r] # "done"
  BY DEF RequestsInv, IdempotencyInv, Moves
<1>2. ~(stored[r] >= 0)
  BY <1>1 DEF Remembered
<1>3. ASSUME NEW k \in Keys, records[k] # NoRecord
      PROVE  records[k].of.by \in Requests \ {r}
             /\ answer'[records[k].of.by] = answer[records[k].of.by]
  <2>1. records[k].of.by \in Requests
    BY <1>1, <1>3 DEF TypeOK, Records, Answers
  <2>2. records[k].of.by # r
    BY <1>2, <1>3 DEF RequestsInv, IdempotencyInv, RecordSound
  <2> QED
    BY <2>1, <2>2, MovesLemma
<1>4. ASSUME records' = records, stored' = stored PROVE IdempotencyInv'
  <2>1. ASSUME NEW q \in Requests PROVE Remembered(q)'
    <3>1. Remembered(q) /\ (stored[q] >= 0 => q # r)
      BY <1>2 DEF RequestsInv, IdempotencyInv
    <3>2. q # r => stage'[q] = stage[q]
      BY MovesLemma
    <3> QED
      BY <1>4, <3>1, <3>2 DEF Remembered, Moves
  <2>2. ASSUME NEW k \in Keys PROVE RecordSound(k)'
    <3>1. RecordSound(k)
      BY DEF RequestsInv, IdempotencyInv
    <3> QED
      BY <1>3, <1>4, <3>1 DEF RecordSound, Moves
  <2> QED
    BY <2>1, <2>2, MovesLemma DEF IdempotencyInv
<1> QED
  BY <1>2, <1>3, <1>4

LEMMA LookUpKeepsInv ==
  ASSUME RequestsInv, NEW r \in Requests, LookUp(r)
  PROVE  RequestsInv'
<1> USE RequestsAssumption DEF RequestsAssumption
<1>1. PICK k \in Keys : k = input[r].key
  BY DEF RequestsInv, IdempotencyInv, InProgress, LookUp
<1>2. /\ TypeOK /\ stage[r] = "look_up" /\ RecordSound(k) /\ InProgress(r) /\ ArrivalKnown(r)
      /\ answer[r] \in Answers
  BY DEF RequestsInv, LimiterInv, IdempotencyInv, LookUp, TypeOK
<1>3. /\ now' = now /\ input' = input /\ bucket' = bucket /\ at' = at /\ retry' = retry
      /\ stored' = stored /\ executed' = executed /\ nonces' = nonces /\ marked' = marked
  BY DEF LookUp, limiterVars, signingVars
<1>4. SigningInv'
  BY <1>3 DEF RequestsInv, SigningInv
<1>5. CASE records[k] = NoRecord \/ records[k].expires <= now
  <2>1. /\ records' = [records EXCEPT ![k] = NoRecord] /\ stage' = [stage EXCEPT ![r] = "sign"]
        /\ answer' = answer
    BY <1>1, <1>5 DEF LookUp
  <2>2. answer' = [answer EXCEPT ![r] = answer[r]]
    BY <2>1, <1>2 DEF TypeOK
  <2>3. Moves(r, "sign", answer[r])
    BY <2>1, <2>2, <1>2, <1>3 DEF Moves, ArrivalKnown, Limited, InProgress
  <2>4. records'[k] = NoRecord /\ \A j \in Keys \ {k} : records'[j] = records[j]
    BY <2>1, <1>2 DEF TypeOK
  <2>5. TypeOK'
    BY <2>1, <2>3, <1>2, <1>3, MovesLemma DEF TypeOK
  <2>6. ASSUME NEW q \in Requests PROVE Remembered(q)'
    <3>1. Remembered(q) /\ (stored[q] >= 0 => q # r)
      BY <2>3, MovesKeepsRecords DEF RequestsInv, IdempotencyInv
    <3>2. q # r => stage'[q] = stage[q]
      BY <2>3, MovesLemma
    <3>3. /\ stored[q] \in Int /\ now \in Int
          /\ records[k] # NoRecord => records[k].expires \in Int
      BY <1>2 DEF TypeOK, Records
    <3>4. CASE input[q].key = k
      BY <1>3, <1>5, <3>1, <3>2, <3>3, <3>4 DEF Remembered
    <3>5. CASE input[q].key # k
      BY <1>3, <2>4, <3>1, <3>2, <3>5 DEF Remembered
    <3> QED
      BY <3>4, <3>5
  <2>7. ASSUME NEW j \in Keys PROVE RecordSound(j)'
    <3>1. CASE j = k
      BY <2>4, <3>1 DEF RecordSound
    <3>2. CASE j # k
      <4>1. RecordSound(j) /\ records'[j] = records[j]
        BY <2>4, <3>2 DEF RequestsInv, IdempotencyInv
      <4>2. records[j] # NoRecord => answer'[records[j].of.by] = answer[records[j].of.by]
        BY <2>1
      <4> QED
        BY <4>1, <4>2, <1>3 DEF RecordSound
    <3> QED
      BY <3>1, <3>2
  <2> QED
    BY <1>4, <2>3, <2>5, <2>6, <2>7, MovesLemma DEF RequestsInv, IdempotencyInv
<1>6. CASE ~(records[k] = NoRecord \/ records[k].expires <= now)
  <2>1. records' = records /\ \E a \in Answers : Moves(r, "done", a)
    <3>1. records' = records
      BY <1>1, <1>6 DEF LookUp
    <3>2. CASE records[k].body # input[r].body
      <4>1. Answered(r, r, "key_reused")
        BY <1>1, <1>6, <3>2 DEF LookUp
      <4>2. Moves(r, "done", [by |-> r, status |-> "key_reused"])
        BY <4>1, <1>2, <1>3 DEF Answered, Moves, Answers, Statuses
      <4> QED
        BY <3>1, <4>2 DEF Moves
    <3>3. CASE records[k].body = input[r].body
      <4>1. Answered(r, records[k].of.by, records[k].of.status)
        BY <1>1, <1>6, <3>3 DEF LookUp
      <4>2. records[k].of \in Answers /\ records[k].of.status # "rate_limited"
        BY <1>2, <1>6 DEF TypeOK, Records, RecordSound
      <4>3. Moves(r, "done", [by |-> records[k].of.by, status |-> records[k].of.status])
        BY <4>1, <4>2, <1>2, <1>3 DEF Answered, Moves, Answers
      <4> QED
        BY <3>1, <4>3 DEF Moves
    <3> QED
      BY <3>2, <3>3
  <2>2. PICK a \in Answers : Moves(r, "done", a)
    BY <2>1
  <2>3. TypeOK'
    BY <2>1, <2>2, <1>2, <1>3, MovesLemma DEF TypeOK
  <2> QED
    BY <1>3, <1>4, <2>1, <2>2, <2>3, MovesLemma, MovesKeepsRecords DEF RequestsInv
<1> QED
  BY <1>5, <1>6

LEMMA StoreKeepsInv ==
  ASSUME RequestsInv, NEW r \in Requests, Store(r)
  PROVE  RequestsInv'
<1> USE RequestsAssumption DEF RequestsAssumption
<1>1. PICK k \in Keys : k = input[r].key
  BY DEF RequestsInv, IdempotencyInv, InProgress, Store
<1>2. /\ TypeOK /\ stage[r] = "store" /\ InProgress(r) /\ ArrivalKnown(r)
      /\ answer[r] \in Answers /\ answer[r].by = r /\ now \in 0..MaxTime
  BY DEF RequestsInv, LimiterInv, IdempotencyInv, InProgress, Store, TypeOK
<1>3. /\ now' = now /\ input' = input /\ bucket' = bucket /\ at' = at /\ retry' = retry
      /\ answer' = answer /\ executed' = executed /\ nonces' = nonces /\ marked' = marked
      /\ stage' = [stage EXCEPT ![r] = "done"]
  BY DEF Store, limiterVars, signingVars
<1>4. SigningInv'
  BY <1>3 DEF RequestsInv, SigningInv
<1>5. answer' = [answer EXCEPT ![r] = answer[r]]
  BY <1>2, <1>3 DEF TypeOK
<1>6. Moves(r, "done", answer[r])
  BY <1>2, <1>3, <1>5 DEF Moves, ArrivalKnown, Limited
<1>7. CASE ~Stores(answer[r].status)
  <2>1. records' = records /\ stored' = stored
    BY <1>7 DEF Store
  <2>2. TypeOK'
    BY <2>1, <1>2, <1>3, <1>6, MovesLemma DEF TypeOK
  <2> QED
    BY <1>4, <1>6, <2>1, <2>2, MovesLemma, MovesKeepsRecords DEF RequestsInv
<1>8. CASE Stores(answer[r].status)
  <2>1. records' = [records EXCEPT ![k] = Record(r)] /\ stored' = [stored EXCEPT ![r] = now]
    BY <1>1, <1>8 DEF Store
  <2>2. /\ Record(r) \in Records /\ Record(r).body = input[r].body /\ Record(r).of = answer[r]
        /\ Record(r).expires = now + TtlSeconds
    BY <1>2 DEF Record, Records, TypeOK
  <2>3. records'[k] = Record(r) /\ \A j \in Keys \ {k} : records'[j] = records[j]
    BY <2>1, <1>2 DEF TypeOK
  <2>4. stored'[r] = now /\ \A q \in Requests \ {r} : stored'[q] = stored[q]
    BY <2>1, <1>2 DEF TypeOK
  <2>5. TypeOK'
    <3>1. records' \in [Keys -> {NoRecord} \cup Records]
      BY <2>1, <2>2, <1>2 DEF TypeOK
    <3>2. stored' \in [Requests -> (0..MaxTime) \cup {-1}]
      BY <2>1, <1>2 DEF TypeOK
    <3> QED
      BY <3>1, <3>2, <1>2, <1>3, <1>6, MovesLemma DEF TypeOK
  <2>6. Record(r) # NoRecord
    BY <2>2, RecordAssumption
  <2>7. ASSUME NEW q \in Requests PROVE Remembered(q)'
    <3>1. CASE q = r
      <4>1. stage'[r] = "done"
        BY <1>6, MovesLemma
      <4>2. records'[k].expires = now + TtlSeconds /\ records'[k] # NoRecord
        BY <2>2, <2>3, <2>6
      <4> QED
        BY <3>1, <4>1, <4>2, <1>1, <1>2, <1>3, <2>4 DEF Remembered
    <3>2. CASE q # r
      <4>0. Remembered(q) /\ stored[q] \in Int
        BY <1>2 DEF RequestsInv, IdempotencyInv, TypeOK
      <4>1. stage'[q] = stage[q] /\ stored'[q] = stored[q]
        BY <3>2, <1>6, <2>4, MovesLemma
      <4>2. CASE input[q].key = k
        BY <4>0, <4>1, <4>2, <1>2, <1>3, <2>2, <2>3, <2>6 DEF Remembered
      <4>3. CASE input[q].key # k
        BY <4>0, <4>1, <4>3, <1>3, <2>3 DEF Remembered
      <4> QED
        BY <4>2, <4>3
    <3> QED
      BY <3>1, <3>2
  <2>8. ASSUME NEW j \in Keys PROVE RecordSound(j)'
    <3>1. CASE j = k
      <4>1. answer[r].status \notin {"server_error", "rate_limited"}
        BY <1>6, <1>8 DEF Stores, Moves
      <4>2. Record(r).of.by = r /\ stored'[r] = now /\ now >= 0
        BY <1>2, <2>2, <2>4
      <4> QED
        BY <3>1, <4>1, <4>2, <1>1, <1>3, <2>2, <2>3 DEF RecordSound
    <3>2. CASE j # k
      <4>1. RecordSound(j) /\ records'[j] = records[j]
        BY <2>3, <3>2 DEF RequestsInv, IdempotencyInv
      <4>2. records[j] # NoRecord => records[j].of.by \in Requests \ {r}
        BY <1>6, MovesKeepsRecords
      <4>3. records[j] # NoRecord => stored'[records[j].of.by] = stored[records[j].of.by]
        BY <4>2, <2>4
      <4> QED
        BY <4>1, <4>3, <1>3 DEF RecordSound
    <3> QED
      BY <3>1, <3>2
  <2> QED
    BY <1>4, <1>6, <2>5, <2>7, <2>8, MovesLemma DEF RequestsInv, IdempotencyInv
<1> QED
  BY <1>7, <1>8

(* A response of request signing or of the handler goes out through        *)
(* idempotency.                                                            *)
LEMMA InnerAnswerMoves ==
  ASSUME RequestsInv, NEW r \in Requests, stage[r] \in {"sign", "handle"},
         NEW status \in Statuses \ {"rate_limited"}, InnerAnswer(r, status),
         now' = now, input' = input, bucket' = bucket, at' = at, retry' = retry
  PROVE  \E s \in {"store", "done"}, a \in Answers : Moves(r, s, a)
<1>1. /\ TypeOK /\ answer[r] \in Answers /\ answer[r].by = r
      /\ input[r].key \in Keys \cup {NoKey}
  BY DEF RequestsInv, TypeOK, IdempotencyInv, InProgress
<1>2. CASE input[r].key = NoKey
  <2>1. Moves(r, "done", [by |-> r, status |-> status])
    BY <1>2 DEF InnerAnswer, Answered, Moves, Answers
  <2> QED
    BY <2>1 DEF Moves
<1>3. CASE input[r].key # NoKey
  <2>1. answer' = [answer EXCEPT ![r] = [answer[r] EXCEPT !.status = status]]
    BY <1>3 DEF InnerAnswer
  <2>2. [answer[r] EXCEPT !.status = status] = [by |-> r, status |-> status]
    BY <1>1 DEF Answers
  <2>3. Moves(r, "store", [by |-> r, status |-> status])
    BY <1>1, <1>3, <2>1, <2>2 DEF InnerAnswer, Moves, Answers
  <2> QED
    BY <2>3 DEF Moves
<1> QED
  BY <1>2, <1>3

LEMMA HandleKeepsInv ==
  ASSUME RequestsInv, NEW r \in Requests, Handle(r) \/ SignatureStale(r)
  PROVE  RequestsInv'
<1>1. /\ now' = now /\ input' = input /\ bucket' = bucket /\ at' = at /\ retry' = retry
      /\ records' = records /\ stored' = stored /\ nonces' = nonces /\ marked' = marked
      /\ executed' \in {executed, executed \cup {r}}
  BY DEF Handle, SignatureStale, limiterVars, idempotencyVars, signingVars
<1>2. /\ stage[r] \in {"sign", "handle"}
      /\ \E status \in Statuses \ {"rate_limited"} : InnerAnswer(r, status)
  BY DEF Handle, SignatureStale, Statuses
<1>3. PICK s, a : Moves(r, s, a)
  BY <1>1, <1>2, InnerAnswerMoves
<1>4. TypeOK'
  BY <1>1, <1>3, MovesLemma DEF TypeOK, RequestsInv
<1>5. SigningInv'
  BY <1>1 DEF RequestsInv, SigningInv
<1> QED
  BY <1>1, <1>3, <1>4, <1>5, MovesLemma, MovesKeepsRecords DEF RequestsInv

LEMMA SignKeepsInv ==
  ASSUME RequestsInv, NEW r \in Requests, Sign(r)
  PROVE  RequestsInv'
<1> USE RequestsAssumption DEF RequestsAssumption
<1>1. PICK n \in Nonces : n = input[r].nonce
  BY DEF RequestsInv, TypeOK
<1>2. TypeOK /\ SigningInv /\ now \in 0..MaxTime
  BY DEF RequestsInv, TypeOK
<1>3. /\ now' = now /\ input' = input /\ bucket' = bucket /\ at' = at /\ retry' = retry
      /\ records' = records /\ stored' = stored /\ executed' = executed
  BY DEF Sign, limiterVars, idempotencyVars
<1>4. Pruned \in [Nonces -> Nat]
  BY <1>2 DEF Pruned, TypeOK
<1>4a. ASSUME NEW x \in Nonces, marked[x] >= 0
       PROVE  now >= marked[x] + NonceTtlSeconds \/ Pruned[x] >= marked[x] + NonceTtlSeconds
  <2>1. /\ nonces[x] \in Nat /\ marked[x] \in Int /\ now \in Int
        /\ now >= marked[x] + NonceTtlSeconds \/ nonces[x] >= marked[x] + NonceTtlSeconds
    BY <1>2, <1>4a DEF TypeOK, SigningInv
  <2>2. Pruned[x] = IF nonces[x] <= now THEN 0 ELSE nonces[x]
    BY DEF Pruned
  <2> QED
    BY <2>1, <2>2
<1>5. \E s, a : Moves(r, s, a)
  <2>1. stage[r] = "sign" /\ answer[r] \in Answers /\ InProgress(r) /\ ArrivalKnown(r)
    BY DEF RequestsInv, LimiterInv, IdempotencyInv, TypeOK, Sign
  <2>2. \/ InnerAnswer(r, "signature_error")
        \/ stage' = [stage EXCEPT ![r] = "handle"] /\ answer' = answer
    BY DEF Sign
  <2>3. CASE InnerAnswer(r, "signature_error")
    BY <1>3, <2>1, <2>3, InnerAnswerMoves DEF Statuses
  <2>4. CASE stage' = [stage EXCEPT ![r] = "handle"] /\ answer' = answer
    <3>1. answer' = [answer EXCEPT ![r] = answer[r]]
      BY <2>4, <1>2 DEF TypeOK
    <3>2. Moves(r, "handle", answer[r])
      BY <1>3, <2>1, <2>4, <3>1 DEF Moves, InProgress, ArrivalKnown, Limited
    <3> QED
      BY <3>2
  <2> QED
    BY <2>2, <2>3, <2>4
<1>6. PICK s, a : Moves(r, s, a)
  BY <1>5
<1>7. CASE nonces' = Pruned /\ marked' = marked
  <2>1. TypeOK'
    BY <1>2, <1>3, <1>4, <1>6, <1>7, MovesLemma DEF TypeOK
  <2>2. SigningInv'
    BY <1>3, <1>4a, <1>7 DEF SigningInv
  <2> QED
    BY <1>3, <1>6, <2>1, <2>2, MovesLemma, MovesKeepsRecords DEF RequestsInv
<1>8. CASE nonces' = [Pruned EXCEPT ![n] = now + NonceTtlSeconds] /\ marked' = [marked EXCEPT ![n] = now]
  <2>1. nonces' \in [Nonces -> Nat] /\ marked' \in [Nonces -> (0..MaxTime) \cup {-1}]
    BY <1>2, <1>4, <1>8 DEF TypeOK
  <2>2. TypeOK'
    BY <1>2, <1>3, <1>6, <2>1, MovesLemma DEF TypeOK
  <2>3. SigningInv'
    <3> SUFFICES ASSUME NEW x \in Nonces, marked'[x] >= 0
                 PROVE  now >= marked'[x] + NonceTtlSeconds \/ nonces'[x] >= marked'[x] + NonceTtlSeconds
      BY <1>3 DEF SigningInv
    <3>1. CASE x = n
      BY <3>1, <1>2, <1>4, <1>8 DEF TypeOK
    <3>2. CASE x # n
      <4>1. marked'[x] = marked[x] /\ nonces'[x] = Pruned[x]
        BY <3>2, <1>2, <1>4, <1>8 DEF TypeOK
      <4> QED
        BY <4>1, <1>4a
    <3> QED
      BY <3>1, <3>2
  <2> QED
    BY <1>3, <1>6, <2>2, <2>3, MovesLemma, MovesKeepsRecords DEF RequestsInv
<1> QED
  BY <1>1, <1>7, <1>8 DEF Sign

LEMMA StepInv == RequestsInv /\ [Next]_vars => RequestsInv'
<1> SUFFICES ASSUME RequestsInv, [Next]_vars PROVE RequestsInv'
  OBVIOUS
<1>1. CASE Tick
  BY <1>1, TickKeepsInv
<1>2. ASSUME NEW r \in Requests,
             \/ Admit(r) \/ Refuse(r) \/ LookUp(r) \/ Store(r)
             \/ SignatureStale(r) \/ Sign(r) \/ Handle(r)
      PROVE  RequestsInv'
  BY <1>2, AdmitKeepsInv, RefuseKeepsInv, LookUpKeepsInv, StoreKeepsInv, SignKeepsInv, HandleKeepsInv
<1>3. CASE UNCHANGED vars
  <2> USE <1>3 DEF vars
  <2>1. TypeOK'
    BY DEF RequestsInv, TypeOK
  <2>2. \A c \in Callers : Admitted(c)' = Admitted(c)
    BY DEF Admitted
  <2>3. \A c \in Callers : BucketSorted(c)' /\ Covered(c)'
    BY <2>2 DEF RequestsInv, LimiterInv, BucketSorted, Sorted, Covered, Places, InLastWindow
  <2>4. LimitHolds'
    BY <2>2 DEF RequestsInv, LimiterInv, LimitHolds
  <2>5. ASSUME NEW r \in Requests PROVE ArrivalKnown(r)' /\ Refusal(r)'
    <3>1. Admitted(input[r].caller)' = Admitted(input[r].caller)
      BY DEF Admitted
    <3> QED
      BY <3>1 DEF RequestsInv, LimiterInv, ArrivalKnown, Limited, Refusal, NoneAdmittedSince, FullSince
  <2>6. IdempotencyInv'
    BY DEF RequestsInv, IdempotencyInv, InProgress, Remembered, RecordSound
  <2>7. SigningInv'
    BY DEF RequestsInv, SigningInv
  <2> QED
    BY <2>1, <2>3, <2>4, <2>5, <2>6, <2>7 DEF RequestsInv, LimiterInv
<1> QED
  BY <1>1, <1>2, <1>3 DEF Next

LEMMA Invariance == Spec => []RequestsInv
<1> QED
  BY InitInv, StepInv, PTL DEF Spec

------------------------------------------------------------------------------
(* The stores, buckets and answers always have the types the code gives    *)
(* them, and no bucket grows beyond max_requests.                          *)
THEOREM RequestsTypeOK == Spec => []TypeOK
<1>1. RequestsInv => TypeOK
  BY DEF RequestsInv
<1> QED
  BY <1>1, Invariance, PTL

(* The sliding window of InMemoryRateLimiter admits at most max_requests   *)
(* requests of a caller in any window, wherever it begins.                 *)
THEOREM NeverAboveLimit == Spec => []LimitHolds
<1>1. RequestsInv => LimitHolds
  BY DEF RequestsInv, LimiterInv
<1> QED
  BY <1>1, Invariance, PTL

(* The Retry-After of a refusal is the first moment at which the caller    *)
(* would be admitted again.                                                *)
THEOREM RetryAfterIsExact == Spec => []RetryAfterExact
<1>1. RequestsInv => RetryAfterExact
  <2> USE RequestsAssumption DEF RequestsAssumption
  <2> SUFFICES ASSUME RequestsInv, NEW r \in Requests, Limited(r), NoneAdmittedSince(r)
               PROVE  HasRoom(input[r].caller) <=> now >= at[r] + retry[r]
    BY DEF RetryAfterExact, Limited, NoneAdmittedSince
  <2>1. PICK c \in Callers : c = input[r].caller
    BY DEF RequestsInv, TypeOK
  <2>2. TypeOK /\ BucketSorted(c) /\ FullSince(r)
    BY DEF RequestsInv, LimiterInv, Refusal
  <2>3. PICK d \in 0..Len(bucket[c]) : Dropped(c, d)
    BY <2>2, InWindowLemma
  <2>4. /\ Len(bucket[c]) \in Nat /\ Len(bucket[c]) <= MaxRequests
        /\ \A i \in 1..Len(bucket[c]) : bucket[c][i] \in 0..MaxTime
    BY <2>2, InWindowLemma
  <2>5. Len(InWindow(bucket[c])) = Len(bucket[c]) - d /\ d \in Nat
    BY <2>3, <2>4 DEF Dropped
  <2>6. HasRoom(c) <=> Len(bucket[c]) - d < MaxRequests
    BY <2>5 DEF HasRoom
  <2>7. CASE Len(bucket[c]) < MaxRequests /\ now >= at[r] + retry[r]
    BY <2>1, <2>4, <2>5, <2>6, <2>7
  <2>8. CASE Len(bucket[c]) = MaxRequests /\ bucket[c][1] + WindowSeconds = at[r] + retry[r]
    <3>1. bucket[c][1] \in 0..MaxTime /\ now \in Int /\ 1 \in 1..Len(bucket[c])
      BY <2>2, <2>4, <2>8 DEF TypeOK
    <3>2. CASE now >= at[r] + retry[r]
      <4>1. ~(bucket[c][1] > now - WindowSeconds)
        BY <2>8, <3>1, <3>2
      <4>2. d # 0
        BY <2>3, <3>1, <4>1 DEF Dropped
      <4> QED
        BY <2>1, <2>4, <2>5, <2>6, <3>2, <4>2
    <3>3. CASE ~(now >= at[r] + retry[r])
      <4>1. ~(bucket[c][1] <= now - WindowSeconds)
        BY <2>8, <3>1, <3>3
      <4>2. 1 \notin 1..d
        BY <2>3, <4>1 DEF Dropped
      <4>3. d = 0
        BY <2>5, <4>2
      <4> QED
        BY <2>1, <2>4, <2>6, <2>8, <3>3, <4>3
    <3> QED
      BY <3>2, <3>3
  <2> QED
    BY <2>1, <2>2, <2>7, <2>8 DEF FullSince
<1> QED
  BY <1>1, Invariance, PTL

(* A request is passed on only if no response to its key was stored within *)
(* the time to live.                                                       *)
THEOREM StoredIsNotExecutedAgain == Spec => NotExecutedAgain
<1>1. RequestsInv /\ [Next]_vars =>
        [\A q, p \in Requests :
           (stage[q] = "look_up" /\ stage'[q] = "sign" /\ input[p].key = input[q].key /\ stored[p] >= 0)
             => now >= stored[p] + TtlSeconds]_vars
  <2> SUFFICES ASSUME RequestsInv, Next, NEW q \in Requests, NEW p \in Requests,
                      stage[q] = "look_up", stage'[q] = "sign", input[p].key = input[q].key,
                      stored[p] >= 0
               PROVE  now >= stored[p] + TtlSeconds
    OBVIOUS
  <2>1. TypeOK /\ Remembered(p)
    BY DEF RequestsInv, IdempotencyInv
  <2>2. LookUp(q)
    <3>1. stage' # stage /\ ~Tick
      BY DEF Tick
    <3>2. PICK r \in Requests : \/ Admit(r) \/ Refuse(r) \/ LookUp(r) \/ Store(r)
                               \/ SignatureStale(r) \/ Sign(r) \/ Handle(r)
      BY <3>1 DEF Next
    <3>3. \E s : stage' = [stage EXCEPT ![r] = s]
      BY <3>2 DEF Admit, Refuse, LookUp, Store, SignatureStale, Sign, Handle, Answered, InnerAnswer
    <3>4. r = q
      BY <3>3, <2>1 DEF TypeOK
    <3> QED
      BY <3>2, <3>4 DEF Admit, Refuse, Store, SignatureStale, Sign, Handle, Arrives
  <2>3. records[input[q].key] = NoRecord \/ records[input[q].key].expires <= now
    <3>1. \A by, status : ~Answered(q, by, status)
      BY <2>1 DEF Answered, TypeOK
    <3> QED
      BY <2>2, <3>1 DEF LookUp
  <2>4. stored[p] \in Int /\ now \in Int /\ TtlSeconds \in Int
    BY <2>1, RequestsAssumption DEF TypeOK, RequestsAssumption
  <2>5. input[p].key \in Keys
    BY <2>1 DEF Remembered
  <2>6. records[input[p].key] # NoRecord => records[input[p].key].expires \in Int
    BY <2>1, <2>5 DEF TypeOK, Records
  <2> QED
    BY <2>1, <2>3, <2>4, <2>5, <2>6 DEF Remembered
<1> QED
  BY <1>1, Invariance, PTL DEF Spec, NotExecutedAgain

(* A replayed response is one stored for a request with the same key and   *)
(* body in the last ttl_seconds, and never a server error.                 *)
THEOREM ReplayIsFaithful == Spec => ReplayFaithful
<1>1. ASSUME RequestsInv, Next, NEW r \in Requests, answer'[r].by # r, answer[r].by = r
      PROVE  LET p == answer'[r].by
             IN /\ input[p].key = input[r].key /\ input[p].body = input[r].body
                /\ answer[p] = answer'[r] /\ answer[p].status # "server_error"
                /\ stored[p] >= 0 /\ now < stored[p] + TtlSeconds
  <2>1. TypeOK /\ IdempotencyInv
    BY <1>1 DEF RequestsInv
  <2>2. LookUp(r)
    <3>1. answer' # answer /\ ~Tick
      BY <1>1 DEF Tick
    <3>2. PICK q \in Requests : \/ Admit(q) \/ Refuse(q) \/ LookUp(q) \/ Store(q)
                               \/ SignatureStale(q) \/ Sign(q) \/ Handle(q)
      BY <1>1, <3>1 DEF Next
    <3>3. \E a : answer' = [answer EXCEPT ![q] = a]
      BY <3>1, <3>2 DEF Admit, Refuse, LookUp, Store, SignatureStale, Sign, Handle, Answered, InnerAnswer
    <3>4. q = r
      BY <1>1, <3>3, <2>1 DEF TypeOK
    <3>5. ~InnerAnswer(r, "signature_error") /\ ~InnerAnswer(r, "ok")
          /\ ~InnerAnswer(r, "server_error") /\ ~InnerAnswer(r, "too_large")
          /\ ~Answered(r, r, "rate_limited")
      BY <1>1, <2>1 DEF InnerAnswer, Answered, TypeOK, Answers
    <3> QED
      BY <3>1, <3>2, <3>4, <3>5 DEF Admit, Refuse, Store, SignatureStale, Sign, Handle
  <2>3. PICK k \in Keys : k = input[r].key
    BY <2>1, <2>2 DEF IdempotencyInv, InProgress, LookUp
  <2>4. records[k] # NoRecord /\ ~(records[k].expires <= now) /\ records[k].body = input[r].body
        /\ Answered(r, records[k].of.by, records[k].of.status)
    <3>1. answer' # answer /\ ~Answered(r, r, "key_reused")
      BY <1>1, <2>1 DEF Answered, TypeOK
    <3> QED
      BY <2>2, <2>3, <3>1 DEF LookUp
  <2>5. records[k].of \in Answers /\ records[k].expires \in Nat
    BY <2>1, <2>4 DEF TypeOK, Records
  <2>6. answer'[r] = records[k].of
    <3>1. answer'[r] = [by |-> records[k].of.by, status |-> records[k].of.status]
      BY <2>1, <2>4 DEF Answered, TypeOK
    <3> QED
      BY <3>1, <2>5 DEF Answers
  <2>7. RecordSound(k) /\ now \in Int
    BY <2>1 DEF IdempotencyInv, TypeOK
  <2> QED
    BY <2>3, <2>4, <2>5, <2>6, <2>7 DEF RecordSound
<1>2. RequestsInv /\ [Next]_vars =>
        [\A r \in Requests : LET p == answer'[r].by IN
           Replays(r) =>
             /\ input[p].key = input[r].key /\ input[p].body = input[r].body
             /\ answer[p] = answer'[r] /\ answer[p].status # "server_error"
             /\ stored[p] >= 0 /\ now < stored[p] + TtlSeconds]_vars
  BY <1>1 DEF Replays
<1> QED
  BY <1>2, Invariance, PTL DEF Spec, ReplayFaithful

(* A nonce is accepted once in nonce_ttl_seconds.                          *)
THEOREM NonceAcceptedOncePerTtl == Spec => NonceOncePerTtl
<1>1. ASSUME RequestsInv, Next, NEW r \in Requests, stage[r] = "sign", stage'[r] = "handle",
             marked[input[r].nonce] >= 0
      PROVE  now >= marked[input[r].nonce] + NonceTtlSeconds
  <2> USE RequestsAssumption DEF RequestsAssumption
  <2>1. PICK n \in Nonces : n = input[r].nonce
    BY <1>1 DEF RequestsInv, TypeOK
  <2>2. TypeOK /\ nonces[n] \in Nat /\ marked[n] \in Int /\ now \in 0..MaxTime
    BY <1>1, <2>1 DEF RequestsInv, TypeOK
  <2>2a. now >= marked[n] + NonceTtlSeconds \/ nonces[n] >= marked[n] + NonceTtlSeconds
    BY <1>1, <2>1 DEF RequestsInv, SigningInv
  <2>3. Sign(r) /\ ~InnerAnswer(r, "signature_error")
    <3>1. stage' # stage /\ ~Tick
      BY <1>1 DEF Tick
    <3>2. PICK q \in Requests : \/ Admit(q) \/ Refuse(q) \/ LookUp(q) \/ Store(q)
                               \/ SignatureStale(q) \/ Sign(q) \/ Handle(q)
      BY <1>1, <3>1 DEF Next
    <3>3. \E s : stage' = [stage EXCEPT ![q] = s]
      BY <3>2 DEF Admit, Refuse, LookUp, Store, SignatureStale, Sign, Handle, Answered, InnerAnswer
    <3>4. q = r
      BY <1>1, <3>3, <2>2 DEF TypeOK
    <3>5. \A status : ~InnerAnswer(r, status)
      BY <1>1, <2>2 DEF InnerAnswer, Answered, TypeOK
    <3> QED
      BY <1>1, <3>2, <3>4, <3>5 DEF Admit, Refuse, LookUp, Store, SignatureStale, Handle, Arrives
  <2>4. Pruned[n] = 0
    BY <2>1, <2>3 DEF Sign
  <2>5. nonces[n] <= now \/ nonces[n] = 0
    BY <2>4 DEF Pruned
  <2> QED
    BY <2>1, <2>2, <2>2a, <2>5
<1>2. RequestsInv /\ [Next]_vars =>
        [\A r \in Requests : LET n == input[r].nonce IN
           (stage[r] = "sign" /\ stage'[r] = "handle" /\ marked[n] >= 0) =>
             now >= marked[n] + NonceTtlSeconds]_vars
  BY <1>1
<1> QED
  BY <1>2, Invariance, PTL DEF Spec, NonceOncePerTtl
=============================================================================
