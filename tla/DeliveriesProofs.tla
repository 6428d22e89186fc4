-------------------------- MODULE DeliveriesProofs --------------------------
(***************************************************************************)
(* Proofs about Deliveries for any jobs, runners, delays and numbers of    *)
(* attempts, with a lossy network and cancelled runners: the queue keeps   *)
(* the promise of JobSpec, and a webhook job that is done was received.    *)
(***************************************************************************)
EXTENDS Deliveries, SequenceTheorems, TLAPS

(* The jobs of a queue, whatever the times they wait.                      *)
Queued(W) == [id : Jobs, attempts : 0..(MaxAttempts - 1), wait : W]
Executing == [id : Jobs, attempts : 1..MaxAttempts, wait : {0}]

Ids(queue) == {queue[i].id : i \in DOMAIN queue}
NoIdTwice(queue) == \A i, k \in DOMAIN queue : queue[i].id = queue[k].id => i = k
Over == {j \in Jobs : ended[j] # "no"}
Busy == {w \in Runners : running[w] # NoJob}

QueueShape ==
  /\ \E W : pending \in Seq(Queued(W))
  /\ running \in [Runners -> Executing \cup {NoJob}]
  /\ tried \in [Jobs -> 0..MaxAttempts]
  /\ ended \in [Jobs -> {"no", "done", "lost"}]

(* A job is in one place.                                                  *)
OnePlace ==
  /\ NoIdTwice(pending)
  /\ \A v, w \in Busy : running[v].id = running[w].id => v = w
  /\ Waiting \cap Awaited = {}
  /\ (Waiting \cup Awaited) \cap (Buried \cup Over) = {} /\ Buried \cap Over = {}

(* Wherever it is, it knows how often it ran.                              *)
Counted ==
  /\ \A i \in DOMAIN pending : pending[i].attempts = tried[pending[i].id]
  /\ \A w \in Busy : running[w].attempts = tried[running[w].id]
  /\ \A j \in Jobs \ Known : tried[j] = 0

QueueInv == QueueShape /\ OnePlace /\ Counted

------------------------------------------------------------------------------
(* Sequences of jobs.                                                      *)

LEMMA RemainingIds ==
  ASSUME NEW S, NEW queue \in Seq(S), queue # <<>>, NoIdTwice(queue)
  PROVE  /\ Head(queue) \in S /\ Tail(queue) \in Seq(S)
         /\ Head(queue).id \in Ids(queue) /\ Head(queue) = queue[1] /\ 1 \in DOMAIN queue
         /\ Ids(Tail(queue)) = Ids(queue) \ {Head(queue).id}
         /\ NoIdTwice(Tail(queue))
         /\ \A i \in DOMAIN Tail(queue) : \E k \in DOMAIN queue : Tail(queue)[i] = queue[k]
<1> DEFINE rest == Tail(queue)
<1>1. /\ Head(queue) \in S /\ Head(queue) = queue[1]
      /\ rest \in Seq(S) /\ Len(rest) = Len(queue) - 1
      /\ \A i \in 1..Len(rest) : rest[i] = queue[i + 1]
  BY HeadTailProperties
<1>2. /\ DOMAIN queue = 1..Len(queue) /\ DOMAIN rest = 1..Len(rest)
      /\ Len(queue) \in Nat \ {0} /\ Len(rest) \in Nat
  BY <1>1, LenProperties, EmptySeq
<1> HIDE DEF rest
<1>3. 1 \in DOMAIN queue /\ \A i \in DOMAIN rest : i + 1 \in DOMAIN queue /\ i + 1 # 1
  BY <1>1, <1>2
<1>4. \A k \in DOMAIN queue : k = 1 \/ (k - 1 \in DOMAIN rest /\ rest[k - 1] = queue[k])
  BY <1>1, <1>2
<1>5. Head(queue).id \in Ids(queue)
  BY <1>1, <1>3 DEF Ids
<1>6. Ids(rest) \subseteq Ids(queue) \ {Head(queue).id}
  BY <1>1, <1>2, <1>3 DEF Ids, NoIdTwice
<1>7. Ids(queue) \ {Head(queue).id} \subseteq Ids(rest)
  BY <1>1, <1>4 DEF Ids
<1>8. NoIdTwice(rest)
  BY <1>1, <1>2, <1>3 DEF NoIdTwice
<1>9. \A i \in DOMAIN rest : \E k \in DOMAIN queue : rest[i] = queue[k]
  BY <1>1, <1>2, <1>3
<1> QED
  BY <1>1, <1>3, <1>5, <1>6, <1>7, <1>8, <1>9 DEF rest

------------------------------------------------------------------------------
(* The actions of the queue: what they do to the places a job can be in,   *)
(* and that they preserve the invariant.                                   *)

LEMMA InitQueue == QueueInit => QueueInv
<1> SUFFICES ASSUME QueueInit PROVE QueueInv
  OBVIOUS
<1> USE RetryPolicyAssumption DEF RetryPolicyAssumption, QueueInit
<1>1. pending \in Seq(Queued({}))
  BY EmptySeq
<1>2. DOMAIN pending = {} /\ Busy = {}
  BY DEF Busy
<1>3. Waiting = {} /\ Awaited = {}
  BY <1>2 DEF Waiting, Awaited, Busy
<1>4. QueueShape
  BY <1>1 DEF QueueShape
<1>5. OnePlace /\ Counted
  BY <1>2, <1>3 DEF Buried, OnePlace, Counted, NoIdTwice
<1> QED
  BY <1>4, <1>5 DEF QueueInv

(* A job that is not in the queue joins it at the tail.                     *)
LEMMA JobJoins ==
  ASSUME NEW S, pending \in Seq(S), NEW job, job.id \notin Waiting, NoIdTwice(pending),
         pending' = Append(pending, job)
  PROVE  /\ pending' \in Seq(S \cup {job})
         /\ Waiting' = Waiting \cup {job.id} /\ NoIdTwice(pending')
         /\ \A i \in DOMAIN pending' : pending'[i] = job \/ \E k \in DOMAIN pending : pending'[i] = pending[k]
<1>1. pending \in Seq(S \cup {job})
  BY SeqMonotonic
<1>2. /\ pending' \in Seq(S \cup {job}) /\ Len(pending') = Len(pending) + 1
      /\ \A i \in 1..Len(pending) : pending'[i] = pending[i]
      /\ pending'[Len(pending) + 1] = job
  BY <1>1, AppendProperties
<1>3. /\ DOMAIN pending = 1..Len(pending) /\ DOMAIN pending' = 1..(Len(pending) + 1)
      /\ Len(pending) \in Nat
  BY <1>1, <1>2, LenProperties
<1>4. \A i \in DOMAIN pending' : i \in DOMAIN pending \/ i = Len(pending) + 1
  BY <1>3
<1>5. Waiting' = Waiting \cup {job.id}
  BY <1>2, <1>3, <1>4 DEF Waiting
<1>6. NoIdTwice(pending')
  BY <1>2, <1>3, <1>4 DEF Waiting, NoIdTwice
<1>7. \A i \in DOMAIN pending' : pending'[i] = job \/ \E k \in DOMAIN pending : pending'[i] = pending[k]
  BY <1>2, <1>3, <1>4
<1> QED
  BY <1>2, <1>5, <1>6, <1>7

LEMMA Enqueued ==
  ASSUME QueueInv, NEW j \in Jobs, Enqueue(j)
  PROVE  QueueInv' /\ Waiting' = Waiting \cup {j} /\ Awaited' = Awaited /\ Buried' = Buried
<1> DEFINE fresh == [id |-> j, attempts |-> 0, wait |-> 0]
<1>1. /\ j \notin Known /\ pending' = Append(pending, fresh)
      /\ UNCHANGED <<running, dead, tried, ended>>
  BY DEF Enqueue
<1>2. fresh.id = j /\ fresh.attempts = 0 /\ fresh \in Queued({0})
  BY RetryPolicyAssumption DEF RetryPolicyAssumption, Queued
<1> HIDE DEF fresh
<1>3. PICK W : pending \in Seq(Queued(W))
  BY DEF QueueInv, QueueShape
<1>4. NoIdTwice(pending) /\ j \notin Waiting \cup Awaited \cup Buried \cup Over
  BY <1>1 DEF QueueInv, OnePlace, Known, Over
<1>5. /\ pending' \in Seq(Queued(W) \cup {fresh})
      /\ Waiting' = Waiting \cup {j} /\ NoIdTwice(pending')
      /\ \A i \in DOMAIN pending' : pending'[i] = fresh \/ \E k \in DOMAIN pending : pending'[i] = pending[k]
  BY <1>1, <1>2, <1>3, <1>4, JobJoins
<1>6. pending' \in Seq(Queued(W \cup {0}))
  <2>1. Queued(W) \cup {fresh} \subseteq Queued(W \cup {0})
    BY <1>2 DEF Queued
  <2> QED
    BY <1>5, <2>1, SeqMonotonic
<1>7. Awaited' = Awaited /\ Buried' = Buried /\ Busy' = Busy /\ Over' = Over
  BY <1>1 DEF Awaited, Buried, Busy, Over
<1>8. QueueShape'
  BY <1>1, <1>6 DEF QueueInv, QueueShape
<1>9. OnePlace'
  <2>1. \A v, w \in Busy' : running'[v].id = running'[w].id => v = w
    BY <1>1, <1>7 DEF QueueInv, OnePlace
  <2> QED
    BY <1>4, <1>5, <1>7, <2>1 DEF QueueInv, OnePlace
<1>10. Counted'
  <2>1. tried[j] = 0 /\ tried' = tried
    BY <1>1 DEF QueueInv, Counted
  <2>2. \A i \in DOMAIN pending' : pending'[i].attempts = tried'[pending'[i].id]
    BY <1>2, <1>5, <2>1 DEF QueueInv, Counted
  <2>3. Known' = Known \cup {j}
    BY <1>1, <1>5, <1>7 DEF Known
  <2> QED
    BY <1>1, <1>7, <2>1, <2>2, <2>3 DEF QueueInv, Counted
<1> QED
  BY <1>5, <1>7, <1>8, <1>9, <1>10 DEF QueueInv

LEMMA HeadLeaves ==
  ASSUME QueueInv, pending # <<>>, Head(pending).wait = 0, pending' = Tail(pending)
  PROVE  /\ \E W : pending' \in Seq(Queued(W))
         /\ Head(pending) \in [id : Jobs, attempts : 0..(MaxAttempts - 1), wait : {0}]
         /\ Head(pending).id \in Waiting /\ Head(pending).attempts = tried[Head(pending).id]
         /\ Waiting' = Waiting \ {Head(pending).id} /\ NoIdTwice(pending')
         /\ \A i \in DOMAIN pending' : \E k \in DOMAIN pending : pending'[i] = pending[k]
<1>1. PICK W : pending \in Seq(Queued(W))
  BY DEF QueueInv, QueueShape
<1>2. NoIdTwice(pending)
  BY DEF QueueInv, OnePlace
<1>3. /\ Head(pending) \in Queued(W) /\ pending' \in Seq(Queued(W))
      /\ Head(pending).id \in Ids(pending) /\ Head(pending) = pending[1] /\ 1 \in DOMAIN pending
      /\ Ids(pending') = Ids(pending) \ {Head(pending).id} /\ NoIdTwice(pending')
      /\ \A i \in DOMAIN pending' : \E k \in DOMAIN pending : pending'[i] = pending[k]
  BY <1>1, <1>2, RemainingIds
<1>4. Head(pending) \in [id : Jobs, attempts : 0..(MaxAttempts - 1), wait : {0}]
  BY <1>3 DEF Queued
<1>5. Waiting = Ids(pending) /\ Waiting' = Ids(pending')
  BY DEF Waiting, Ids
<1>6. Head(pending).attempts = tried[Head(pending).id]
  BY <1>3 DEF QueueInv, Counted
<1> QED
  BY <1>3, <1>4, <1>5, <1>6

LEMMA Ran ==
  ASSUME QueueInv, NEW w \in Runners, RunNext(w)
  PROVE  LET j == Head(pending).id
         IN /\ QueueInv' /\ j \in Jobs \cap Handled /\ j \in Waiting /\ tried[j] < MaxAttempts
            /\ Waiting' = Waiting \ {j} /\ Awaited' = Awaited \cup {j} /\ Buried' = Buried
<1> USE RetryPolicyAssumption DEF RetryPolicyAssumption
<1> DEFINE job == Head(pending)
           j == job.id
           started == [job EXCEPT !.attempts = @ + 1]
<1>1. /\ running[w] = NoJob /\ job.wait = 0 /\ pending # <<>> /\ j \in Handled
      /\ pending' = Tail(pending) /\ running' = [running EXCEPT ![w] = started]
      /\ tried' = [tried EXCEPT ![j] = @ + 1] /\ UNCHANGED <<dead, ended>>
  BY DEF RunNext, Available
<1>2. /\ \E W : pending' \in Seq(Queued(W))
      /\ job \in [id : Jobs, attempts : 0..(MaxAttempts - 1), wait : {0}]
      /\ j \in Waiting /\ job.attempts = tried[j]
      /\ Waiting' = Waiting \ {j} /\ NoIdTwice(pending')
      /\ \A i \in DOMAIN pending' : \E k \in DOMAIN pending : pending'[i] = pending[k]
  BY <1>1, HeadLeaves
<1> HIDE DEF job
<1>3. started \in Executing /\ started.id = j /\ started.attempts = tried[j] + 1
  BY <1>2 DEF Executing
<1>4. started # NoJob
  BY <1>3, NoJobAssumption DEF NoJobAssumption, Job, Executing
<1>5. j \in Jobs /\ tried \in [Jobs -> 0..MaxAttempts] /\ tried[j] < MaxAttempts
      /\ running \in [Runners -> Executing \cup {NoJob}]
  BY <1>2 DEF QueueInv, QueueShape
<1> HIDE DEF started
<1>6. Busy' = Busy \cup {w} /\ w \notin Busy /\ running'[w] = started
      /\ \A v \in Busy : running'[v] = running[v]
  BY <1>1, <1>4, <1>5 DEF Busy
<1>7. Awaited' = Awaited \cup {j}
  BY <1>3, <1>6 DEF Awaited, Busy
<1>8. Buried' = Buried /\ Over' = Over
  BY <1>1 DEF Buried, Over
<1>9. QueueShape'
  BY <1>1, <1>2, <1>3, <1>5 DEF QueueInv, QueueShape
<1>10. OnePlace'
  <2>1. \A v \in Busy : running[v].id # j
    BY <1>2 DEF QueueInv, OnePlace, Awaited, Busy
  <2>2. \A u, v \in Busy' : running'[u].id = running'[v].id => u = v
    BY <1>3, <1>6, <2>1 DEF QueueInv, OnePlace
  <2> QED
    BY <1>2, <1>7, <1>8, <2>2 DEF QueueInv, OnePlace
<1>11. Counted'
  <2>1. \A k \in Jobs : k # j => tried'[k] = tried[k]
    BY <1>1, <1>5
  <2>2. tried'[j] = tried[j] + 1
    BY <1>1, <1>5
  <2>3. \A i \in DOMAIN pending' : pending'[i].id \in Waiting'
    BY DEF Waiting
  <2>4. \A i \in DOMAIN pending : pending[i].id \in Jobs
    <3>1. PICK W : pending \in Seq(Queued(W))
      BY DEF QueueInv, QueueShape
    <3> QED
      <4>1. \A i \in DOMAIN pending : pending[i] \in Queued(W)
        BY <3>1
      <4> QED
        BY <4>1 DEF Queued
  <2>5. \A i \in DOMAIN pending' : pending'[i].attempts = tried'[pending'[i].id]
    BY <1>2, <2>1, <2>3, <2>4 DEF QueueInv, Counted
  <2>6. \A v \in Busy : running[v].id \in Jobs /\ running[v].id # j
    BY <1>2, <1>5 DEF QueueInv, OnePlace, Awaited, Busy, Executing
  <2>7. \A v \in Busy' : running'[v].attempts = tried'[running'[v].id]
    BY <1>3, <1>6, <2>1, <2>2, <2>6 DEF QueueInv, Counted
  <2>8. Known' = Known /\ j \in Known
    BY <1>1, <1>2, <1>7, <1>8 DEF Known
  <2> QED
    BY <2>1, <2>5, <2>7, <2>8 DEF QueueInv, Counted
<1> QED
  BY <1>1, <1>2, <1>5, <1>7, <1>8, <1>9, <1>10, <1>11 DEF QueueInv, job

LEMMA Rejected ==
  ASSUME QueueInv, NEW w \in Runners, NoHandler(w)
  PROVE  LET j == Head(pending).id
         IN /\ QueueInv' /\ j \in Jobs \ Handled /\ j \in Waiting
            /\ Waiting' = Waiting \ {j} /\ Awaited' = Awaited /\ Buried' = Buried \cup {j}
<1> DEFINE job == Head(pending)
           j == job.id
<1>1. /\ job.wait = 0 /\ pending # <<>> /\ j \notin Handled
      /\ pending' = Tail(pending) /\ dead' = dead \cup {job} /\ UNCHANGED <<running, tried, ended>>
  BY DEF NoHandler, Available
<1>2. /\ \E W : pending' \in Seq(Queued(W))
      /\ j \in Jobs /\ j \in Waiting
      /\ Waiting' = Waiting \ {j} /\ NoIdTwice(pending')
      /\ \A i \in DOMAIN pending' : \E k \in DOMAIN pending : pending'[i] = pending[k]
  BY <1>1, HeadLeaves
<1> HIDE DEF job
<1>3. Buried' = Buried \cup {j}
  BY <1>1 DEF Buried
<1>4. Awaited' = Awaited /\ Busy' = Busy /\ Over' = Over
  BY <1>1 DEF Awaited, Busy, Over
<1>5. QueueShape'
  BY <1>1, <1>2 DEF QueueInv, QueueShape
<1>6. OnePlace'
  BY <1>1, <1>2, <1>3, <1>4 DEF QueueInv, OnePlace
<1>7. Known' = Known
  BY <1>1, <1>2, <1>3, <1>4 DEF Known
<1>8. Counted'
  BY <1>1, <1>2, <1>4, <1>7 DEF QueueInv, Counted
<1> QED
  BY <1>1, <1>2, <1>3, <1>4, <1>5, <1>6, <1>8 DEF QueueInv, job

LEMMA HandlerLeaves ==
  ASSUME QueueInv, NEW w \in Runners, Awaits(w), NEW how \in {"no", "done", "lost"}, Leaves(w, how)
  PROVE  LET j == running[w].id
         IN /\ j \in Jobs /\ j \in Awaited /\ running[w].attempts = tried[j] /\ tried[j] \in 1..MaxAttempts
            /\ running[w] \in Executing
            /\ running' \in [Runners -> Executing \cup {NoJob}] /\ ended' \in [Jobs -> {"no", "done", "lost"}]
            /\ Awaited' = Awaited \ {j} /\ Busy' = Busy \ {w} /\ \A v \in Busy' : running'[v] = running[v]
            /\ Over' = IF how = "no" THEN Over ELSE Over \cup {j}
            /\ ended' = [ended EXCEPT ![j] = how]
            /\ \A u, v \in Busy' : running'[u].id = running'[v].id => u = v
            /\ j \notin Waiting \cup Buried \cup Over
<1> DEFINE j == running[w].id
<1>1. /\ running' = [running EXCEPT ![w] = NoJob]
      /\ ended' = [ended EXCEPT ![j] = how] /\ w \in Busy
  BY DEF Leaves, Awaits, Busy
<1>2. /\ running \in [Runners -> Executing \cup {NoJob}] /\ running[w] \in Executing
      /\ ended \in [Jobs -> {"no", "done", "lost"}]
  BY <1>1 DEF QueueInv, QueueShape, Busy
<1>3. j \in Jobs /\ j \in Awaited /\ running[w].attempts = tried[j] /\ tried[j] \in 1..MaxAttempts
  BY <1>1, <1>2 DEF QueueInv, Counted, Awaited, Busy, Executing
<1>4. j \notin Waiting \cup Buried \cup Over
  BY <1>3 DEF QueueInv, OnePlace
<1>5. Busy' = Busy \ {w} /\ \A v \in Busy' : running'[v] = running[v]
  BY <1>1, <1>2 DEF Busy
<1>6. Awaited' = Awaited \ {j}
  <2>1. \A v \in Busy \ {w} : running[v].id # j
    BY <1>1 DEF QueueInv, OnePlace
  <2> QED
    BY <1>1, <1>5, <2>1 DEF Awaited, Busy
<1>7. Over' = IF how = "no" THEN Over ELSE Over \cup {j}
  <2>1. ended[j] = "no" /\ ended'[j] = how /\ \A k \in Jobs : k # j => ended'[k] = ended[k]
    BY <1>1, <1>2, <1>3, <1>4 DEF Over
  <2> QED
    BY <1>3, <2>1 DEF Over
<1>8. \A u, v \in Busy' : running'[u].id = running'[v].id => u = v
  BY <1>5 DEF QueueInv, OnePlace
<1>9. running' \in [Runners -> Executing \cup {NoJob}] /\ ended' \in [Jobs -> {"no", "done", "lost"}]
  BY <1>1, <1>2, <1>3
<1> QED
  BY <1>1, <1>2, <1>3, <1>4, <1>5, <1>6, <1>7, <1>8, <1>9

(* A handler that returns, and a task that is cancelled.                   *)
LEMMA LeftForGood ==
  ASSUME QueueInv, NEW w \in Runners, Awaits(w), NEW how \in {"done", "lost"}, Leaves(w, how),
         UNCHANGED <<pending, dead, tried>>
  PROVE  QueueInv' /\ Waiting' = Waiting /\ Buried' = Buried
<1> DEFINE j == running[w].id
<1>1. /\ j \in Jobs /\ j \in Awaited
      /\ running' \in [Runners -> Executing \cup {NoJob}] /\ ended' \in [Jobs -> {"no", "done", "lost"}]
      /\ Awaited' = Awaited \ {j} /\ Busy' = Busy \ {w} /\ \A v \in Busy' : running'[v] = running[v]
      /\ Over' = Over \cup {j}
      /\ \A u, v \in Busy' : running'[u].id = running'[v].id => u = v
      /\ j \notin Waiting \cup Buried \cup Over
  BY HandlerLeaves
<1> HIDE DEF j
<1>2. Waiting' = Waiting /\ Buried' = Buried
  BY DEF Waiting, Buried
<1>3. QueueShape'
  BY <1>1 DEF QueueInv, QueueShape
<1>4. OnePlace'
  BY <1>1, <1>2 DEF QueueInv, OnePlace
<1>5. Known' = Known
  BY <1>1, <1>2 DEF Known, Over
<1>6. Counted'
  BY <1>1, <1>5 DEF QueueInv, Counted
<1> QED
  BY <1>2, <1>3, <1>4, <1>6 DEF QueueInv

LEMMA Raised ==
  ASSUME QueueInv, NEW w \in Runners, Awaits(w), HandlerRaises(w)
  PROVE  LET j == running[w].id
         IN /\ QueueInv' /\ ended' = ended
            /\ IF tried[j] = MaxAttempts
               THEN Waiting' = Waiting /\ Buried' = Buried \cup {j}
               ELSE tried[j] < MaxAttempts /\ Waiting' = Waiting \cup {j} /\ Buried' = Buried
<1> USE RetryPolicyAssumption DEF RetryPolicyAssumption
<1> DEFINE job == running[w]
           j == job.id
           delay == Delay(BaseDelay, Multiplier, MaxDelay, job.attempts + 1)
           later == [job EXCEPT !.wait = delay]
<1>1. /\ Leaves(w, "no") /\ UNCHANGED tried
      /\ IF job.attempts >= MaxAttempts
         THEN dead' = dead \cup {job} /\ UNCHANGED pending
         ELSE pending' = Append(pending, later) /\ UNCHANGED dead
  BY DEF HandlerRaises
<1>2. /\ j \in Jobs /\ j \in Awaited /\ job.attempts = tried[j] /\ tried[j] \in 1..MaxAttempts
      /\ job \in Executing
      /\ running' \in [Runners -> Executing \cup {NoJob}] /\ ended' \in [Jobs -> {"no", "done", "lost"}]
      /\ Awaited' = Awaited \ {j} /\ Busy' = Busy \ {w} /\ \A v \in Busy' : running'[v] = running[v]
      /\ Over' = Over /\ ended' = [ended EXCEPT ![j] = "no"]
      /\ \A u, v \in Busy' : running'[u].id = running'[v].id => u = v
      /\ j \notin Waiting \cup Buried \cup Over
  BY <1>1, HandlerLeaves
<1>3. ended' = ended
  <2>1. ended[j] = "no" /\ ended \in [Jobs -> {"no", "done", "lost"}]
    BY <1>2 DEF Over, QueueInv, QueueShape
  <2> QED
    BY <1>2, <2>1
<1>4. later.id = j /\ later.attempts = tried[j] /\ later \in [id : Jobs, attempts : 1..MaxAttempts, wait : {delay}]
  BY <1>2 DEF Executing
<1> HIDE DEF job, delay, later
<1>5. CASE tried[j] = MaxAttempts
  <2>1. dead' = dead \cup {job} /\ pending' = pending
    BY <1>1, <1>2, <1>5
  <2>2. Waiting' = Waiting /\ Buried' = Buried \cup {j}
    BY <2>1 DEF Waiting, Buried
  <2>3. QueueShape'
    BY <1>1, <1>2, <2>1 DEF QueueInv, QueueShape
  <2>4. OnePlace'
    BY <1>2, <2>1, <2>2 DEF QueueInv, OnePlace
  <2>5. Known' = Known
    BY <1>2, <1>3, <2>2 DEF Known
  <2>6. Counted'
    BY <1>1, <1>2, <2>1, <2>5 DEF QueueInv, Counted
  <2> QED
    BY <1>3, <1>5, <2>2, <2>3, <2>4, <2>6 DEF QueueInv, job
<1>6. CASE tried[j] # MaxAttempts
  <2>1. pending' = Append(pending, later) /\ dead' = dead /\ tried[j] < MaxAttempts
    BY <1>1, <1>2, <1>6
  <2>2. PICK W : pending \in Seq(Queued(W))
    BY DEF QueueInv, QueueShape
  <2>3. NoIdTwice(pending) /\ j \notin Waiting
    BY <1>2 DEF QueueInv, OnePlace
  <2>4. /\ pending' \in Seq(Queued(W) \cup {later})
        /\ Waiting' = Waiting \cup {j} /\ NoIdTwice(pending')
        /\ \A i \in DOMAIN pending' : pending'[i] = later \/ \E k \in DOMAIN pending : pending'[i] = pending[k]
    BY <1>4, <2>1, <2>2, <2>3, JobJoins
  <2>5. pending' \in Seq(Queued(W \cup {delay}))
    <3>1. later \in Queued({delay})
      BY <1>4, <2>1 DEF Queued
    <3>2. Queued(W) \cup {later} \subseteq Queued(W \cup {delay})
      BY <3>1 DEF Queued
    <3> QED
      BY <2>4, <3>2, SeqMonotonic
  <2>6. Buried' = Buried
    BY <2>1 DEF Buried
  <2>7. QueueShape'
    BY <1>1, <1>2, <2>5 DEF QueueInv, QueueShape
  <2>8. OnePlace'
    BY <1>2, <2>4, <2>6 DEF QueueInv, OnePlace
  <2>9. Known' = Known
    BY <1>2, <1>3, <2>4, <2>6 DEF Known
  <2>10. \A i \in DOMAIN pending' : pending'[i].attempts = tried'[pending'[i].id]
    BY <1>1, <1>4, <2>4 DEF QueueInv, Counted
  <2>11. Counted'
    BY <1>1, <1>2, <2>9, <2>10 DEF QueueInv, Counted
  <2> QED
    BY <1>3, <1>6, <2>1, <2>4, <2>6, <2>7, <2>8, <2>11 DEF QueueInv, job
<1> QED
  BY <1>5, <1>6

LEMMA Ticked ==
  ASSUME QueueInv, QueueTick, UNCHANGED <<running, dead, tried, ended>>
  PROVE  QueueInv' /\ Waiting' = Waiting /\ Awaited' = Awaited /\ Buried' = Buried
<1> DEFINE Later(job) == [job EXCEPT !.wait = Max({0, @ - 1})]
<1>1. PICK W : pending \in Seq(Queued(W))
  BY DEF QueueInv, QueueShape
<1> DEFINE V == {Max({0, x - 1}) : x \in W}
<1>2. \A job \in Queued(W) : /\ Later(job) \in Queued(V)
                            /\ Later(job).id = job.id /\ Later(job).attempts = job.attempts
  BY DEF Queued
<1>3. pending' = [i \in DOMAIN pending |-> Later(pending[i])]
  BY DEF QueueTick
<1> HIDE DEF Later, V
<1>4. /\ DOMAIN pending = 1..Len(pending) /\ Len(pending) \in Nat
      /\ \A i \in DOMAIN pending : pending[i] \in Queued(W)
  BY <1>1, LenProperties, ElementOfSeq
<1>5. /\ DOMAIN pending' = DOMAIN pending
      /\ \A i \in DOMAIN pending : /\ pending'[i] \in Queued(V)
                                   /\ pending'[i].id = pending[i].id
                                   /\ pending'[i].attempts = pending[i].attempts
  BY <1>2, <1>3, <1>4
<1>6. pending' \in Seq(Queued(V))
  <2>1. \A i \in 1..Len(pending) : Later(pending[i]) \in Queued(V)
    BY <1>3, <1>4, <1>5
  <2>2. [i \in 1..Len(pending) |-> Later(pending[i])] \in Seq(Queued(V))
    BY <1>4, <2>1, IsASeq
  <2> QED
    BY <1>3, <1>4, <2>2
<1>7. Waiting' = Waiting
  BY <1>5 DEF Waiting
<1>8. Awaited' = Awaited /\ Buried' = Buried /\ Busy' = Busy /\ Over' = Over /\ Known' = Known
  BY <1>7 DEF Awaited, Buried, Busy, Over, Known
<1>9. QueueShape'
  BY <1>6 DEF QueueInv, QueueShape
<1>10. OnePlace'
  <2>1. NoIdTwice(pending')
    BY <1>5 DEF QueueInv, OnePlace, NoIdTwice
  <2> QED
    BY <1>7, <1>8, <2>1 DEF QueueInv, OnePlace
<1>11. Counted'
  BY <1>5, <1>8 DEF QueueInv, Counted
<1> QED
  BY <1>7, <1>8, <1>9, <1>10, <1>11 DEF QueueInv

LEMMA QueueRests ==
  ASSUME QueueInv, UNCHANGED <<pending, running, dead, tried, ended>>
  PROVE  QueueInv' /\ Waiting' = Waiting /\ Awaited' = Awaited /\ Buried' = Buried
<1>1. Waiting' = Waiting /\ Awaited' = Awaited /\ Buried' = Buried /\ Busy' = Busy /\ Over' = Over
  BY DEF Waiting, Awaited, Buried, Busy, Over
<1>2. Known' = Known
  BY <1>1 DEF Known
<1>3. QueueShape'
  BY DEF QueueInv, QueueShape
<1>4. OnePlace'
  BY <1>1 DEF QueueInv, OnePlace, NoIdTwice
<1>5. Counted'
  BY <1>1, <1>2 DEF QueueInv, Counted
<1> QED
  BY <1>1, <1>3, <1>4, <1>5 DEF QueueInv

------------------------------------------------------------------------------
(* Webhooks, and the two together.                                         *)

PostStates == {"idle", "sending", "accepted", "refused", "raised"} \cup Settled
Post == [at : PostStates, attempt : Int, run : Nat]

(* A dispatch that was answered with success was received in its run.      *)
HookInv ==
  /\ post \in [Events -> Post]
  /\ \E G : flying \subseteq [event : Events, run : Nat, attempt : Int, age : G]
  /\ \A e \in Events : post[e].at \in {"accepted", "succeeded"} =>
                         [event |-> e, run |-> post[e].run] \in received

(* A dispatch belongs to the run of the job that awaits it.                *)
PostOfRun ==
  \A e \in Events : post[e].at # "idle" => e \in Awaited /\ post[e].run = tried[e]

DeliveriesInv == QueueInv /\ HookInv /\ PostOfRun /\ DoneWasReceived

LEMMA InitInv == Init => DeliveriesInv
<1> SUFFICES ASSUME Init PROVE DeliveriesInv
  OBVIOUS
<1>1. QueueInv
  BY InitQueue DEF Init
<1>2. flying \subseteq [event : Events, run : Nat, attempt : Int, age : {}]
  BY DEF Init, HookInit
<1>3. HookInv /\ PostOfRun
  BY <1>2 DEF Init, HookInit, NoPost, HookInv, PostOfRun, Post, PostStates
<1>4. DoneWasReceived
  BY DeliveriesAssumption DEF DeliveriesAssumption, Init, QueueInit, DoneWasReceived
<1> QED
  BY <1>1, <1>3, <1>4 DEF DeliveriesInv

(* What the steps of a dispatch do to post, apart from its own event's     *)
(* state, attempt and run.                                                 *)
LEMMA Sent ==
  ASSUME HookInv, NEW e \in Events, NEW run \in Nat, NEW attempt \in Int, Sends(e, run, attempt),
         UNCHANGED received
  PROVE  /\ HookInv'
         /\ post'[e].at = "sending" /\ post'[e].run = run
         /\ \A d \in Events : d # e => post'[d] = post[d]
<1> DEFINE sent == [at |-> "sending", attempt |-> attempt, run |-> run]
<1>1. post' = [post EXCEPT ![e] = sent] /\ flying' = flying \cup {Signed(e, run, attempt)}
  BY DEF Sends
<1>2. sent \in Post
  BY DEF Post, PostStates
<1>3. post \in [Events -> Post]
  BY DEF HookInv
<1>4. post' \in [Events -> Post] /\ post'[e] = sent /\ \A d \in Events : d # e => post'[d] = post[d]
  BY <1>1, <1>2, <1>3
<1>5. PICK G : flying \subseteq [event : Events, run : Nat, attempt : Int, age : G]
  BY DEF HookInv
<1>6. flying' \subseteq [event : Events, run : Nat, attempt : Int, age : G \cup {0}]
  BY <1>1, <1>5 DEF Signed
<1>7. \A d \in Events : post'[d].at \in {"accepted", "succeeded"} =>
                         [event |-> d, run |-> post'[d].run] \in received'
  <2>1. \A d \in Events : post[d].at \in {"accepted", "succeeded"} =>
                         [event |-> d, run |-> post[d].run] \in received
    BY DEF HookInv
  <2> QED
    BY <1>4, <2>1
<1>8. HookInv'
  BY <1>4, <1>6, <1>7 DEF HookInv
<1>9. post'[e].at = "sending" /\ post'[e].run = run
  BY <1>4
<1> QED
  BY <1>4, <1>8, <1>9

(* A response or an exception reaches the sender, or nobody.               *)
LEMMA StateChanged ==
  ASSUME HookInv, NEW e \in Events, NEW at \in PostStates \ {"idle"}, post[e].at # "idle",
         post' = [post EXCEPT ![e].at = at], received \subseteq received', flying' \subseteq flying,
         at \in {"accepted", "succeeded"} => [event |-> e, run |-> post[e].run] \in received'
  PROVE  /\ HookInv'
         /\ \A d \in Events : post'[d].run = post[d].run /\ (post'[d].at = "idle" <=> post[d].at = "idle")
<1>1. post \in [Events -> Post]
  BY DEF HookInv
<1>2. /\ post' \in [Events -> Post] /\ post'[e].at = at /\ post'[e].run = post[e].run
      /\ \A d \in Events : d # e => post'[d] = post[d]
  BY <1>1 DEF Post
<1>3. \A d \in Events : post'[d].at \in {"accepted", "succeeded"} =>
                         [event |-> d, run |-> post'[d].run] \in received'
  BY <1>2 DEF HookInv
<1> QED
  BY <1>2, <1>3 DEF HookInv

LEMMA DispatchEnds ==
  ASSUME HookInv, NEW e \in Events, DispatchGone(e)
  PROVE  /\ HookInv' /\ post'[e].at = "idle" /\ received' = received
         /\ \A d \in Events : d # e => post'[d] = post[d]
<1>1. post' = [post EXCEPT ![e] = NoPost] /\ UNCHANGED <<flying, letters, received>>
  BY DEF DispatchGone
<1>2. post \in [Events -> Post] /\ NoPost \in Post /\ NoPost.at = "idle"
  BY DEF HookInv, NoPost, Post, PostStates
<1>3. /\ post' \in [Events -> Post] /\ post'[e].at = "idle"
      /\ \A d \in Events : d # e => post'[d] = post[d]
  BY <1>1, <1>2
<1> QED
  BY <1>1, <1>3 DEF HookInv

(* Steps of the network and of dispatches, which leave the jobs alone.     *)
LEMMA HookStep ==
  ASSUME HookInv,
         \/ \E e \in Events : Answered(e) \/ TransportRaises(e)
         \/ \E m \in flying : Receives(m) \/ Vanishes(m)
  PROVE  /\ HookInv' /\ received \subseteq received'
         /\ \A d \in Events : post'[d].run = post[d].run /\ (post'[d].at = "idle" <=> post[d].at = "idle")
<1> USE DEF PostStates, Settled
<1>1. post \in [Events -> Post]
  BY DEF HookInv
<1>2. ASSUME NEW e \in Events, TransportRaises(e)
      PROVE  HookInv' /\ received \subseteq received' /\ \A d \in Events :
               post'[d].run = post[d].run /\ (post'[d].at = "idle" <=> post[d].at = "idle")
  <2>1. post[e].at # "idle" /\ post' = [post EXCEPT ![e].at = "raised"] /\ UNCHANGED <<flying, received>>
    BY <1>2 DEF TransportRaises
  <2> QED
    BY <2>1, StateChanged
<1>3. ASSUME NEW e \in Events, Answered(e)
      PROVE  HookInv' /\ received \subseteq received' /\ \A d \in Events :
               post'[d].run = post[d].run /\ (post'[d].at = "idle" <=> post[d].at = "idle")
  <2>1. CASE post[e].at = "accepted" /\ Ends(e, "succeeded") /\ UNCHANGED <<flying, letters, received>>
    <3>1. post' = [post EXCEPT ![e].at = "succeeded"] /\ [event |-> e, run |-> post[e].run] \in received
      BY <2>1 DEF Ends, HookInv
    <3> QED
      BY <2>1, <3>1, StateChanged
  <2>2. CASE /\ post[e].at = "raised"
             /\ Sends(e, post[e].run, post[e].attempt + 1)
             /\ UNCHANGED <<letters, received>>
    <3>1. post[e].run \in Nat /\ post[e].attempt + 1 \in Int
      BY <1>1 DEF Post
    <3>2. /\ HookInv' /\ post'[e].at = "sending" /\ post'[e].run = post[e].run
          /\ \A d \in Events : d # e => post'[d] = post[d]
      BY <2>2, <3>1, Sent
    <3> QED
      BY <2>2, <3>2
  <2>3. CASE /\ post[e].at \in {"refused", "raised"} /\ Ends(e, "dead_lettered")
             /\ UNCHANGED <<flying, received>>
    <3>1. post' = [post EXCEPT ![e].at = "dead_lettered"]
      BY <2>3 DEF Ends
    <3> QED
      BY <2>3, <3>1, StateChanged
  <2> QED
    BY <1>3, <2>1, <2>2, <2>3 DEF Answered
<1>4. PICK G : flying \subseteq [event : Events, run : Nat, attempt : Int, age : G]
  BY DEF HookInv
<1>5. ASSUME NEW m \in flying, NEW response \in {"accepted", "refused", "raised"}, Responds(m, response),
             received \subseteq received', flying' \subseteq flying,
             response = "accepted" => [event |-> m.event, run |-> m.run] \in received'
      PROVE  HookInv' /\ \A d \in Events :
               post'[d].run = post[d].run /\ (post'[d].at = "idle" <=> post[d].at = "idle")
  <2>1. m.event \in Events
    BY <1>4
  <2>2. CASE post[m.event] = [at |-> "sending", attempt |-> m.attempt, run |-> m.run]
    <3>1. post' = [post EXCEPT ![m.event].at = response] /\ post[m.event].at # "idle"
          /\ post[m.event].run = m.run
      BY <1>5, <2>2 DEF Responds
    <3> QED
      BY <1>5, <2>1, <3>1, StateChanged
  <2>3. CASE post[m.event] # [at |-> "sending", attempt |-> m.attempt, run |-> m.run]
    <3>1. post' = post
      BY <1>5, <2>3 DEF Responds
    <3> QED
      BY <1>5, <3>1 DEF HookInv
  <2> QED
    BY <2>2, <2>3
<1>6. ASSUME NEW m \in flying, Receives(m)
      PROVE  HookInv' /\ received \subseteq received' /\ \A d \in Events :
               post'[d].run = post[d].run /\ (post'[d].at = "idle" <=> post[d].at = "idle")
  <2>1. flying' \subseteq flying
    BY <1>6 DEF Receives
  <2>2. \/ Responds(m, "refused") /\ received' = received
        \/ Responds(m, "accepted") /\ received' = received \cup {[event |-> m.event, run |-> m.run]}
        \/ Responds(m, "raised") /\ received' = received
    BY <1>6 DEF Receives
  <2> QED
    BY <1>5, <2>1, <2>2
<1>7. ASSUME NEW m \in flying, Vanishes(m)
      PROVE  HookInv' /\ received \subseteq received' /\ \A d \in Events :
               post'[d].run = post[d].run /\ (post'[d].at = "idle" <=> post[d].at = "idle")
  BY <1>7 DEF Vanishes, HookInv
<1> QED
  BY <1>2, <1>3, <1>6, <1>7

LEMMA HookTicked ==
  ASSUME HookInv, HookTick, UNCHANGED <<post, received>>
  PROVE  HookInv'
<1>1. PICK G : flying \subseteq [event : Events, run : Nat, attempt : Int, age : G]
  BY DEF HookInv
<1> DEFINE Older == {Min({Skew + 1, x + 1}) : x \in G}
<1>2. flying' \subseteq [event : Events, run : Nat, attempt : Int, age : Older]
  BY <1>1 DEF HookTick
<1> QED
  BY <1>2 DEF HookInv

(* A step that neither starts nor ends the run of an event's job keeps     *)
(* what a dispatch knows of it.                                            *)
LEMMA StillOfRun ==
  ASSUME PostOfRun, HookInv,
         \A d \in Events : post'[d].at # "idle" =>
           /\ post[d].at # "idle" /\ post'[d].run = post[d].run
           /\ (d \in Awaited => d \in Awaited') /\ tried'[d] = tried[d]
  PROVE  PostOfRun'
BY DEF PostOfRun

(* Every step preserves each part of the invariant.                        *)
LEMMA StepInv == DeliveriesInv /\ [Next]_vars => DeliveriesInv'
<1> SUFFICES ASSUME DeliveriesInv, [Next]_vars PROVE DeliveriesInv'
  OBVIOUS
<1> USE DeliveriesAssumption DEF DeliveriesAssumption
<1>1. /\ QueueInv /\ HookInv /\ PostOfRun /\ DoneWasReceived
      /\ tried \in [Jobs -> 0..MaxAttempts] /\ ended \in [Jobs -> {"no", "done", "lost"}]
      /\ Waiting \cap Awaited = {} /\ (Waiting \cup Awaited) \cap Over = {}
  BY DEF DeliveriesInv, QueueInv, QueueShape, OnePlace
<1>2. ASSUME NEW j \in Jobs, Submitted(j) PROVE DeliveriesInv'
  <2>1. Enqueue(j) /\ UNCHANGED <<post, flying, received, tried, ended>>
    BY <1>2 DEF Submitted, Enqueue, hookVars
  <2>2. QueueInv' /\ Awaited' = Awaited
    BY <1>1, <2>1, Enqueued
  <2>3. HookInv' /\ DoneWasReceived'
    BY <1>1, <2>1 DEF HookInv, DoneWasReceived
  <2>4. PostOfRun'
    BY <1>1, <2>1, <2>2, StillOfRun
  <2> QED
    BY <2>2, <2>3, <2>4 DEF DeliveriesInv
<1>3. ASSUME NEW w \in Runners, RunNext(w), UNCHANGED hookVars PROVE DeliveriesInv'
  <2> DEFINE j == Head(pending).id
  <2>1. /\ UNCHANGED <<post, flying, received, ended>> /\ tried' = [tried EXCEPT ![j] = @ + 1]
    BY <1>3 DEF RunNext, hookVars
  <2>2. QueueInv' /\ j \in Jobs /\ j \in Waiting /\ Awaited' = Awaited \cup {j}
    BY <1>1, <1>3, Ran
  <2> HIDE DEF j
  <2>3. \A d \in Events : d # j => tried'[d] = tried[d]
    BY <1>1, <2>1
  <2>4. HookInv'
    BY <1>1, <2>1 DEF HookInv
  <2>5. DoneWasReceived'
    <3>1. \A d \in Events : ended[d] = "done" => d # j
      BY <1>1, <2>2 DEF Over
    <3> QED
      BY <1>1, <2>1, <2>3, <3>1 DEF DoneWasReceived
  <2>6. PostOfRun'
    <3>1. \A d \in Events : post[d].at # "idle" => d # j
      BY <1>1, <2>2 DEF PostOfRun
    <3> QED
      BY <1>1, <2>1, <2>2, <2>3, <3>1, StillOfRun
  <2> QED
    BY <2>2, <2>4, <2>5, <2>6 DEF DeliveriesInv
<1>4. ASSUME NEW w \in Runners, NoHandler(w), UNCHANGED hookVars PROVE DeliveriesInv'
  <2>1. UNCHANGED <<post, flying, received, tried, ended>>
    BY <1>4 DEF NoHandler, hookVars
  <2>2. QueueInv' /\ Awaited' = Awaited
    BY <1>1, <1>4, Rejected
  <2>3. HookInv' /\ DoneWasReceived'
    BY <1>1, <2>1 DEF HookInv, DoneWasReceived
  <2>4. PostOfRun'
    BY <1>1, <2>1, <2>2, StillOfRun
  <2> QED
    BY <2>2, <2>3, <2>4 DEF DeliveriesInv
<1>5. ASSUME NEW w \in Runners, HandlerDispatches(w) PROVE DeliveriesInv'
  <2> DEFINE e == running[w].id
             run == running[w].attempts
  <2>1. /\ w \in Busy /\ e \in Events /\ Sends(e, run, 1) /\ post[e].at = "idle"
        /\ UNCHANGED <<pending, running, dead, tried, ended, received>>
    BY <1>5 DEF HandlerDispatches, Awaits, JobOf, Dispatches, Busy, queueVars
  <2>2. e \in Awaited /\ run = tried[e] /\ run \in Nat
    BY <1>1, <2>1 DEF QueueInv, Counted, Awaited, Busy
  <2> HIDE DEF e, run
  <2>3. /\ HookInv' /\ post'[e].at = "sending" /\ post'[e].run = run
        /\ \A d \in Events : d # e => post'[d] = post[d]
    BY <1>1, <2>1, <2>2, Sent
  <2>4. QueueInv' /\ Awaited' = Awaited
    BY <1>1, <2>1, QueueRests
  <2>5. PostOfRun'
    BY <1>1, <2>1, <2>2, <2>3, <2>4 DEF PostOfRun
  <2>6. DoneWasReceived'
    BY <1>1, <2>1 DEF DoneWasReceived
  <2> QED
    BY <2>3, <2>4, <2>5, <2>6 DEF DeliveriesInv
<1>6. ASSUME NEW w \in Runners, Awaits(w), JobOf(w) \notin Events, UNCHANGED hookVars,
             QueueInv', UNCHANGED tried, Awaited' = Awaited \ {JobOf(w)},
             \A d \in Jobs : d # JobOf(w) => ended'[d] = ended[d]
      PROVE  DeliveriesInv'
  <2>1. UNCHANGED <<post, flying, received, tried>>
    BY <1>6 DEF hookVars
  <2>2. HookInv' /\ DoneWasReceived'
    BY <1>1, <1>6, <2>1 DEF HookInv, DoneWasReceived
  <2>3. PostOfRun'
    BY <1>1, <1>6, <2>1, StillOfRun
  <2> QED
    BY <1>6, <2>2, <2>3 DEF DeliveriesInv
<1>7. ASSUME NEW w \in Runners, Awaits(w), JobOf(w) \in Events, DispatchGone(JobOf(w)),
             QueueInv', UNCHANGED tried, Awaited' = Awaited \ {JobOf(w)},
             \A d \in Jobs : d # JobOf(w) => ended'[d] = ended[d],
             ended'[JobOf(w)] = "done" => post[JobOf(w)].at = "succeeded"
      PROVE  DeliveriesInv'
  <2> DEFINE e == JobOf(w)
  <2>1. /\ HookInv' /\ post'[e].at = "idle" /\ received' = received
        /\ \A d \in Events : d # e => post'[d] = post[d]
    BY <1>1, <1>7, DispatchEnds
  <2> HIDE DEF e
  <2>2. DoneWasReceived'
    <3>1. ended'[e] = "done" => [event |-> e, run |-> tried[e]] \in received
      BY <1>1, <1>7 DEF HookInv, PostOfRun, e
    <3> QED
      BY <1>1, <1>7, <2>1, <3>1 DEF DoneWasReceived, e
  <2>3. PostOfRun'
    <3>1. \A d \in Events : post'[d].at # "idle" => d # e /\ post'[d] = post[d]
      BY <2>1
    <3> QED
      BY <1>1, <1>7, <3>1, StillOfRun DEF e
  <2> QED
    BY <1>7, <2>1, <2>2, <2>3 DEF DeliveriesInv
<1>8. ASSUME NEW w \in Runners, Awaits(w), NEW how \in {"done", "lost"}, Leaves(w, how),
             UNCHANGED <<pending, dead, tried>>
      PROVE  /\ QueueInv' /\ UNCHANGED tried /\ Awaited' = Awaited \ {JobOf(w)}
             /\ \A d \in Jobs : d # JobOf(w) => ended'[d] = ended[d]
             /\ ended'[JobOf(w)] = how
  <2>1. QueueInv'
    BY <1>1, <1>8, LeftForGood
  <2>2. /\ running[w].id \in Jobs /\ Awaited' = Awaited \ {running[w].id}
        /\ ended' = [ended EXCEPT ![running[w].id] = how]
    BY <1>1, <1>8, HandlerLeaves
  <2> QED
    BY <1>1, <1>8, <2>1, <2>2 DEF JobOf
<1>9. ASSUME NEW w \in Runners, Awaits(w), HandlerRaises(w)
      PROVE  /\ QueueInv' /\ UNCHANGED tried /\ Awaited' = Awaited \ {JobOf(w)}
             /\ \A d \in Jobs : d # JobOf(w) => ended'[d] = ended[d]
             /\ ended'[JobOf(w)] # "done"
  <2>1. Leaves(w, "no") /\ UNCHANGED tried
    BY <1>9 DEF HandlerRaises
  <2>2. QueueInv' /\ ended' = ended
    BY <1>1, <1>9, Raised
  <2>3. /\ running[w].id \in Jobs /\ Awaited' = Awaited \ {running[w].id}
        /\ ended' = [ended EXCEPT ![running[w].id] = "no"]
    BY <1>1, <2>1, <1>9, HandlerLeaves
  <2> QED
    BY <1>1, <2>1, <2>2, <2>3 DEF JobOf
<1>10. ASSUME NEW w \in Runners, HandlerEnds(w) PROVE DeliveriesInv'
  <2>1. CASE JobOf(w) \notin Events /\ HandlerSucceeds(w) /\ UNCHANGED hookVars
    BY <1>6, <1>8, <1>10, <2>1 DEF HandlerEnds, HandlerSucceeds
  <2>2. CASE JobOf(w) \notin Events /\ HandlerRaises(w) /\ UNCHANGED hookVars
    BY <1>6, <1>9, <1>10, <2>2 DEF HandlerEnds
  <2>3. CASE /\ JobOf(w) \in Events /\ post[JobOf(w)].at = "succeeded" /\ HandlerSucceeds(w)
             /\ DispatchGone(JobOf(w))
    BY <1>7, <1>8, <1>10, <2>3 DEF HandlerEnds, HandlerSucceeds
  <2>4. CASE JobOf(w) \in Events /\ HandlerRaises(w) /\ DispatchGone(JobOf(w))
    BY <1>7, <1>9, <1>10, <2>4 DEF HandlerEnds
  <2> QED
    BY <1>10, <2>1, <2>2, <2>3, <2>4 DEF HandlerEnds
<1>11. ASSUME NEW w \in Runners, RunnerCancelled(w) PROVE DeliveriesInv'
  <2>1. Awaits(w) /\ Leaves(w, "lost") /\ UNCHANGED <<pending, dead, tried>>
    BY <1>11 DEF RunnerCancelled, Cancelled
  <2>2. CASE JobOf(w) \in Events
    BY <1>7, <1>8, <1>11, <2>1, <2>2 DEF RunnerCancelled
  <2>3. CASE JobOf(w) \notin Events
    BY <1>6, <1>8, <1>11, <2>1, <2>3 DEF RunnerCancelled
  <2> QED
    BY <2>2, <2>3
<1>12. ASSUME UNCHANGED queueVars, HookInv', received \subseteq received',
              \A d \in Events : post'[d].run = post[d].run /\ (post'[d].at = "idle" <=> post[d].at = "idle")
       PROVE  DeliveriesInv'
  <2>1. UNCHANGED <<pending, running, dead, tried, ended>>
    BY <1>12 DEF queueVars
  <2>2. QueueInv' /\ Awaited' = Awaited
    BY <1>1, <2>1, QueueRests
  <2>3. PostOfRun'
    BY <1>1, <1>12, <2>1, <2>2, StillOfRun
  <2>4. DoneWasReceived'
    BY <1>1, <1>12, <2>1 DEF DoneWasReceived
  <2> QED
    BY <1>12, <2>2, <2>3, <2>4 DEF DeliveriesInv
<1>13. CASE \E e \in Events : Posting(e) \/ SendEnds(e)
  BY <1>1, <1>12, <1>13, HookStep DEF Posting, SendEnds
<1>14. CASE Network
  BY <1>1, <1>12, <1>14, HookStep DEF Network
<1>15. CASE Tick
  <2>1. QueueTick /\ HookTick /\ UNCHANGED <<running, dead, tried, ended, post, received>>
    BY <1>15 DEF Tick
  <2>2. QueueInv' /\ Awaited' = Awaited
    BY <1>1, <2>1, Ticked
  <2>3. HookInv'
    BY <1>1, <2>1, HookTicked
  <2>4. PostOfRun'
    BY <1>1, <2>1, <2>2, StillOfRun
  <2>5. DoneWasReceived'
    BY <1>1, <2>1 DEF DoneWasReceived
  <2> QED
    BY <2>2, <2>3, <2>4, <2>5 DEF DeliveriesInv
<1>16. CASE UNCHANGED vars
  <2>1. UNCHANGED queueVars /\ UNCHANGED <<post, flying, received>>
    BY <1>16 DEF vars, hookVars
  <2>2. HookInv'
    BY <1>1, <2>1 DEF HookInv
  <2> QED
    BY <1>12, <2>1, <2>2
<1> QED
  BY <1>2, <1>3, <1>4, <1>5, <1>10, <1>11, <1>13, <1>14, <1>15, <1>16 DEF Next, RunnerStep

LEMMA SpecInv == Spec => []DeliveriesInv
<1> QED
  BY InitInv, StepInv, PTL DEF Spec

(* At least once, end to end, for any jobs, runners, numbers of attempts   *)
(* and delays, whatever the network does: a webhook job that is done was   *)
(* received in its last run.                                               *)
THEOREM DoneMeansReceived == Spec => []DoneWasReceived
<1>1. DeliveriesInv => DoneWasReceived
  BY DEF DeliveriesInv
<1> QED
  BY <1>1, SpecInv, PTL

------------------------------------------------------------------------------
(* Types.                                                                  *)

PostType == [at : PostStates, attempt : 0..HookAttempts, run : 0..MaxRuns]
Request == [event : Events, run : 1..MaxRuns, attempt : 1..HookAttempts, age : 0..Skew + 1]
Dispatch == [event : Events, run : 1..MaxRuns]

HookTypes ==
  /\ post \in [Events -> PostType] /\ flying \subseteq Request
  /\ letters \subseteq Dispatch /\ received \subseteq Dispatch

(* No job waits longer than the longest delay.                             *)
Fits(queue) == \A i \in DOMAIN queue : queue[i].wait \in 0..MaxDelay

TypeInv == Fits(pending) /\ dead \subseteq Job /\ HookTypes

LEMMA RunsCounted ==
  ASSUME DeliveriesInv
  PROVE  /\ MaxRuns = MaxAttempts /\ MaxAttempts \in Nat \ {0}
         /\ \A w \in Runners : Awaits(w) => running[w].attempts \in 1..MaxRuns
         /\ \A e \in Events : post[e].at # "idle" => post[e].run \in 1..MaxRuns
<1>1. MaxRuns = MaxAttempts /\ MaxAttempts \in Nat \ {0}
  BY DeliveriesAssumption, RetryPolicyAssumption
<1>2. \A w \in Runners : Awaits(w) => running[w].attempts \in 1..MaxRuns
  BY <1>1 DEF DeliveriesInv, QueueInv, QueueShape, Executing, Awaits
<1>3. ASSUME NEW e \in Events, post[e].at # "idle" PROVE post[e].run \in 1..MaxRuns
  <2>1. e \in Awaited /\ post[e].run = tried[e]
    BY <1>3 DEF DeliveriesInv, PostOfRun
  <2>2. PICK w \in Runners : w \in Busy /\ running[w].id = e
    BY <2>1 DEF Awaited, Busy
  <2>3. running[w].attempts = tried[e]
    BY <2>2 DEF DeliveriesInv, QueueInv, Counted
  <2> QED
    BY <1>2, <2>1, <2>2, <2>3 DEF Awaits, Busy
<1> QED
  BY <1>1, <1>2, <1>3

LEMMA SentTypes ==
  ASSUME HookTypes, NEW e \in Events, NEW run \in 1..MaxRuns, NEW attempt \in 1..HookAttempts,
         Sends(e, run, attempt), UNCHANGED <<letters, received>>,
         MaxRuns \in Nat
  PROVE  HookTypes'
<1> USE HookAssumption
<1> DEFINE sent == [at |-> "sending", attempt |-> attempt, run |-> run]
<1>1. post' = [post EXCEPT ![e] = sent] /\ flying' = flying \cup {Signed(e, run, attempt)}
  BY DEF Sends
<1>2. sent \in PostType
  BY DEF PostType, PostStates
<1>3. Signed(e, run, attempt) \in Request
  BY DEF Signed, Request
<1> HIDE DEF sent
<1>4. post' \in [Events -> PostType]
  BY <1>1, <1>2 DEF HookTypes
<1> QED
  BY <1>1, <1>3, <1>4 DEF HookTypes

(* A step that changes the state of a dispatch, or ends it.                *)
LEMMA ChangedTypes ==
  ASSUME HookTypes, NEW e \in Events, NEW at \in PostStates,
         post' = post \/ post' = [post EXCEPT ![e].at = at] \/ post' = [post EXCEPT ![e] = NoPost],
         flying' \subseteq flying, letters' \subseteq Dispatch, received' \subseteq Dispatch,
         MaxRuns \in Nat
  PROVE  HookTypes'
<1> USE HookAssumption
<1>1. post \in [Events -> PostType]
  BY DEF HookTypes
<1>2. NoPost \in PostType
  BY DEF NoPost, PostType, PostStates
<1>3. [post[e] EXCEPT !.at = at] \in PostType
  <2>1. post[e] \in PostType
    BY <1>1
  <2> QED
    BY <2>1 DEF PostType
<1>4. post' \in [Events -> PostType]
  <2>1. CASE post' = [post EXCEPT ![e].at = at]
    <3>1. post' = [post EXCEPT ![e] = [post[e] EXCEPT !.at = at]]
      BY <1>1, <2>1
    <3> QED
      BY <1>1, <1>3, <3>1
  <2> QED
    BY <1>1, <1>2, <2>1
<1> QED
  BY <1>4 DEF HookTypes

LEMMA HookStepTypes ==
  ASSUME DeliveriesInv, HookTypes,
         \/ \E e \in Events : Answered(e) \/ TransportRaises(e)
         \/ \E m \in flying : Receives(m) \/ Vanishes(m)
  PROVE  HookTypes'
<1> USE HookAssumption DEF PostStates, Settled
<1>1. /\ MaxRuns \in Nat /\ post \in [Events -> PostType] /\ flying \subseteq Request
      /\ letters \subseteq Dispatch /\ received \subseteq Dispatch
      /\ \A e \in Events : post[e].at # "idle" => post[e].run \in 1..MaxRuns
  BY RunsCounted DEF HookTypes
<1>2. ASSUME NEW e \in Events, TransportRaises(e) PROVE HookTypes'
  <2>1. post' = [post EXCEPT ![e].at = "raised"] /\ UNCHANGED <<flying, letters, received>>
    BY <1>2 DEF TransportRaises
  <2> QED
    BY <1>1, <2>1, ChangedTypes
<1>3. ASSUME NEW e \in Events, Answered(e) PROVE HookTypes'
  <2>1. CASE Ends(e, "succeeded") /\ UNCHANGED <<flying, letters, received>>
    BY <1>1, <2>1, ChangedTypes DEF Ends
  <2>2. CASE /\ post[e].at = "raised" /\ post[e].attempt < HookAttempts
             /\ Sends(e, post[e].run, post[e].attempt + 1)
             /\ UNCHANGED <<letters, received>>
    <3>1. post[e].run \in 1..MaxRuns
      BY <1>1, <2>2
    <3>2. post[e].attempt \in 0..HookAttempts
      BY <1>1 DEF PostType
    <3>3. post[e].attempt + 1 \in 1..HookAttempts
      BY <2>2, <3>2
    <3> QED
      BY <1>1, <2>2, <3>1, <3>3, SentTypes
  <2>3. CASE /\ post[e].at \in {"refused", "raised"} /\ Ends(e, "dead_lettered")
             /\ letters' = letters \cup {[event |-> e, run |-> post[e].run]}
             /\ UNCHANGED <<flying, received>>
    <3>1. post[e].run \in 1..MaxRuns
      BY <1>1, <2>3
    <3>2. letters' \subseteq Dispatch
      BY <1>1, <2>3, <3>1 DEF Dispatch
    <3> QED
      BY <1>1, <2>3, <3>2, ChangedTypes DEF Ends
  <2> QED
    BY <1>3, <2>1, <2>2, <2>3 DEF Answered
<1>4. ASSUME NEW m \in flying, NEW response \in {"accepted", "refused", "raised"},
             Responds(m, response), flying' \subseteq flying, letters' = letters,
             received' \subseteq Dispatch
      PROVE  HookTypes'
  <2>1. m.event \in Events
    BY <1>1 DEF Request
  <2>2. post' = post \/ post' = [post EXCEPT ![m.event].at = response]
    BY <1>4 DEF Responds
  <2> QED
    BY <1>1, <1>4, <2>1, <2>2, ChangedTypes
<1>5. ASSUME NEW m \in flying, Receives(m) PROVE HookTypes'
  <2>1. flying' \subseteq flying /\ letters' = letters
    BY <1>5 DEF Receives
  <2>2. [event |-> m.event, run |-> m.run] \in Dispatch
    BY <1>1 DEF Request, Dispatch
  <2>3. \/ Responds(m, "refused") /\ received' = received
        \/ Responds(m, "accepted") /\ received' = received \cup {[event |-> m.event, run |-> m.run]}
        \/ Responds(m, "raised") /\ received' = received
    BY <1>5 DEF Receives
  <2>4. received' \subseteq Dispatch
    BY <1>1, <2>2, <2>3
  <2> QED
    BY <1>4, <2>1, <2>3, <2>4
<1>6. ASSUME NEW m \in flying, Vanishes(m) PROVE HookTypes'
  BY <1>6 DEF Vanishes, HookTypes
<1> QED
  BY <1>2, <1>3, <1>5, <1>6

LEMMA HookTickTypes ==
  ASSUME HookTypes, HookTick, UNCHANGED <<post, letters, received>>
  PROVE  HookTypes'
<1> USE HookAssumption
<1>1. ASSUME NEW m \in Request PROVE [m EXCEPT !.age = Min({Skew + 1, @ + 1})] \in Request
  <2> DEFINE age == Min({Skew + 1, m.age + 1})
  <2>1. m.age \in 0..Skew + 1
    BY DEF Request
  <2>2. age \in 0..Skew + 1
    <3>1. Skew + 1 \in Int /\ m.age + 1 \in Int
      BY <2>1
    <3>2. age = Skew + 1 \/ (age = m.age + 1 /\ age <= Skew + 1)
      BY <3>1 DEF Min
    <3> QED
      BY <2>1, <3>2
  <2> HIDE DEF age
  <2>3. [m EXCEPT !.age = age] \in Request
    BY <2>2 DEF Request
  <2> QED
    BY <2>3 DEF age
<1>2. flying' = {[m EXCEPT !.age = Min({Skew + 1, @ + 1})] : m \in flying}
  BY DEF HookTick
<1>3. flying' \subseteq Request
  BY <1>1, <1>2 DEF HookTypes
<1> QED
  BY <1>3 DEF HookTypes

LEMMA StepTypes == DeliveriesInv /\ TypeInv /\ [Next]_vars => TypeInv'
<1> SUFFICES ASSUME DeliveriesInv, TypeInv, [Next]_vars PROVE TypeInv'
  OBVIOUS
<1> USE RetryPolicyAssumption DEF RetryPolicyAssumption
<1>1. QueueInv /\ HookTypes /\ Fits(pending) /\ dead \subseteq Job
  BY DEF DeliveriesInv, TypeInv
<1>2. PICK W : pending \in Seq(Queued(W))
  BY <1>1 DEF QueueInv, QueueShape
<1>3. NoIdTwice(pending) /\ 0 \in 0..MaxDelay
  BY <1>1 DEF QueueInv, OnePlace
<1>4. ASSUME NEW job, pending' = Append(pending, job), job.wait \in 0..MaxDelay PROVE Fits(pending')
  <2>1. /\ pending \in Seq(Queued(W) \cup {job})
        /\ DOMAIN pending = 1..Len(pending) /\ Len(pending) \in Nat
    BY <1>2, SeqMonotonic, LenProperties
  <2>2. /\ Len(pending') = Len(pending) + 1 /\ pending' \in Seq(Queued(W) \cup {job})
        /\ \A i \in 1..Len(pending) : pending'[i] = pending[i]
        /\ pending'[Len(pending) + 1] = job
    BY <1>4, <2>1, AppendProperties
  <2>3. DOMAIN pending' = 1..(Len(pending) + 1)
    BY <2>2, LenProperties
  <2>4. \A i \in DOMAIN pending' : i \in DOMAIN pending \/ i = Len(pending) + 1
    BY <2>1, <2>3
  <2> QED
    BY <1>1, <1>4, <2>1, <2>2, <2>4 DEF Fits
<1>5. ASSUME NEW w \in Runners, Available(w), pending' = Tail(pending)
      PROVE  Fits(pending') /\ Head(pending) \in Job
  <2>1. pending # <<>> /\ Head(pending).wait = 0
    BY <1>5 DEF Available
  <2>2. /\ Head(pending) \in [id : Jobs, attempts : 0..(MaxAttempts - 1), wait : {0}]
        /\ \A i \in DOMAIN pending' : \E k \in DOMAIN pending : pending'[i] = pending[k]
    BY <1>1, <1>5, <2>1, HeadLeaves
  <2>3. Head(pending) \in Job
    BY <1>3, <2>2 DEF Job
  <2> QED
    BY <1>1, <2>2, <2>3 DEF Fits
<1>6. ASSUME NEW j \in Jobs, Submitted(j) PROVE TypeInv'
  <2>1. /\ pending' = Append(pending, [id |-> j, attempts |-> 0, wait |-> 0])
        /\ UNCHANGED <<dead, post, flying, letters, received>>
    BY <1>6 DEF Submitted, Enqueue, hookVars
  <2>2. Fits(pending')
    BY <1>3, <1>4, <2>1
  <2> QED
    BY <1>1, <2>1, <2>2 DEF TypeInv, HookTypes, Fits
<1>7. ASSUME NEW w \in Runners, RunNext(w), UNCHANGED hookVars PROVE TypeInv'
  <2>1. Available(w) /\ pending' = Tail(pending) /\ UNCHANGED <<dead, post, flying, letters, received>>
    BY <1>7 DEF RunNext, hookVars
  <2>2. Fits(pending')
    BY <1>5, <2>1
  <2> QED
    BY <1>1, <2>1, <2>2 DEF TypeInv, HookTypes, Fits
<1>8. ASSUME NEW w \in Runners, NoHandler(w), UNCHANGED hookVars PROVE TypeInv'
  <2>1. /\ Available(w) /\ pending' = Tail(pending) /\ dead' = dead \cup {Head(pending)}
        /\ UNCHANGED <<post, flying, letters, received>>
    BY <1>8 DEF NoHandler, hookVars
  <2>2. Fits(pending') /\ dead' \subseteq Job
    BY <1>1, <1>5, <2>1
  <2> QED
    BY <1>1, <2>1, <2>2 DEF TypeInv, HookTypes, Fits
<1>9. ASSUME NEW w \in Runners, HandlerDispatches(w) PROVE TypeInv'
  <2>1. /\ Awaits(w) /\ JobOf(w) \in Events /\ Sends(JobOf(w), running[w].attempts, 1)
        /\ UNCHANGED <<letters, received, pending, dead>>
    BY <1>9 DEF HandlerDispatches, Dispatches, queueVars
  <2>2. running[w].attempts \in 1..MaxRuns /\ 1 \in 1..HookAttempts /\ MaxRuns \in Nat
    BY <2>1, RunsCounted, HookAssumption
  <2>3. HookTypes'
    BY <1>1, <2>1, <2>2, SentTypes
  <2> QED
    BY <1>1, <2>1, <2>3 DEF TypeInv, Fits
<1>10. ASSUME NEW w \in Runners, Awaits(w), HandlerRaises(w) PROVE Fits(pending') /\ dead' \subseteq Job
  <2> DEFINE job == running[w]
             delay == Delay(BaseDelay, Multiplier, MaxDelay, job.attempts + 1)
             later == [job EXCEPT !.wait = delay]
  <2>1. job \in Executing
    BY <1>1, <1>10 DEF QueueInv, QueueShape, Awaits
  <2>2. IF job.attempts >= MaxAttempts
        THEN dead' = dead \cup {job} /\ UNCHANGED pending
        ELSE pending' = Append(pending, later) /\ UNCHANGED dead
    BY <1>10 DEF HandlerRaises
  <2>3. job \in Job
    BY <1>3, <2>1 DEF Executing, Job
  <2>4. job.attempts \in 1..MaxAttempts
    BY <2>1 DEF Executing
  <2>5. later.wait = delay
    BY <2>1 DEF Executing
  <2>6. ~(job.attempts >= MaxAttempts) => delay \in 0..MaxDelay
    BY <2>4, WaitsAssumption
  <2> HIDE DEF delay, later, job
  <2>7. CASE job.attempts >= MaxAttempts
    BY <1>1, <2>2, <2>3, <2>7 DEF Fits
  <2>8. CASE ~(job.attempts >= MaxAttempts)
    BY <1>1, <1>4, <2>2, <2>5, <2>6, <2>8
  <2> QED
    BY <2>7, <2>8
<1>11. ASSUME NEW e \in Events, DispatchGone(e) PROVE HookTypes'
  <2>1. post' = [post EXCEPT ![e] = NoPost] /\ UNCHANGED <<flying, letters, received>>
    BY <1>11 DEF DispatchGone
  <2>2. MaxRuns \in Nat /\ letters \subseteq Dispatch /\ received \subseteq Dispatch
        /\ "idle" \in PostStates
    BY <1>1, RunsCounted DEF HookTypes, PostStates
  <2> QED
    BY <1>1, <2>1, <2>2, ChangedTypes
<1>12. UNCHANGED hookVars => HookTypes'
  BY <1>1 DEF hookVars, HookTypes
<1>13. UNCHANGED <<pending, dead>> => Fits(pending') /\ dead' \subseteq Job
  BY <1>1
<1>14. ASSUME NEW w \in Runners, HandlerEnds(w) PROVE TypeInv'
  <2>1. Awaits(w) /\ (HandlerSucceeds(w) \/ HandlerRaises(w))
        /\ (UNCHANGED hookVars \/ (JobOf(w) \in Events /\ DispatchGone(JobOf(w))))
    BY <1>14 DEF HandlerEnds
  <2>2. HandlerSucceeds(w) => UNCHANGED <<pending, dead>>
    BY DEF HandlerSucceeds
  <2>3. Fits(pending') /\ dead' \subseteq Job
    BY <1>10, <1>13, <2>1, <2>2
  <2>4. HookTypes'
    BY <1>11, <1>12, <2>1
  <2> QED
    BY <2>3, <2>4 DEF TypeInv, Fits
<1>15. ASSUME NEW w \in Runners, RunnerCancelled(w) PROVE TypeInv'
  <2>1. UNCHANGED <<pending, dead>>
        /\ (UNCHANGED hookVars \/ (JobOf(w) \in Events /\ DispatchGone(JobOf(w))))
    BY <1>15 DEF RunnerCancelled, Cancelled
  <2>2. HookTypes'
    BY <1>11, <1>12, <2>1
  <2> QED
    BY <1>13, <2>1, <2>2 DEF TypeInv, Fits
<1>16. CASE \/ \E e \in Events : Posting(e) \/ SendEnds(e)
            \/ Network
  <2>1. /\ UNCHANGED <<pending, dead>>
        /\ \/ \E e \in Events : Answered(e) \/ TransportRaises(e)
           \/ \E m \in flying : Receives(m) \/ Vanishes(m)
    BY <1>16 DEF Posting, SendEnds, Network, queueVars
  <2>2. HookTypes'
    BY <1>1, <2>1, HookStepTypes
  <2> QED
    BY <1>13, <2>1, <2>2 DEF TypeInv, Fits
<1>17. CASE Tick
  <2>1. /\ QueueTick /\ HookTick /\ UNCHANGED <<dead, post, letters, received>>
    BY <1>17 DEF Tick
  <2>2. HookTypes'
    BY <1>1, <2>1, HookTickTypes
  <2>3. Fits(pending')
    <3> SUFFICES ASSUME NEW i \in DOMAIN pending' PROVE pending'[i].wait \in 0..MaxDelay
      BY DEF Fits
    <3> DEFINE wait == pending[i].wait
               next == Max({0, wait - 1})
    <3>1. pending' = [k \in DOMAIN pending |-> [pending[k] EXCEPT !.wait = Max({0, @ - 1})]]
      BY <2>1 DEF QueueTick
    <3>2. i \in DOMAIN pending /\ pending[i] \in Queued(W)
      BY <1>2, <3>1, LenProperties, ElementOfSeq
    <3>3. pending'[i] = [pending[i] EXCEPT !.wait = next]
      BY <3>1, <3>2
    <3>4. pending'[i].wait = next
      <4> HIDE DEF next
      <4> QED
        BY <3>2, <3>3 DEF Queued
    <3>5. wait \in 0..MaxDelay
      BY <1>1, <3>2 DEF Fits
    <3>6. next \in {0, wait - 1} /\ next >= 0
      <4>1. \E m \in {0, wait - 1} : \A x \in {0, wait - 1} : m >= x
        BY <3>5
      <4> QED
        BY <4>1 DEF Max
    <3> QED
      BY <3>4, <3>5, <3>6
  <2> QED
    BY <1>1, <2>1, <2>2, <2>3 DEF TypeInv, Fits
<1>18. CASE UNCHANGED vars
  <2>1. UNCHANGED <<pending, dead>> /\ UNCHANGED hookVars
    BY <1>18 DEF vars, queueVars
  <2> QED
    BY <1>12, <1>13, <2>1 DEF TypeInv, Fits
<1> QED
  BY <1>6, <1>7, <1>8, <1>9, <1>14, <1>15, <1>16, <1>17, <1>18 DEF Next, RunnerStep

(* Type correctness of queue and dispatcher, for any jobs, runners,        *)
(* attempts and skew: no envelope counts more attempts than its policy     *)
(* allows, or waits longer than the longest delay.                         *)
THEOREM DeliveriesTypeOK == Spec => []TypeOK
<1>1. Init => TypeInv
  <2> SUFFICES ASSUME Init PROVE TypeInv
    OBVIOUS
  <2>1. NoPost \in PostType
    BY HookAssumption, DeliveriesAssumption, RetryPolicyAssumption
       DEF NoPost, PostType, PostStates
  <2>2. HookTypes
    BY <2>1 DEF Init, HookInit, HookTypes
  <2>3. DOMAIN pending = {} /\ dead = {}
    BY DEF Init, QueueInit
  <2> QED
    BY <2>2, <2>3 DEF TypeInv, Fits
<1>2. DeliveriesInv /\ TypeInv => TypeOK
  <2> SUFFICES ASSUME DeliveriesInv, TypeInv PROVE TypeOK
    OBVIOUS
  <2>1. PICK W : pending \in Seq(Queued(W))
    BY DEF DeliveriesInv, QueueInv, QueueShape
  <2>2. pending \in Seq(Job)
    <3>1. DOMAIN pending = 1..Len(pending) /\ Len(pending) \in Nat
          /\ pending = [i \in 1..Len(pending) |-> pending[i]]
      BY <2>1, LenProperties
    <3>2. \A i \in 1..Len(pending) : pending[i] \in Job
      <4> SUFFICES ASSUME NEW i \in 1..Len(pending) PROVE pending[i] \in Job
        OBVIOUS
      <4>1. pending[i] \in Queued(W) /\ pending[i].wait \in 0..MaxDelay
        BY <2>1, <3>1, ElementOfSeq DEF TypeInv, Fits
      <4> QED
        BY <4>1, RetryPolicyAssumption DEF Queued, Job
    <3>3. [i \in 1..Len(pending) |-> pending[i]] \in Seq(Job)
      BY <3>1, <3>2, IsASeq
    <3> QED
      BY <3>1, <3>3
  <2>3. running \in [Runners -> Job \cup {NoJob}]
    <3>1. Executing \subseteq Job
      BY RetryPolicyAssumption DEF Executing, Job
    <3> QED
      BY <3>1 DEF DeliveriesInv, QueueInv, QueueShape
  <2>4. QueueTypeOK
    BY <2>2, <2>3 DEF QueueTypeOK, TypeInv, DeliveriesInv, QueueInv, QueueShape
  <2>5. HookTypeOK
    BY DEF HookTypeOK, TypeInv, HookTypes, PostType, PostStates, Request, Dispatch
  <2> QED
    BY <2>4, <2>5 DEF TypeOK
<1>3. Init => DeliveriesInv /\ TypeInv
  BY <1>1, InitInv
<1>4. DeliveriesInv /\ TypeInv /\ [Next]_vars => (DeliveriesInv /\ TypeInv)'
  BY StepInv, StepTypes
<1> QED
  BY <1>2, <1>3, <1>4, PTL DEF Spec

------------------------------------------------------------------------------
(* Refinement: each step is a step of JobSpec, or none.                    *)

LEMMA FateIs ==
  ASSUME QueueInv, NEW j \in Jobs
  PROVE  /\ j \in Over => FateOf(j) = ended[j]
         /\ j \in Buried => FateOf(j) = "dead"
         /\ j \in Awaited => FateOf(j) = "running"
         /\ j \in Waiting => FateOf(j) = "waiting"
         /\ j \notin Known => FateOf(j) = "absent"
<1>1. (j \in Over <=> ended[j] # "no") /\ (j \in Known <=> j \in Waiting \cup Awaited \cup Buried \cup Over)
  BY DEF Over, Known
<1>2. /\ j \in Waiting => j \notin Awaited /\ j \notin Buried /\ j \notin Over
      /\ j \in Awaited => j \notin Buried /\ j \notin Over
      /\ j \in Buried => j \notin Over
  BY DEF QueueInv, OnePlace
<1> QED
  BY <1>1, <1>2 DEF FateOf

LEMMA Moved ==
  ASSUME NEW j \in Jobs, NEW from, NEW to, FateOf(j) = from, FateOf(j)' = to,
         \A k \in Jobs \ {j} : FateOf(k)' = FateOf(k)
  PROVE  Promise!Moves(j, from, to)
BY DEF Promise!Moves

(* The fate of a job that stays where it is does not change.               *)
LEMMA SameFate ==
  ASSUME NEW k \in Jobs, ended'[k] = ended[k], k \in Waiting' <=> k \in Waiting,
         k \in Awaited' <=> k \in Awaited, k \in Buried' <=> k \in Buried
  PROVE  FateOf(k)' = FateOf(k)
BY DEF FateOf

LEMMA InitPromise == Init => Promise!JobInit
<1> SUFFICES ASSUME Init PROVE Promise!JobInit
  OBVIOUS
<1>1. QueueInv /\ QueueInit
  BY InitInv DEF DeliveriesInv, Init
<1>2. Waiting = {} /\ Awaited = {} /\ Buried = {}
  BY <1>1 DEF QueueInit, Waiting, Awaited, Buried
<1>3. \A j \in Jobs : FateOf(j) = "absent"
  BY <1>1, <1>2 DEF FateOf, QueueInit
<1> QED
  BY <1>1, <1>3 DEF Promise!JobInit, QueueInit

LEMMA StepPromise == DeliveriesInv /\ [Next]_vars => [Promise!JobNext]_(Promise!jobVars)
<1> SUFFICES ASSUME DeliveriesInv, [Next]_vars
             PROVE  Promise!JobNext \/ UNCHANGED Promise!jobVars
  OBVIOUS
<1>1. /\ QueueInv /\ QueueInv'
      /\ tried \in [Jobs -> 0..MaxAttempts] /\ ended \in [Jobs -> {"no", "done", "lost"}]
  BY StepInv DEF DeliveriesInv, QueueInv, QueueShape
<1>2. ASSUME UNCHANGED <<tried, ended>>, Waiting' = Waiting, Awaited' = Awaited, Buried' = Buried
      PROVE  UNCHANGED Promise!jobVars
  <2>1. \A k \in Jobs : FateOf(k)' = FateOf(k)
    BY <1>2, SameFate
  <2> QED
    BY <1>2, <2>1 DEF Promise!jobVars
<1>3. ASSUME UNCHANGED queueVars PROVE UNCHANGED Promise!jobVars
  <2>1. UNCHANGED <<pending, running, dead, tried, ended>>
    BY <1>3 DEF queueVars
  <2> QED
    BY <1>1, <1>2, <2>1, QueueRests
<1>4. ASSUME NEW j \in Jobs, Enqueue(j) PROVE Promise!JobNext
  <2>1. /\ j \notin Known /\ UNCHANGED <<tried, ended>>
        /\ Waiting' = Waiting \cup {j} /\ Awaited' = Awaited /\ Buried' = Buried
    BY <1>1, <1>4, Enqueued DEF Enqueue
  <2>2. FateOf(j) = "absent"
    BY <1>1, <2>1, FateIs
  <2>3. FateOf(j)' = "waiting"
    BY <2>1 DEF FateOf, Known
  <2>4. \A k \in Jobs \ {j} : FateOf(k)' = FateOf(k)
    BY <2>1, SameFate
  <2>5. Promise!Moves(j, "absent", "waiting")
    BY <2>2, <2>3, <2>4, Moved
  <2> QED
    BY <2>1, <2>5 DEF Promise!JobNext, Promise!Submit
<1>5. ASSUME NEW w \in Runners, RunNext(w) PROVE Promise!JobNext
  <2>0. PICK j \in Jobs : j = Head(pending).id
    BY <1>1, <1>5, Ran
  <2>1. /\ j \in Jobs \cap Handled /\ j \in Waiting /\ tried[j] < MaxAttempts
        /\ Waiting' = Waiting \ {j} /\ Awaited' = Awaited \cup {j} /\ Buried' = Buried
    BY <2>0, <1>1, <1>5, Ran
  <2>2. ended' = ended /\ tried' = [tried EXCEPT ![j] = @ + 1]
    BY <2>0, <1>5 DEF RunNext
  <2>3. FateOf(j) = "waiting"
    BY <1>1, <2>1, FateIs
  <2>4. FateOf(j)' = "running"
    <3>1. ended[j] = "no" /\ j \notin Buried
      BY <1>1, <2>1 DEF QueueInv, OnePlace, Over
    <3> QED
      BY <2>1, <2>2, <3>1 DEF FateOf
  <2>5. \A k \in Jobs \ {j} : FateOf(k)' = FateOf(k)
    BY <2>1, <2>2, SameFate
  <2>6. Promise!Moves(j, "waiting", "running")
    BY <2>1, <2>3, <2>4, <2>5, Moved
  <2> QED
    BY <2>1, <2>2, <2>6 DEF Promise!JobNext, Promise!Start
<1>6. ASSUME NEW w \in Runners, NoHandler(w) PROVE Promise!JobNext
  <2>0. PICK j \in Jobs : j = Head(pending).id
    BY <1>1, <1>6, Rejected
  <2>1. /\ j \in Jobs \ Handled /\ j \in Waiting
        /\ Waiting' = Waiting \ {j} /\ Awaited' = Awaited /\ Buried' = Buried \cup {j}
    BY <2>0, <1>1, <1>6, Rejected
  <2>2. ended' = ended /\ tried' = tried
    BY <1>6 DEF NoHandler
  <2>3. FateOf(j) = "waiting"
    BY <1>1, <2>1, FateIs
  <2>4. FateOf(j)' = "dead"
    <3>1. ended[j] = "no" /\ j \notin Awaited
      BY <1>1, <2>1 DEF QueueInv, OnePlace, Over
    <3> QED
      BY <2>1, <2>2, <3>1 DEF FateOf
  <2>5. \A k \in Jobs \ {j} : FateOf(k)' = FateOf(k)
    BY <2>1, <2>2, SameFate
  <2>6. Promise!Moves(j, "waiting", "dead")
    BY <2>1, <2>3, <2>4, <2>5, Moved
  <2> QED
    BY <2>1, <2>2, <2>6 DEF Promise!JobNext, Promise!Reject
<1>7. ASSUME NEW w \in Runners, Awaits(w), NEW how \in {"done", "lost"}, Leaves(w, how),
             UNCHANGED <<pending, dead, tried>>
      PROVE  Promise!JobNext
  <2>0. PICK j \in Jobs : j = running[w].id
    BY <1>1, <1>7, HandlerLeaves
  <2>1. /\ j \in Jobs /\ j \in Awaited /\ Awaited' = Awaited \ {j}
        /\ ended' = [ended EXCEPT ![j] = how] /\ j \notin Waiting \cup Buried \cup Over
    BY <2>0, <1>1, <1>7, HandlerLeaves
  <2>2. Waiting' = Waiting /\ Buried' = Buried
    BY <1>1, <1>7, LeftForGood
  <2>3. FateOf(j) = "running"
    BY <1>1, <2>1, FateIs
  <2>4. FateOf(j)' = how
    BY <1>1, <2>1, <2>2 DEF FateOf
  <2>5. \A k \in Jobs \ {j} : FateOf(k)' = FateOf(k)
    BY <1>1, <2>1, <2>2, SameFate
  <2>6. Promise!Moves(j, "running", how)
    BY <2>1, <2>3, <2>4, <2>5, Moved
  <2> QED
    BY <1>7, <2>1, <2>6 DEF Promise!JobNext, Promise!Finish, Promise!Lose
<1>8. ASSUME NEW w \in Runners, Awaits(w), HandlerRaises(w) PROVE Promise!JobNext
  <2>0. PICK j \in Jobs : j = running[w].id
    BY <1>1, <1>8, HandlerLeaves DEF HandlerRaises
  <2>1. Leaves(w, "no") /\ tried' = tried
    BY <1>8 DEF HandlerRaises
  <2>2. /\ j \in Jobs /\ j \in Awaited /\ Awaited' = Awaited \ {j}
        /\ j \notin Waiting \cup Buried \cup Over
    BY <2>0, <1>1, <1>8, <2>1, HandlerLeaves
  <2>3. /\ ended' = ended
        /\ IF tried[j] = MaxAttempts
           THEN Waiting' = Waiting /\ Buried' = Buried \cup {j}
           ELSE tried[j] < MaxAttempts /\ Waiting' = Waiting \cup {j} /\ Buried' = Buried
    BY <2>0, <1>1, <1>8, Raised
  <2>4. FateOf(j) = "running" /\ ended[j] = "no"
    BY <1>1, <2>2, FateIs DEF Over
  <2>5. \A k \in Jobs \ {j} : FateOf(k)' = FateOf(k)
    BY <2>2, <2>3, SameFate
  <2>6. CASE tried[j] = MaxAttempts
    <3>1. FateOf(j)' = "dead"
      BY <2>2, <2>3, <2>4, <2>6 DEF FateOf
    <3>2. Promise!Moves(j, "running", "dead")
      BY <2>2, <2>4, <2>5, <3>1, Moved
    <3> QED
      BY <2>1, <2>2, <2>6, <3>2 DEF Promise!JobNext, Promise!Bury
  <2>7. CASE tried[j] # MaxAttempts
    <3>1. FateOf(j)' = "waiting"
      BY <2>2, <2>3, <2>4, <2>7 DEF FateOf
    <3>2. Promise!Moves(j, "running", "waiting")
      BY <2>2, <2>4, <2>5, <3>1, Moved
    <3> QED
      BY <2>1, <2>2, <2>3, <2>7, <3>2 DEF Promise!JobNext, Promise!Again
  <2> QED
    BY <2>6, <2>7
<1>9. CASE \E j \in Jobs : Submitted(j)
  BY <1>4, <1>9 DEF Submitted
<1>10. ASSUME NEW w \in Runners, RunnerStep(w) PROVE Promise!JobNext \/ UNCHANGED Promise!jobVars
  <2>1. CASE HandlerDispatches(w)
    BY <1>3, <2>1 DEF HandlerDispatches
  <2>2. CASE HandlerEnds(w)
    <3>1. Awaits(w) /\ (HandlerSucceeds(w) \/ HandlerRaises(w))
      BY <2>2 DEF HandlerEnds
    <3> QED
      BY <1>7, <1>8, <3>1 DEF HandlerSucceeds
  <2> QED
    BY <1>5, <1>6, <1>10, <2>1, <2>2 DEF RunnerStep
<1>11. ASSUME NEW w \in Runners, RunnerCancelled(w) PROVE Promise!JobNext
  BY <1>7, <1>11 DEF RunnerCancelled, Cancelled
<1>12. CASE (\E e \in Events : Posting(e) \/ SendEnds(e)) \/ Network \/ UNCHANGED vars
  <2>1. UNCHANGED queueVars
    BY <1>12 DEF Posting, SendEnds, Network, vars
  <2> QED
    BY <1>3, <2>1
<1>13. CASE Tick
  <2>1. QueueTick /\ UNCHANGED <<running, dead, tried, ended>>
    BY <1>13 DEF Tick
  <2>2. Waiting' = Waiting /\ Awaited' = Awaited /\ Buried' = Buried
    BY <1>1, <2>1, Ticked
  <2> QED
    BY <1>2, <2>1, <2>2
<1> QED
  BY <1>9, <1>10, <1>11, <1>12, <1>13 DEF Next

(* The job queue keeps the promise of JobSpec for any number of jobs and   *)
(* runners, any delays and any number of attempts, with tasks that are     *)
(* cancelled: no job runs twice at once or too often, is buried early, or  *)
(* vanishes except while it runs.                                          *)
THEOREM QueueKeepsPromise == Spec => JobsKept
<1> QED
  BY InitPromise, StepPromise, SpecInv, PTL DEF Spec, JobsKept, Promise!JobPromise
=============================================================================
