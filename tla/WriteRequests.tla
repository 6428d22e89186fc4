--------------------------- MODULE WriteRequests ---------------------------
(***************************************************************************)
(* Write requests on their way through the middlewares of build_forge_app  *)
(* (forge_application.py) that keep state between requests: the rate       *)
(* limiter outermost, then idempotency, then request signing, then the     *)
(* route's handler.  They run on one event loop; between two awaits a      *)
(* request takes one step, and any number of requests are under way.       *)
(***************************************************************************)
EXTENDS Integers, Sequences, FiniteSets

CONSTANTS
  Requests,     \* every request ever made
  Callers,      \* what resolve_rate_limit_key tells apart
  Keys, NoKey,  \* idempotency keys (method, path and header), and no header
  Bodies,       \* request bodies, as their hashes
  Nonces,       \* nonces (with their key id)
  NoRecord,     \* "no record in the idempotency store"
  MaxTime,      \* bound: seconds modelled
  MaxRequests, WindowSeconds,     \* RateLimitRule
  TtlSeconds,                     \* IdempotencyRule.ttl_seconds
  NonceTtlSeconds                 \* RequestSigningRule.nonce_ttl_seconds

ASSUME RequestsAssumption ==
  /\ MaxTime \in Nat
  /\ MaxRequests \in Nat \ {0}
  /\ WindowSeconds \in Nat \ {0}
  /\ TtlSeconds \in Nat \ {0}
  /\ NonceTtlSeconds \in Nat \ {0}
  /\ NoKey \notin Keys
  /\ IsFiniteSet(Requests)

VARIABLES
  now,      \* the clock
  input,    \* who sends a request, with which key, body and nonce
  stage,    \* what a request awaits
  bucket,   \* InMemoryRateLimiter._requests: caller -> times of admission
  records,  \* InMemoryIdempotencyStore._records
  nonces,   \* InMemoryRequestNonceStore._records: nonce -> expiry; 0 if absent
  answer,   \* the response of a request and whose handling produced it
  at,       \* history: when a request was admitted or refused by the limiter
  retry,    \* history: the Retry-After it was refused with
  marked,   \* history: when a nonce was last accepted; -1 before
  executed, \* history: the requests the handler ran for
  stored    \* history: when a request's response was stored; -1 before

vars == <<now, input, stage, bucket, records, nonces, answer, at, retry, marked, executed,
          stored>>
limiterVars == <<bucket, at, retry>>
idempotencyVars == <<records, stored>>
signingVars == <<nonces, marked>>

(* A handler's "ok" is any response below 500 that is small enough to store. *)
Statuses == {"none", "ok", "server_error", "too_large", "rate_limited", "key_reused",
             "signature_error"}

Answers == [by: Requests, status: Statuses]
Records == [body: Bodies, of: Answers, expires: Nat]

ASSUME RecordAssumption == NoRecord \notin Records

Init ==
  /\ now = 0
  /\ input \in [Requests -> [caller: Callers, key: Keys \cup {NoKey}, body: Bodies, nonce: Nonces]]
  /\ stage = [r \in Requests |-> "new"]
  /\ bucket = [c \in Callers |-> <<>>]
  /\ records = [k \in Keys |-> NoRecord]
  /\ nonces = [n \in Nonces |-> 0]
  /\ answer = [r \in Requests |-> [by |-> r, status |-> "none"]]
  /\ at = [r \in Requests |-> 0] /\ retry = [r \in Requests |-> 0]
  /\ marked = [n \in Nonces |-> -1]
  /\ executed = {}
  /\ stored = [r \in Requests |-> -1]

Tick ==
  /\ now < MaxTime
  /\ now' = now + 1
  /\ UNCHANGED <<input, stage, answer, executed, limiterVars, idempotencyVars, signingVars>>

Answered(r, by, status) ==
  /\ stage' = [stage EXCEPT ![r] = "done"]
  /\ answer' = [answer EXCEPT ![r] = [by |-> by, status |-> status]]

------------------------------------------------------------------------------
(* The rate limiter.                                                       *)

(* What is left of a bucket when its heads up to t are popped.  It is      *)
(* sorted: those are as many as its elements up to t.                      *)
UpTo(times, t) == {i \in 1..Len(times) : times[i] <= t}
After(times, t) == SubSeq(times, Cardinality(UpTo(times, t)) + 1, Len(times))

(* mutated form: an admission is forgotten a second early                  *)
InWindowEarly(times) == After(times, now - WindowSeconds + 1)

(* The bucket without the admissions that left the window.                 *)
InWindow(times) == After(times, now - WindowSeconds)

HasRoom(c) == Len(InWindow(bucket[c])) < MaxRequests

(* mutated form: the window is counted from the latest admission           *)
RetryAfterLatest(times) == (times[Len(times)] + WindowSeconds) - now

(* Positive, as the head of the bucket is in the window: max(1, ...) only  *)
(* rounds up fractions of seconds.                                         *)
RetryAfter(times) == (Head(times) + WindowSeconds) - now

Arrives(r) ==
  /\ stage[r] = "new"
  /\ at' = [at EXCEPT ![r] = now]

(* allow returned true.  A request without an idempotency key goes         *)
(* straight on to request signing.                                         *)
Admit(r) ==
  LET c == input[r].caller
  IN /\ Arrives(r) /\ HasRoom(c)
     /\ bucket' = [bucket EXCEPT ![c] = Append(InWindow(@), now)]
     /\ stage' = [stage EXCEPT ![r] = IF input[r].key = NoKey THEN "sign" ELSE "look_up"]
     /\ UNCHANGED <<now, input, answer, retry, executed, idempotencyVars, signingVars>>

Refuse(r) ==
  LET c == input[r].caller
  IN /\ Arrives(r) /\ ~HasRoom(c)
     /\ bucket' = [bucket EXCEPT ![c] = InWindow(@)]
     /\ retry' = [retry EXCEPT ![r] = RetryAfter(InWindow(bucket[c]))]
     /\ Answered(r, r, "rate_limited")
     /\ UNCHANGED <<now, input, executed, idempotencyVars, signingVars>>

------------------------------------------------------------------------------
(* Idempotency.                                                            *)

(* mutated form: the body is not compared                                  *)
LookUpIgnoresBody(r) ==
  LET k == input[r].key
      found == records[k]
  IN /\ stage[r] = "look_up"
     /\ IF found = NoRecord \/ found.expires <= now
        THEN /\ records' = [records EXCEPT ![k] = NoRecord]
             /\ stage' = [stage EXCEPT ![r] = "sign"]
             /\ UNCHANGED answer
        ELSE /\ Answered(r, found.of.by, found.of.status)
             /\ UNCHANGED records
     /\ UNCHANGED <<now, input, stored, executed, limiterVars, signingVars>>

(* The body is read and the store consulted: an expired record is removed, *)
(* the stored response of the same body is replayed, of another refused.   *)
LookUp(r) ==
  LET k == input[r].key
      found == records[k]
  IN /\ stage[r] = "look_up"
     /\ IF found = NoRecord \/ found.expires <= now
        THEN /\ records' = [records EXCEPT ![k] = NoRecord]
             /\ stage' = [stage EXCEPT ![r] = "sign"]
             /\ UNCHANGED answer
        ELSE /\ IF found.body # input[r].body
                THEN Answered(r, r, "key_reused")
                ELSE Answered(r, found.of.by, found.of.status)
             /\ UNCHANGED records
     /\ UNCHANGED <<now, input, stored, executed, limiterVars, signingVars>>

(* call_next returned the response of everything further in.               *)
InnerAnswer(r, status) ==
  IF input[r].key = NoKey
  THEN Answered(r, r, status)
  ELSE /\ stage' = [stage EXCEPT ![r] = "store"]
       /\ answer' = [answer EXCEPT ![r].status = status]

(* mutated form: the record keeps the expiry of the one it replaces        *)
RecordKeepsExpiry(r) ==
  LET k == input[r].key
  IN [body |-> input[r].body, of |-> answer[r],
      expires |-> IF records[k] = NoRecord THEN now + TtlSeconds ELSE records[k].expires]

Record(r) ==
  [body |-> input[r].body, of |-> answer[r], expires |-> now + TtlSeconds]

(* mutated form: 5xx responses are stored as well                          *)
StoresEverything(status) == TRUE

Stores(status) == status \notin {"server_error", "too_large"}

(* The response has been read to its end: it is stored, over whatever      *)
(* another request with this key has stored meanwhile, unless it is a 5xx  *)
(* or larger than max_body_bytes.                                          *)
Store(r) ==
  /\ stage[r] = "store"
  /\ IF Stores(answer[r].status)
     THEN /\ records' = [records EXCEPT ![input[r].key] = Record(r)]
          /\ stored' = [stored EXCEPT ![r] = now]
     ELSE UNCHANGED <<records, stored>>
  /\ stage' = [stage EXCEPT ![r] = "done"]
  /\ UNCHANGED <<now, input, answer, executed, limiterVars, signingVars>>

------------------------------------------------------------------------------
(* Request signing.                                                        *)

(* mutated form: pruning forgets the nonces that have not expired, too     *)
PrunedAll ==
  IF \E n \in Nonces : nonces[n] \in 1..now THEN [n \in Nonces |-> 0] ELSE nonces

Pruned == [n \in Nonces |-> IF nonces[n] <= now THEN 0 ELSE nonces[n]]

(* Headers missing, or the timestamp malformed or outside the skew.        *)
SignatureStale(r) ==
  /\ stage[r] = "sign"
  /\ InnerAnswer(r, "signature_error")
  /\ UNCHANGED <<now, input, executed, limiterVars, idempotencyVars, signingVars>>

(* The nonce is marked, then the body awaited and the key id and signature *)
(* verified, which depends on nothing that other requests change.          *)
Sign(r) ==
  LET n == input[r].nonce
  IN /\ stage[r] = "sign"
     /\ IF Pruned[n] # 0
        THEN /\ InnerAnswer(r, "signature_error")
             /\ nonces' = Pruned
             /\ UNCHANGED marked
        ELSE /\ nonces' = [Pruned EXCEPT ![n] = now + NonceTtlSeconds]
             /\ marked' = [marked EXCEPT ![n] = now]
             /\ \/ stage' = [stage EXCEPT ![r] = "handle"] /\ UNCHANGED answer
                \/ InnerAnswer(r, "signature_error")
     /\ UNCHANGED <<now, input, executed, limiterVars, idempotencyVars>>

(* The handler runs.  One that raises is answered as a server_error.       *)
Handle(r) ==
  /\ stage[r] = "handle"
  /\ executed' = executed \cup {r}
  /\ \E status \in {"ok", "server_error", "too_large"} : InnerAnswer(r, status)
  /\ UNCHANGED <<now, input, limiterVars, idempotencyVars, signingVars>>

Next ==
  \/ Tick
  \/ \E r \in Requests :
       \/ Admit(r) \/ Refuse(r) \/ LookUp(r) \/ Store(r)
       \/ SignatureStale(r) \/ Sign(r) \/ Handle(r)

Spec == Init /\ [][Next]_vars

------------------------------------------------------------------------------
(* Properties.                                                             *)

TypeOK ==
  /\ now \in 0..MaxTime
  /\ input \in [Requests -> [caller: Callers, key: Keys \cup {NoKey}, body: Bodies, nonce: Nonces]]
  /\ stage \in [Requests -> {"new", "look_up", "sign", "handle", "store", "done"}]
  /\ bucket \in [Callers -> Seq(0..MaxTime)]
  /\ \A c \in Callers : Len(bucket[c]) <= MaxRequests
  /\ records \in [Keys -> {NoRecord} \cup Records]
  /\ nonces \in [Nonces -> Nat]
  /\ answer \in [Requests -> Answers]
  /\ at \in [Requests -> 0..MaxTime] /\ retry \in [Requests -> Nat]
  /\ marked \in [Nonces -> (0..MaxTime) \cup {-1}]
  /\ executed \subseteq Requests
  /\ stored \in [Requests -> (0..MaxTime) \cup {-1}]

Admitted(c) ==
  {r \in Requests : input[r].caller = c /\ stage[r] # "new" /\ answer[r].status # "rate_limited"}

(* No caller has more than max_requests requests admitted in any           *)
(* window_seconds, wherever the window begins.                             *)
LimitHolds ==
  \A c \in Callers : \A t \in 0..MaxTime :
    Cardinality({r \in Admitted(c) : at[r] \in (t - WindowSeconds + 1)..t}) <= MaxRequests

(* Retry-After is exact: while no other request of the caller is admitted, *)
(* a refused request would be admitted from that moment on and not before. *)
RetryAfterExact ==
  \A r \in Requests : LET c == input[r].caller IN
    (answer[r].status = "rate_limited" /\ \A q \in Admitted(c) : at[q] <= at[r]) =>
      (HasRoom(c) <=> now >= at[r] + retry[r])

(* A request is passed on to be executed only if no response to a request  *)
(* with its key has been stored in the last ttl_seconds, whatever other    *)
(* requests with that key were under way and overwrote each other's.       *)
NotExecutedAgain ==
  [][\A q, p \in Requests :
       (stage[q] = "look_up" /\ stage'[q] = "sign" /\ input[p].key = input[q].key /\ stored[p] >= 0)
         => now >= stored[p] + TtlSeconds]_vars

(* A replayed response is one that was stored for a request with the same  *)
(* key and body in the last ttl_seconds, and never a server error.         *)
Replays(r) == answer'[r].by # r /\ answer[r].by = r

ReplayFaithful ==
  [][\A r \in Requests : LET p == answer'[r].by IN
       Replays(r) =>
         /\ input[p].key = input[r].key /\ input[p].body = input[r].body
         /\ answer[p] = answer'[r] /\ answer[p].status # "server_error"
         /\ stored[p] >= 0 /\ now < stored[p] + TtlSeconds]_vars

(* A nonce is accepted once in nonce_ttl_seconds, however the requests     *)
(* that carry it interleave.                                               *)
NonceOncePerTtl ==
  [][\A r \in Requests : LET n == input[r].nonce IN
       (stage[r] = "sign" /\ stage'[r] = "handle" /\ marked[n] >= 0) =>
         now >= marked[n] + NonceTtlSeconds]_vars

(* docs/roadmap/master-implementation-roadmap.md:261, "Duplicate write     *)
(* with same idempotency key is safely deduplicated.": within ttl_seconds  *)
(* no two requests with one key and body are both executed successfully.   *)
DuplicatesDeduplicated ==
  \A p, q \in executed :
    (p # q /\ input[p].key = input[q].key /\ input[p].key # NoKey
     /\ input[p].body = input[q].body /\ answer[p].status = "ok" /\ answer[q].status = "ok"
     /\ at[p] <= at[q]) => at[q] >= at[p] + TtlSeconds
=============================================================================
