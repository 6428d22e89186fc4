# EitohForge in TLA+

This directory is the verification project of EitohForge, a Python SDK for FastAPI
services (`src/src/eitohforge_sdk`) and the command line tool that scaffolds them
(`src/src/eitohforge_cli`). It holds TLA+ modules translated from the source, the TLC
configurations that check them on small instances, and proofs checked by TLAPS that
hold for every value of the constants.

Source paths below are relative to `src/src/eitohforge_sdk/` unless they begin with `docs/`
or `src/`. `PROJECT.json` maps each definition to the lines it models and lists the hazards
of the code, each with the properties that would notice it.

    tlc -workers 2 -config MCSocketHub.cfg MCSocketHub     # a run
    tlapm SocketHubProofs.tla                              # proofs

## 1. The system

One service is a number of worker processes. Each runs one asyncio event loop: the code
between two awaits is atomic, and at each await any other coroutine may run. Synchronous
route handlers and some adapters run in threads. Workers share Redis, a database, or nothing.

### Components that keep state across steps

| component | state | operations | interacts with | what is hard | what makes it correct |
|---|---|---|---|---|---|
| Realtime hub: `infrastructure/sockets/hub.py`, `realtime_router.py` | connections, principals, rooms and the reverse index `_member_rooms`; a handler coroutine per socket | register, join, leave, broadcast, send_direct_to_actor, disconnect; receive loop | handlers call the hub, the hub awaits `send_json` of *other* clients' sockets | delivery loops iterate over live collections across awaits; a peer's exception ends the sender's handler | indexes agree; who leaves is gone everywhere; only addressees are sent to; an undisturbed delivery is exact; a dropped client is deregistered |
| Redis fan-out: `redis_hub.py`, `realtime_redis.py` | the inner hub, one subscription and one task per worker | local delivery, PUBLISH, poll, deliver | Redis pub/sub between workers | order through two connections, echoes, failing deliveries, tasks that die, shutdown | at most once; per-client order; peers agree on the order; nothing lost without a fault |
| Presence: `presence.py` | status and metadata of connections, over a hub | join, leave, update_status, disconnect | broadcasts through the hub, which may raise | broadcast before or after the state change | status only for members; the cleanup is complete |
| Saga: `infrastructure/transactions/saga.py` | local to `run`: executed and compensated steps; a state store; a callback | run | steps, store, callback, any of which may raise | partial failure at every call, cancellation, crash | steps are undone once, last first, only if executed; the result and the record are true |
| Rate limiter: `core/rate_limit.py` | a bucket of timestamps per caller | allow | outermost stateful middleware | the window's boundary | never more than the limit in any window; Retry-After is exact |
| Idempotency: `core/idempotency.py` | records with expiry | get, put | awaits the rest of the stack between get and put | concurrent duplicates, expiry, overwritten records | faithful replay; not executed again once stored |
| Request signing: `core/request_signing.py` | nonces with expiry | mark | inside idempotency | pruning, retries answered from the idempotency store | one acceptance per nonce and time to live |
| Sessions: `core/auth/session.py` | memory or Redis rows, an index per subject with an expiry of its own | create, validate, revoke, revoke_all | several Redis commands per operation, from threads | expiry between commands, the index expiring first | a revoked session stays revoked; revoke_all reaches all |
| JWT: `core/auth/jwt.py` | revoked token ids | issue, rotate, revoke | a revocation store | check-then-act | a replay of a rotated refresh token is refused |
| Jobs: `infrastructure/jobs/memory.py` | queue, handlers, dead letters | enqueue, run_next | handlers are awaited | retry with delay, head-of-line blocking, loss on cancellation | each job ends done or dead-lettered, after at most its attempts |
| Webhooks: `infrastructure/webhooks/` | dead letters; replay protection | dispatch with retries; verify | a transport that may raise after delivery | duplicates | delivered or dead-lettered |
| External API client: `infrastructure/external_api/client.py` | failure count, opened-at | request | concurrent calls on one circuit | late answers, the implicit half-open state | open means no calls until the recovery time |
| Cache: `infrastructure/cache/` | values, key and tag indexes | get, set, invalidate | a delegate that expires by itself | indexes that outlive values | invalidation reaches every live tagged key |
| Tenant context: `core/tenant.py` | a context variable | set, reset | caches, storage, repositories | nesting across awaits | a request sees its own tenant only |
| Feature flags: `core/feature_flags.py` | a dict of definitions | register, reload, evaluate | readers in other threads | reload is clear and then refill | a reader sees the old or the new set |
| Repositories: `infrastructure/repositories/` | rows; for Redis a row and an index | CRUD, offset, cursor and keyset pages | database or Redis | two-command updates, ties in keyset pagination | pages concatenate to the whole; the index agrees with the rows |
| Event bus: `infrastructure/messaging` | handler lists | subscribe, publish, publish_many | Redis bridge | a handler that raises, or subscribes, while a publication waits | who had subscribed is called, once; other processes hear of it after that |
| Storage: `infrastructure/storage/` | files under a root, one space per tenant | put, delete, get, exists; policies | threads; the file system | a put is truncate and write, a delete look and unlink; one key, several spellings, `..` resolved after the prefix and the policies | an object holds what its last change left; how contents can get into another tenant's space |
| Policies: `core/abac.py`, `core/security.py`, `core/policy_dsl/` | parsed expressions | parse, evaluate, decide a request | route dependencies | precedence, lost tokens, values that do not compare | a policy decides as its author meant it |
| Lifespan: `core/forge_application.py`, `realtime_redis.py` | the subscriber task, two Redis clients | start, poll, cancel, close | the shutdown cancels the task and awaits it | the cancellation meets the task anywhere, within its `finally` too | the hub is closed only after the task; what stays open is known |
| Validation: `core/validation/`, `application/services/validation.py` | a list of hooks per stage | register, validate_business, validate_security, validate_or_raise | hooks are awaited | hooks registered during a validation; stopping early | what passed was before every hook; a refusal is exact |
| Unit of work: `infrastructure/database/transaction.py` | a session | begin, commit, rollback | database | an exception in the block | all or nothing |
| Dev runner: `src/src/eitohforge_cli/commands/dev.py` | child processes | start, wait, terminate | the OS | partial start-up | no child outlives the runner |

### Components without such state

Socket authentication, identity providers, job publishers, cloud storage, search and notification
adapters, configuration, and the CLI's templates are pure functions,
one-shot I/O or code generation. Section 6 and `PROJECT.json` say why each is left out. The
middlewares without state of their own are modelled for what they do to each other.

### How the modelled parts meet

    client --ws--> realtime_websocket --> InMemorySocketHub --send_json--> other clients
                        |                       ^
                        |  (RedisFanoutSocketHub: local delivery, then PUBLISH)
                        v                       |
                      Redis pub/sub --> run_realtime_redis_subscriber of each other worker

    client --http--> cors, api contract, security context, tenant, rate limit, idempotency,
                     request signing, observability, audit, security hardening,
                     https redirect, deprecation --> route handler
                     (build_forge_app, core/forge_application.py; outermost first)

    job queue --run_next--> handler --dispatch--> webhook dispatcher --http--> inbound endpoint

    SsoBroker.authenticate --> JwtTokenManager.issue_token_pair --> SessionManager.create_session

## 2. Modules

| module | models | proofs |
|---|---|---|
| `SocketHub` | the hub, the handlers, the delivery loops of one process | `SocketHubProofs` |
| `RedisFanout` | several workers joined by Redis | `RedisFanoutProofs` |
| `SagaSpec` | abstract: what a saga promises | |
| `Saga` | `SagaOrchestrator.run` | `SagaProofs` |
| `WriteRequests` | rate limiter, idempotency and request signing with overlapping requests and a clock | `WriteRequestsProofs` |
| `Middlewares` | all layers of `build_forge_app`, any of them switched off, one request at a time | `SharedStateProofs` |
| `Backoff` | `delay_for_attempt`, used by jobs and API client | |
| `JobSpec` | abstract: what the job queue promises of each job | |
| `JobQueue` | `InMemoryBackgroundJobQueue` | `DeliveriesProofs` |
| `Webhooks` | dispatcher, network, inbound endpoint | |
| `Deliveries` | composes `JobQueue` and `Webhooks` | `DeliveriesProofs` |
| `ApiClient` | `ResilientExternalApiClient` and its circuit | `ApiClientProofs` |
| `Sessions` | `SessionManager` over the Redis store | `AuthProofs` |
| `RefreshTokens` | refresh rotation of `JwtTokenManager` | `AuthProofs` |
| `Auth` | composes both with the SSO broker | `AuthProofs` |
| `Paging` | a walk over the pages of a repository | `SharedStateProofs` |
| `Repositories` | concurrent writers of the three repositories | `SharedStateProofs` |
| `TaggedCache` | tag and prefix invalidation over tenant-scoped entries | `SharedStateProofs` |
| `Presence` | `PresenceManager` over a hub | `SharedStateProofs` |
| `FeatureFlags` | `FeatureFlagService` under reloads | `SharedStateProofs` |
| `EventBus` | `InMemoryEventBus` and `RedisPublishingEventBus` | `SharedStateProofs` |
| `DevRunner` | `eitohforge dev`: several services, Ctrl-C, timeouts | `SharedStateProofs` |
| `Policies` | the policy language, the policy engine and the role check | |
| `Storage` | tenant-scoped local storage under overlapping puts and deletes | `SharedStateProofs` |
| `Lifespan` | the application's lifespan and its subscriber task, to the end of the shutdown | `SharedStateProofs` |
| `Validation` | `ServiceValidationHooks` and its two `ValidationEngine`s | `SharedStateProofs` |
| `SharedState` | puts `Middlewares` and the ten from `Paging` to `Validation`, without `Policies`, side by side | `SharedStateProofs` |
| `MC...` | instances for TLC | |

A definition under a comment "mutated form" changes the one after it the way a plausible bug
would. It is used by no specification: substituting it must break the property
`PROJECT.json` pairs it with, which is how each property is known to bite.

### SocketHub

*State.* `connections`, `principals`, `rooms`, `memberRooms`, `nextId` are the fields of
`InMemorySocketHub`; `{}` and `NoActor` stand for absent keys. `pc[c]` says where the handler
of connection `c` is suspended: in its greeting, in `receive_json` ("recv"), in a reply, or in a
delivery ("cast"); "closed" and "leaked" are a handler that ended with and without
`hub.disconnect`. `alive[c]` is the client's end of the socket. `cast[t]` is the delivery loop of task
`t`: a handler, or a task that delivers another worker's message (`Subscribers`).

*Delivery loops.* `broadcast` iterates over the live set of a room and `send_direct_to_actor` over
the live dict of principals, with an await per addressee. CPython's iterators
compare the collection's size with the one they began with, and a dict's may also notice changed
keys at equal size, at once or on a later step (`Onward`, "moved"). `MayGoOn` and `MayRefuse` say when the iterator may yield another element or
raise; `obj` remembers whether the collection was changed under it ("dirty", where the entries
still ahead are any subset) or dropped from `_rooms` when it emptied ("gone"). `Observed` updates all
suspended loops in every step that changes a collection. `Heads` is the loop body up to its next
await, with the `continue`s; the order of a hash table's elements is nondeterministic.

*Actions.* One per message kind (`RecvJoin`, `RecvLeave`, `RecvBroadcast`, `RecvDirect`;
`RecvOther` for everything that changes nothing), `Accept` (accept and register), `Greet`, `Reply`,
`CastGoesOn` and `CastRaises` (an awaited send returns or raises), `RecvDisconnect`, and the
environment's `ClientDrop` and `SubscriberDelivers`. `Finally` is the whole `finally` clause.

*Bounds.* `MaxConns` connections ever accepted, `MaxLoops` loops in flight at once, `MaxSubConns`
(subscriber loops start only while at most that many connections were accepted), `Slots` sends of one loop.

### RedisFanout

A delivery inside a worker is SocketHub's loop; here it starts (`LocalStarts`, or `Take` in the
subscriber task), and ends or raises. `inflight` holds PUBLISH requests that Redis has not executed;
`mailbox[w]` is Redis' output buffer for worker `w`. The handler of a client awaits its PUBLISH
(`PublishReturns`); one that raises at the client may yet be executed (`HandlerRaises`). `SubscriberDies` is an exception of `subscribe` or `get_message`, which ends the
task for good; `Stop` is shutdown or crash. Redis itself is not in the repository: `RedisPublishes`
models it from how the code uses it (one FIFO per subscribed connection, nothing kept for those that
are not subscribed). `log`, `published`, `acked` and `fault` are history.
*Bounds.* `Sends[c]` messages per client. *Not in it:* workers that share a `publisher_id` (the code generates one per process).

### SagaSpec and Saga

`SagaSpec` is the promise: do steps in order; after a failure handle the done ones from the last to the
first, each undone or given up; succeed only if nothing was undone; possibly be abandoned.
`Saga` has an action per call of `run`: the store's `start`, a step's `execute`,
`step_executed`, `finish`, `compensate`, `step_compensated`, the callback. Each may raise where the
source lets it, before or after it took effect. `storeFails` and `callback` are fixed in the initial
state: a store that never raises, or may; a callback that is given, or not. `Abandoned` is a crash,
or a cancellation, before or after the effect of what is awaited: `CancelledError` is no `Exception`, so `run` handles neither.
The refinement mapping reads `mode` off the program counter and lets a step be handled at the moment its
`compensate` returns or raises. *Bound.* `MaxSteps`.

### WriteRequests

A request goes through the stages new, look_up (only with a key), sign, handle, store (only with a
key), done; the awaits of the middlewares lie between them. `bucket`, `records` and `nonces` are
the three in-memory stores. `Tick` is the clock, in whole seconds. Inputs (caller, key, body,
nonce) are chosen initially. A request's key stands for method, path and header together (no tenant is
part of it); a body for its hash. Signature and timestamp checks depend on nothing other requests change, so
they are a choice in `Sign` and `SignatureStale`, with the nonce marked before the signature is
verified as in the code. A response is a status class; "too_large" and "server_error" are the ones not stored.
*Bounds.* `Requests`, `MaxTime`.

### Middlewares

One operator per middleware, of the request, the stores it finds and `out`, the outcome that `call_next` leads to; its value
is an outcome: a response or a passing exception, and the stores after it. A layer that refuses a request does not depend on `out`: the call is not made.
One that changes its store before the call (`Marked`, `Counted`) is given the outcome from there. `Redirected`, `Hardened`, ...,
`Contracted` nest them in the order of `add_middleware` (last added is outermost): each is a layer around the definition before it, if
`SwitchedOn`. `layers` is what settings and toggles switch on. A request carries at most one flaw, which some layer refuses, and an
ending its route has. An exception of a route, also one that a handler maps to 404, 403 or 422, is answered
by Starlette's outermost error handler (`HandleException`), so it passes audit, metrics and
the storing of idempotency by. `exchange` is the last request with a trace of what happened on the way.
What the model shows on the way, and no document speaks of: idempotency also stores a 307 of the https
redirect and refusals (401, 413) of layers inside of it; with the api contract enforced, bare JSON answers
(`/sdk/feature-flags`, FastAPI's own 404 and 422 of the form `{"detail": ...}`) become 500 INVALID_API_ENVELOPE.
*Bounds.* `MaxPerWindow` 2 requests admitted, `MaxOff` 1 layer switched off. *Left out:* headers that are only added;
every path is in every layer's scope; the clock stands still. Overlap and time are `WriteRequests`'.

### JobSpec, JobQueue, Webhooks, Deliveries

`JobQueue` keeps `_pending` as a sequence of jobs with their attempts and the seconds until
`available_at`. `RunNext` takes the head before its handler is awaited; `HandlerRaises` appends it
with its delay or buries it; `Cancelled` loses it, as `run_next` holds the only reference. Several `Runners` call
`run_next` on one loop. `JobSpec` is the promise per job (absent, waiting, running, done, dead or lost; at most
`MaxAttempts` runs, one at a time), without queue, order or clock; `Promise` in `JobQueue` is the instance with the mapping.
`Webhooks`: `Dispatches` and `Answered` are the loop of `dispatch`, each attempt signed anew;
`Receives` is the inbound endpoint (stale signature 401, handler raises 500), `Vanishes` and
`TransportRaises` the network: a request given up by its sender may still arrive. The record of a
dead letter counts `max_attempts` even when a non-retryable answer stopped the loop early, so the
model keeps no count there. `Deliveries` joins them: some jobs' handlers await a dispatch and raise when it is
dead-lettered. *Bounds.* `MaxRuns` = `MaxAttempts` dispatches per event.

### ApiClient

`Begins` decides by the circuit's state whether the call goes out and may retry; `Succeeds`, `Fails`,
`Retries`, `SendsAgain` are the ends of its awaits. Half-open is derived from the clock, as in `_state`: there is no
probe slot, all concurrent calls are admitted. `opened` counts seconds up to the timeout, `failures` saturates at the
threshold (the code only compares with it). `recent` and `early` are history. `UpstreamChanges`, `Cancelled`: the API
and the callers are free.

### Sessions, RefreshTokens, Auth

`Sessions` has one action per Redis command: `PutRow`, `PutIndex`, `ExpireRow`, `ExpireIndex` are
`put`; `Looks` and `Mark` are `revoke` (EXISTS, then HSET); `List`, `Read`, `ReadAll`, `RevokeEach`,
`RevokeAllReturns` are `revoke_all_sessions`. Rows and indexes carry the ticks left of their own expiries;
half-second ticks make `ttl_seconds`' rounding visible. A row that expired between EXISTS
and HSET comes back as one with nothing but `revoked_at` (`full` = FALSE), on which `get` raises `KeyError`.
`cut` is history: subjects whose index may end before a session of theirs, which every put can cause.
`RefreshTokens`: `Checks`, `RevokesOld`, `IssuesNew` are the three store calls of a rotation; two rotations
of one token may pass the check together and both succeed, so no property promises that a token is
rotated once; `ReplayRefused` is what holds. `Auth` gives every thread a login (`Resolves`, `Links`, `IssuesPair`,
`CreatesSession`; without `AutoProvision` only of those who have a link), a rotation or a revocation, and lets it die between any two steps (`Dies`). `revoke_all`
does not touch refresh tokens, and nothing says it should.
*Bounds.* `MaxTokens`, `MaxCalls`, and the session ids.

### Paging, Repositories, TaggedCache, Presence, FeatureFlags, EventBus, DevRunner, Policies, Storage, Lifespan, Validation

`Paging`: `Counts` and `Selects` are the two statements of `SQLAlchemyRepository.paginate`, which may see different
tables; `PageOfMemory` the one step of the dict repository. Rows tie, are NULL, and are written between pages
(`Writes`). Met while modelling: SQL's `total` ignores the filters (`sqlalchemy_repository.py:164-166`); keyset
compares only the first sort column, strictly (`:341-354`), and without sorts adds no ORDER BY; the dict
repositories ignore the cursor in keyset mode (`repository_row_helpers.py:42-46`), so following `next_cursor` never
leaves the first page, and such walks are left out. They also apply sorts one after the other, so that the last one is primary.

`Repositories`: Redis with a command per step (`Create`/`CreateSAdd`, `UpdateReads`/`Set`, `DeleteReads`/`SRem`/`Del`), SQL
with a select and a commit of the columns set, memory in one step. `raced` and `died` are history: they name
what `ListedIffStored` and `WritesKept` except. Values written are always new, as SQLAlchemy sends no
column that is set to what it holds. An update under a tenant adopts a shared row in the dict repositories.

`TaggedCache`: `entry` is per tenant and expires, `known`, `tagged`, `tagsOf` are the indexes, which
are not per tenant. Keys of `Expiring` are sometimes written with a ttl. `strayed` is history: entries whose tags another tenant's call took away, or an overwrite that raised.

`Presence`: `LeaveBroadcasts` to `LeaveEnds`/`LeaveRaises` is `leave`, whose status is cleared only after the broadcast. Its broadcast is
`SocketHub`'s loop, here one step of unknown length.

`FeatureFlags`: `Loads`, `Clears`, `RegistersNext`, `ReloadEnds`, `ReloadRaises` are `reload`, a dict operation per step, in several
threads; `On` is `evaluate`. A plan of stages, each wider than the one before (`PlanAssumption`), is what administrators
put into Redis; some stages contain a definition that `register` refuses. Two reloads that overlap may leave a mixture of two stages, and one that finds no key in Redis (never written, or lost) clears all flags; `whole` excepts both.

`EventBus`: a publication resolves its handlers once (`Resolved`) and awaits them in turn; meanwhile others subscribe and publish.
`HandlerReturns` goes on to the next, `RedisTakes` and `PublishRaises` are the ends of the bridge's PUBLISH, which comes only after all
handlers; an event named like the wildcard meets its handlers twice. `publications` is history.

`DevRunner`: `Starts` and `StartFails` are the loop of `_start_processes`, `WaitReturns` the one of `dev_root`; Ctrl-C (`Interrupted`) leads
to `Terminates` and then to `Reaps`, unless a service does not exit in time (`ReapTimesOut`) or Ctrl-C comes again. A service that cannot be
started leaves those before it running, as does a Ctrl-C between the last `Popen` and the `try` (`InterruptedBeforeWaiting`) and a second Ctrl-C: these are the
three exceptions that `NoServiceForgotten` names.

`Policies`: an author composes a tree (`Grows`), writes it down with the fewest parentheses (`Text`) and may lose one token
(`Slips`); `RegistersPolicy` is the recursive descent of `_Parser` over the tokens, `Decides` the role check, the two built-in policies and
the expression, evaluated as Python does (`Error` is an exception: an unknown root, or values that do not compare). `ReadAsMeant`
says that a faultless text is read as the very tree, that a faulty one is refused or read with every word in place, and that the decision is that of
the same policy with its negations spread by de Morgan, exceptions included.

`Storage`: `OpensFile` and `WritesFile` are the truncation and the write of `write_bytes`, `FindsFile` and `UnlinksFile` the look and the `unlink` of
`delete`; a put whose file was unlinked writes on into a file without a name. `NamespacedKey` prefixes the tenant; policies
see the key before that, so with them a key without its tenant's prefix, or with a leading slash, is refused. `kept` and `unsettled` are history; `ObjectsKept`
speaks of objects whose changes did not overlap. A get during a put may see an empty file: nothing in the code prevents it.
`Path` is where a key leads: `Path.resolve` takes `..` back (`Normalised`) only after the prefix was put and the policies looked at the key, and what
follows compares the text of the result with the text of the root (`WithinRoot`; `RootLike` holds a directory beside the root whose name begins like
the root's, which passes). So a tenant's space is kept by prefix and policies for keys without `..` only: `acme/../globex/file` passes them and is
globex's file, which the model contains and the code does. `climbed` (history) is where such a key wrote last; the second conjunct of `ObjectsKept` excepts
these objects and no others, and its first conjunct holds for all. Left out are symbolic links, and `.` and empty parts of a key, which
only spell the same file in one more way.

`Lifespan`: `subscriber` is the task of `run_realtime_redis_subscriber`: `at` names the call it awaits, from `subscribe` to the three
calls of its `finally`; `how` what it will end with. `ShutsDown` is `stop.set` and `task.cancel`. A cancelled task is resumed with
`CancelledError` at what it awaits and nowhere else (`Resumes`, `IsCancelled`), even if that call has returned by then, so
the flag `stop` never decides anything. Within the `try` an exception goes on through the `finally` (`Leaves`); within
the `finally`, whose handlers name `Exception`, a cancellation ends the task at once and takes the place of the exception it was cleaning up after.
`TaskAwaited` is `await task`: it raises what the task ended with, and anything but `CancelledError` ends the shutdown before
`hub.aclose`. That no client is left open is therefore not a property; `LifespanReleases` says exactly when one is. `last` is history.

`Validation`: `Validate` is any of the three methods up to its first await, `HookFinds` and `HookRaises` the end of an await of a hook,
`HookRegistered` the four ways to register. `Continued` is what follows a hook up to the next: the test of `stop_on_first_error`, the end of the
loop over the live list, `is_valid`, and in `validate_or_raise` the second stage. The three hooks of `hooks.py` find an error by what
they look at (`Accepts`); rules of `rules.py` keep no state and look at the payload only, which makes them, like any hook of an application,
`"custom"`: errors and warnings as they like, or an exception. `upto` and `cleared` are history. One validator suffices: a call
sees nothing of the others.

`SharedState` puts these (but for `Policies`, which joins them in `MCSharedState`, as the prover takes no recursive operator) and `Middlewares` side by side: they share nothing, and a variable
`part`, chosen initially, says which one a behaviour is about. No interaction among them is claimed or hidden by it: that every behaviour of it is one of each
component's own specification is a theorem (`EachComponentRuns`).

## 3. Runs

| run | instance | shows | distinct states |
|---|---|---|---|
| `hub` | 3 connections, 1 room, 2 loops at once | `RegisteredWhileHandled`, `QuietCastIsExact` under every interleaving of handlers, drops and deliveries | 2,690,499 |
| `hub_live` | 2 connections, 2 rooms, 1 subscriber, 2 loops | `IndexConsistent`: a disconnect leaves all of several rooms; cluster deliveries address correctly; `DroppedIsDeregistered` | 124,075 |
| `fanout` | 3 workers, 2 clients (2 and 1 messages) on one of them | `DeliveredOnce`, `ClientOrderKept`, `PeersAgreeOnOrder`, `NothingLostWithoutFault` | 2,334,697 |
| `saga` | sagas of 0 to 4 steps | `ResultIsTrue`, `OnlyLastUnrecorded`, and that `Saga` implements `SagaSpec` | 16,186 |
| `requests` | 3 requests, 1 caller, 1 key or none, 2 bodies, 2 nonces, 3 s | `LimitHolds`, `RetryAfterExact`, `NotExecutedAgain`, `ReplayFaithful`, `NonceOncePerTtl` | 5,245,547 |
| `deliveries` | 3 jobs (one posts a webhook, one has no handler), 2 runners, 2 attempts each of job and webhook, skew 1 s | `JobQueue` implements `JobSpec`; `JobsSettle`; `DoneWasReceived`: at least once, end to end | 89,773 |
| `api_client` | 3 callers, 2 of them idempotent, 3 attempts, threshold 3, recovery 3 s | when the circuit opens (`OpenExactlyOnStreak`) and closes (`EarlyCloseIsLateSuccess`, `CircuitRecovers`) | 44,810 |
| `auth` | 2 threads, 1 subject, 3 session ids, lifetimes 1 and 2 s, 3 tokens, 4 calls | `RevokedStaysRevoked`, `RevokeAllReaches`, `ReplayRefused`, with threads that die | 3,495,250 |
| `shared_state` | twelve parts, one per behaviour | `WalksExact`, `RowsSound`, `InvalidationExact`, `StatusIffInRoom`, `AuditExact`, `RetryIsReplay`, `OnceOnStaysOn`, `HeardExact`, `NoServiceForgotten`, `ReadAsMeant`, `ObjectsKept`, `LifespanReleases`, `ValidationExact` | 1,849,283 |

The parts of `shared_state`: paging (4 rows, one of which the filter excludes, 2 values and NULL, pages of 2, 2 writes);
repositories (2 writers, 2 tenants or none, 2 ids, 2 fields, 3 updates); cache (2 tenants, 2 keys, 1 tag, lifetime 1); presence (2 connections, 2
rooms, 2 callers); middlewares (1 key, 2 bodies, 2 nonces, 2 requests admitted, any one layer off); flags (2 loaders, 3 stages of 2 flags, the second
stage with a broken definition, 2 contexts, clock 0 to 2); events (1 name and the wildcard, 2 handlers, 2 publishers, 3 subscriptions,
2 publications); runner (4 services); policies (up to 2 operators of `not`, `and`, `or` and three comparisons over 4 operands, 4 requests); storage (4
threads of 2 tenants and of none, 6 spellings, three of them with `..`, 3 puts and deletes, policies enforced or not); lifespan (one worker: it has no bound); validation (1 call, 2 hooks a
stage, a payload that satisfies the three built-in hooks and one that none of them lets pass).

*Why the bounds are enough for the cases that matter.* Hub: with three connections one delivers, one is
addressed and one changes the collection, and there can be two loops over one collection, each
other's addressees; a connection that closes makes room for one that opens, so collections change
at equal size. Several rooms per connection matter to `Disconnect` only, which two
connections and two rooms exercise. `Slots` = `MaxConns` cuts off only loops whose iterator yields
an entry again after a rehash. Fan-out: two peers are needed to compare orders, two messages
of one client and one of another for both kinds of order. Saga: four steps give a failure with three steps to
handle, so first, middle and last differ. Requests: a store, an overwriting store and a later lookup take
three requests; three seconds hold a whole window and time to live of two seconds and the moments
on both sides of it. Deliveries: two attempts have a first and a last; two runners hold two jobs while a third waits
behind a delayed head. API client: three callers and three outcomes let a streak be broken by a late
answer, and three attempts give two sleeps of different length. Auth: a short session and a long one of one
subject, and a third created during a sweep; a rotated token, its child and a replay. Paging: two
pages of two with a tie, a NULL and a write on either side of the boundary; two values and NULL
are a rank before, at and behind it. Events: a handler of the name, one of the wildcard, and one more that subscribes
while the first is awaited. Runner: a first, a last and others between. Policies: two operators show each precedence and
associativity; with three `ReadAsMeant` holds too (7.2 million states, not a run). Storage: two changes that overlap, and a third that
settles the object or is another tenant's; the keys with `..` lead to another tenant's space with and without a prefix,
and beside the root. Repositories: each kind of write against each other. Validation: with two hooks a stage
has a first that may stop it and a second that was there or comes later.
Symmetry is used for workers, requests, bodies, nonces, threads and sessions that
play the same part, in runs without liveness properties.

*Deadlock* is checked in `deliveries`, `api_client` and `auth`, where the clock always goes on. It is not in the others: there the system
may really stop, when all connections, messages, steps or requests the bound allows are used up, or a walk has ended.

*Fairness.* `SocketHub`: weak fairness of each handler's steps. The
event loop resumes every coroutine whose await has completed, and an awaited send to a peer that
stopped reading completes too, because the server's keepalive closes the socket. Nothing is assumed of
clients or of subscriber tasks. `Deliveries`: of the clock, of each runner (a runner is a loop around `run_next`), of a
dispatch's own steps, and of the end of a send (its timeout); nothing of the network, the receiver, submission or
cancellation. `ApiClient`: of the clock and of each caller's steps; `CircuitRecovers` assumes in its statement that the API
stays up and calls are no longer cancelled. The other modules have safety properties only and state no fairness.

### Where a document and the code differ

Each is a run of one property that TLC violates; the counterexample is the disagreement.

- `hub_doc`, `OthersInRoomGetIt`: `docs/guides/realtime-websocket.md` says that the others in a room get
  a broadcast. A member whose send raises, or a change of the room's size, ends the loop: members after
  it are not sent the message, and the sender's own handler ends.
- `saga_doc`, `FailureCompensatesAll`: the docstring of `SagaOrchestrator.run` promises compensation
  in reverse order on failure. A compensation-failure callback that raises leaves the earlier steps
  uncompensated.
- `requests_doc`, `DuplicatesDeduplicated`: the roadmap says that duplicates with one key are
  deduplicated. A duplicate that arrives while the first is still being handled is executed too.
  `NotExecutedAgain` is what does hold.

## 4. Proofs

All from the constants' named assumptions only: `HubAssumption`, `OrchestratorAssumption`, `FanoutAssumption`,
`RequestsAssumption` and `RecordAssumption`, `CircuitAssumption`, `DelaysAssumption` (that the powers in `Delay` are within the longest delay), `TtlsAssumption` and
`NoRowAssumption`, `TokensAssumption`, `AuthAssumption`, `RetryPolicyAssumption`, `WaitsAssumption` (as `DelaysAssumption`), `NoJobAssumption`, `HookAssumption` and
`DeliveriesAssumption`; and those of the components in `SharedState`: `PagingAssumption`, `RepoAssumption`, `CacheAssumption` and `TagsAssumption`,
`NoConnAssumption`, `PlanAssumption` (a plan only widens), `FlagsAssumption`, `BucketAssumption` (a hash modulo 100), `ServicesAssumption`,
`StorageAssumption` (keys have parts, the root begins like itself), `ObjectsAssumption` (no file is another's directory), `ContentsAssumption`, `StackAssumption`, `ValidationAssumption`. TLC evaluates each on the run of its module. The bounds of the runs
(`Sends`, `MaxTime`, `MaxTokens`, `MaxCalls`, `Slots`, ...) are constants there like any other, so the theorems hold for every bound. Each
module states its invariant first, then lemmas about the operators, one lemma or step per action with a sub-step per conjunct,
and the theorems last.

`SocketHubProofs`, for any numbers of connections, rooms, actors and subscriber tasks: `HubTypeOK`,
`HubIndexConsistent`, `HubRegisteredWhileHandled`, `HubSendsOnlyToAddressed` and `HubQuietCastIsExact`. The inductive invariant is

    HubInv == TypeOK /\ IndexConsistent /\ RegisteredWhileHandled /\ LoopsSound

`LoopsSound` says what a suspended loop knows: a handler's loop excludes itself, and as long as
its collection is unchanged everything ahead of the iterator is still in it. It is needed because a loop decides
whom to send to from `todo`, collected steps earlier; without it a "clean" loop could hold a stale
`todo`. `Observed` keeps it: the step that changes a collection marks every loop over it. The action property
follows from the invariant in the state before the step: for a dirty loop the elements ahead are
recomputed from the collection itself.

`HubQuietCastIsExact` rests on `HubInv` and on `QuietInv`: in a suspended quiet loop the collection is the one it began with, those
entitled are exactly the addressed members and are alive, and each of them has been sent the message or lies ahead; the send that is
awaited is in `got` but not yet in `delivered`. `ActorsStay` (nobody changes actor while connected) carries it through changes of other collections. The
theorem assumes `MaxConns <= Slots`: otherwise the bound on sends could cut off a loop.

`RedisFanoutProofs`, for any workers, clients and numbers of messages: `FanoutTypeOK`, `NothingTwice`, `OneClientInOrder`,
`OneOrderForPeers`, `NothingLost`. The invariant is

    FanoutInv == TypeOK /\ (\A c : Sending(c)) /\ (\A w : OrderKept(w)) /\ (\A c, w : NotYetAt(c, w))
                 /\ Agree /\ NothingLostWithoutFault

None of the four properties is inductive: what a worker will deliver lies in Redis' buffer. `OrderKept` says that
the messages of each author rise in the log, in the buffer, and from the one to the other; "at most once" and "in
order" are both read off it. `NotYetAt` says that a message whose PUBLISH is awaited is in no buffer and in no other
worker's log, which is where the await in the handler is used. `Agree` compares log followed by buffer
of any two workers, so that polling, which moves a message from the one to the other, leaves it as it is (`PrecedesPoll`), and only
a PUBLISH adds to it, behind everything (`PrecedesPublish`).

`SagaProofs`, for sagas of any length: `SagaTypeOK`, `SagaResultIsTrue`,
`SagaOnlyLastUnrecorded`, and the refinement `SagaKeepsPromise`. The invariant is

    SagaInv == TypeOK /\ LoopInv /\ RecordInv /\ ReportInv

`LoopInv` says what each program point knows of the two loops: in the backward phase exactly the steps
`left+1 .. executed` are compensated or given up. That identifies `fate` in the refinement mapping and
makes "each once" provable. `RecordInv` ties the store to the forward loop, `ReportInv` the reports to
the steps already passed.

`WriteRequestsProofs`, for any requests, callers, keys, limits, windows and times to live: `RequestsTypeOK`, `NeverAboveLimit`,
`RetryAfterIsExact`, `StoredIsNotExecutedAgain`, `ReplayIsFaithful`, `NonceAcceptedOncePerTtl`. The invariant is

    RequestsInv == TypeOK /\ LimiterInv /\ IdempotencyInv /\ SigningInv

The limit is about sets of admitted requests, the code about a list of times: `Covered` gives every request admitted
in the last window a place of its own in the bucket, and as the bucket's length is at most the limit, so is their number (the
pigeonhole is a lemma on cardinalities). `Refusal` says that a refused caller's bucket was full since, which
makes Retry-After exact. `InProgress`, `Remembered` and `RecordSound` say what each stage of a request knows of
the record it found or will write; `SigningInv` that an accepted nonce's expiry is kept as long as it matters.

`AuthProofs`, for any threads, subjects, sessions, lifetimes and tokens: `RevokedForGood`, `SweepIsComplete`,
`NoReplay`, `TypeCorrect`. The invariants are

    SessionInv == SessionTypeOK /\ TaskInv /\ OwnerInv /\ IndexInv /\ SweepInv
                  /\ RevokedStaysRevoked /\ RevokeAllReaches
    TokenInv   == TokenTypeOK /\ InOrder /\ (\A t : RotationKnows(t)) /\ ParentsRevoked

`TaskInv` says what a thread between two commands knows of the row it works on, and that no two create the same one;
`IndexInv` that a session that was created is in its subject's index as long as it may be valid, unless the index was cut; `SweepInv`
that what a sweep must reach and has not is still to be read or to be revoked. The sweep reads the index first and
works on what it read: without `SweepInv` nothing ties the set it holds to the sessions that are valid now.
`ParentsRevoked` is what a replay is refused by; `RotationKnows` keeps it while a rotation is half done.

`DeliveriesProofs`, for any jobs, runners, attempts, delays and clock skews: `DeliveriesTypeOK`, `QueueKeepsPromise` (the refinement of `JobSpec`) and
`DoneMeansReceived`. The invariant is

    DeliveriesInv == QueueInv /\ HookInv /\ PostOfRun /\ DoneWasReceived
    QueueInv      == QueueShape /\ OnePlace /\ Counted

`OnePlace` says that a job is in one of the queue, a runner, the dead letters and the ended ones, and once; without it the mapping to
`JobSpec` is not even a function of the state. `Counted` ties the attempts an envelope carries to the calls of its handler, which is what
the last attempt is decided by. `HookInv` keeps an answer of success tied to a request that was received; `PostOfRun` says
whose run a dispatch belongs to. How long a job waits matters to its type only: `TypeInv`
adds the ranges, with `WaitsAssumption` for the powers in `Delay`, whose bound would take an induction over the exponent.

`ApiClientProofs`, for any callers, thresholds and delays: `ClientTypeOK`, `CircuitFollowsOutcomes`, `OnlyLateSuccessClosesEarly`. The invariant is

    ClientInv == CallShape /\ CircuitInv /\ EarlyInv

`CallsInv`, for the types, adds that a call that sleeps has an attempt left. `CircuitInv` identifies the failure count with the streak of failures at the end of `recent`; `EarlyInv` says that
while the circuit is open only calls from before are in flight.

`SharedStateProofs` holds a section per component, each a theorem about the component's own specification, for all values of its constants; then
`EachComponentRuns` shows that `SharedState` implies every one of these specifications (a component that is not the `part` stands still), from which
`SharedStateSound` and `SharedStateTypeOK` follow. The invariants, and what each has to know that its property does not say:

- `WalksReturnEachOnce`, by `PagingInv`. Of each due row a keyset cursor knows (`KeysetKnows`): if it was returned, it is not behind the cursor; if it
  is not behind the cursor, it was returned or ties with the end of a page. Writes of other rows cannot disturb that. For offsets the place of a
  row is the number of rows before it, and the row was returned just when its place is before the offset (`OffsetKnows`); when no rows tie, places
  are distinct and a page is exactly the places it covers.
- `RepositoriesKeepRows`, by `RepoInv == RepoShape /\ RacesNoted /\ ListingSound /\ ValuesSound`: between the commands of a call the set of ids and
  the keys disagree in the way that call's next command repairs, and calls that overlap on a row are in `raced`.
- `CacheInvalidatesExactly`, by `CacheInv`: the two indexes mirror each other, and a live entry that did not stray is indexed under exactly the
  tags it was last written with (`Indexed`).
- `PresenceFollowsRooms`, by `PresenceInv`: whoever is in a room is registered with the hub.
- `RolloutKeepsFlagsOn`, by `FlagsInv`: a flag that was answered on was on by a stage that the registered definitions have reached and that a
  reload under way will not go back behind (`ServedInv`, `StagesSeen`); while the definitions count as `whole`, no reload has cleared them
  (`WholeIsQuiet`).
- `BusIsHeardExactly`, by `BusInv`: what a publication has called is a prefix of what it resolved, and complete before Redis or the next event (`Progress`,
  `OutsideComplete`, `BatchesInTurn`).
- `RunnerForgetsNone`, by `RunnerInv`: each program point knows which services the loop before it has been through (`LoopsDone`).
- `StorageKeepsObjects`, by `StorageInv`: a file that an object's only change has open holds what that change wrote so far (`ChangedAlone`), and a file that no key
  with `..` wrote last holds what its space's own tenant wrote (`WrittenByOwner`): a path without `..` begins with the root and then with the tenant that the prefix
  or the policies put there (`PathSpace`). Nothing is assumed of keys with `..` but that `Path` is a function of them.
- `RetriesAreReplays` and `AuditIsExact`, by `StackInv`: a record in the idempotency store was made together with the client's first answer, and holds what the
  layers further out made that answer of (`Seen`); and a request's trace has one of a few forms, by the layer that answered it (`WholeTrace`). The
  lemmas go from the route outwards, one per level of `build_forge_app`, as the nesting does.
- `ShutdownReleases`, by `LifespanInv == LifespanTypeOK /\ TaskKnows /\ ShutdownKnows /\ LifespanReleases`: each point the task waits at knows whether its client is
  open and whether there is an exception to go on with (`TaskKnows`), and the shutdown knows that the task has ended before the hub is closed.
- `ValidationIsExact`, by `ValidationInv`: every hook that a call has behind it in its stage was either cleared or is among
  the errors, of which one that is to stop at the first has at most one, of the hook it asked last (`LoopKnows`); the hooks counted when a call began are still there, in the same
  places (`HooksStay`), which is what iterating over a live list needs; the security stage begins only after the business stage was cleared (`StagesInTurn`);
  and a call ends refused only with an error, and either early or after every hook its stage had at first (`HowItEnds`).

Only model-checked: the liveness properties `DroppedIsDeregistered`, `JobsSettle`, `CircuitRecovers` (out of this
prover's reach), and `ReadAsMeant` of `Policies`: parser, printer and evaluator are recursive in the policy, and what they do for every policy is an induction
over trees, which the prover cannot do.

## 5. Plan

Done, in this order: `SocketHub`, its proofs, `RedisFanout`, `SagaSpec` and `Saga` with proofs, `WriteRequests`; then `JobSpec`,
`JobQueue`, `Webhooks` and `Deliveries`; `ApiClient` with proofs; `Sessions`, `RefreshTokens` and `Auth` with proofs; `Paging`,
`Repositories`, `TaggedCache`, `Presence`, `Middlewares`, `FeatureFlags`, `EventBus`, `DevRunner`, `Policies`, `Storage`, `Lifespan`, `Validation`; the proofs of `WriteRequests`,
`RedisFanout`, `Deliveries` and of all that `SharedState` puts together. What is left, most useful first:

1. The restart of the in-memory stores of `WriteRequests`, all three at once.
2. Presence over `SocketHub` itself rather than over a broadcast of unknown length.

## 6. Not modelled, and why

- *CLI and project templates* (`src/src/eitohforge_cli`, about two fifths of the implementation's lines): text that is written out once. A model
  of it would be the text.
- *Configuration, secrets, capabilities, plugins, factories*: read once at start-up, no state between steps.
- *Cloud storage and presigned URLs, search, notifications, SSO adapters, job publishers, Mongo*: one call to an external client each; their
  semantics are the server's or the vendor's. The exchange with an identity provider is external in `Auth`.
- *Unit of work*: one `with` block around a session; no state between two calls.
- *Tenant context*: that the context variable is reset after a request is not modelled; the server runs every request in a context of its own.
- *Of the modelled components:* how characters become tokens in the policy language, and the decorators that check a keyword argument; bulk creation, filter operators, tenant schemas and unpaged lists of the repositories (SQL ignores a filter on an
  unknown column, the dict repositories exclude rows without it); what the rules of `core/validation/rules.py` find in a payload; a lifespan that is cancelled itself; the in-memory session store, whose operations are one step each; what an audit
  event or a metric contains; encoding and signatures of tokens.

### Abstractions to keep in mind

- `SocketHub`, `RedisFanout`, `Saga`, `WriteRequests`, `Deliveries`, `ApiClient`, `TaggedCache`, `Presence`, `EventBus`, `Lifespan` and `Validation` are coroutines on one event loop: a step lies between two
  awaits. `Sessions`, `RefreshTokens`, `Repositories`, `FeatureFlags` and `Storage` run in threads: a step is a store command, a dict or a file operation.
- Sockets refused by authentication never reach the hub and have no state in `SocketHub`; `Logins` is
  the outcome of authentication.
- The stores of `WriteRequests` are the in-memory ones the repository provides; a clock that runs backwards and
  a restart, which empties all three at once, are not modelled.
- The clock of `WriteRequests` moves in whole seconds; the store of idempotency records is taken to read the same clock as the middleware (`idempotency.py:125` takes
  `datetime.now`, the store its `now_provider`, which are the same unless a test injects one).
- Sender and receiver of a webhook share one clock: that `verify_webhook_signature` also accepts timestamps ahead of its own (the `abs` of `signing.py:32`) shows only if they differ.
- A store that raises in `Saga` does so before or after its effect; what a partial write inside a store would leave is not.
- Redis executes a command in one step and removes a key exactly when its time is up; what a failover would lose is not modelled.
