---------------------------- MODULE Middlewares ----------------------------
(***************************************************************************)
(* The middlewares that build_forge_app (core/forge_application.py) nests  *)
(* around the routes.  A middleware is an operator of the request, of the  *)
(* stores it finds and of what call_next leads to; its value is the        *)
(* response, or the exception that passes through it, and the stores left. *)
(* Requests come one after another, all within one rate-limit window and   *)
(* the time to live of records and nonces: overlapping requests and the    *)
(* clock are the subject of WriteRequests.  Headers that a layer only adds *)
(* to a response are left out, except that of a replay.                    *)
(***************************************************************************)
EXTENDS Integers, Sequences, FiniteSets, SequencesExt

CONSTANTS
  Tokens, NoToken,   \* idempotency keys, and no such header
  Payloads, Stamps,  \* request bodies, signature nonces
  NoRecord,          \* "no record for this key"
  MaxPerWindow,      \* RateLimitRule.max_requests
  MaxOff             \* bound: layers switched off together

ASSUME StackAssumption == MaxPerWindow \in Nat /\ NoToken \notin Tokens

VARIABLES
  layers,    \* the layers that settings and toggles switch on
  admitted,  \* requests the rate limiter has admitted
  records,   \* the idempotency store
  marked,    \* the nonce store
  first,     \* history: the answer a client got when the record of its key was made
  exchange   \* history: the last request, its answer, and what happened on the way

stackVars == <<layers, admitted, records, marked, first, exchange>>

Layers == {"deprecation", "https_redirect", "security_hardening", "audit", "observability",
           "request_signing", "idempotency", "rate_limit", "tenant", "security_context",
           "api_contract", "cors"}

(* What is wrong with a request, if anything.                              *)
Flaws == {"no_tenant", "foreign_tenant", "bad_host", "oversized", "unsigned", "forged",
          "plain_http"}

(* How a route ends: with an envelope or a bare JSON object, with a body   *)
(* above max_body_bytes, or by raising.                                    *)
Response(status, shape) == [status |-> status, shape |-> shape]
Raised == Response(0, "raised")
Fine == Response(200, "envelope")
Endings == {Fine, Response(200, "bare"), Response(500, "envelope"), Response(200, "large"), Raised}

(* Variety where it can matter: a flawed request seldom gets as far as the *)
(* route, and nothing compares the payload or nonce of the others.         *)
Sent == [write: BOOLEAN, token: Tokens \cup {NoToken}, payload: Payloads, stamp: Stamps,
         flaw: Flaws \cup {"none"}, ending: Endings]
Request == {q \in Sent : /\ q.flaw # "none" => q.ending = Fine
                         /\ ~q.write => /\ q.token = NoToken /\ q.stamp = CHOOSE n \in Stamps : TRUE
                                        /\ q.flaw \notin {"unsigned", "forged"}
                         /\ q.token = NoToken => q.payload = CHOOSE p \in Payloads : TRUE}

------------------------------------------------------------------------------
(* The layers.  An outcome is a response and the stores after it; the      *)
(* stores of one request carry its trace along.  out is the outcome of     *)
(* call_next: a layer whose value does not depend on it never makes the    *)
(* call.                                                                   *)

Outcome(response, stores) == [response |-> response, stores |-> stores]
Noted(stores, what) == [stores EXCEPT !.trace = Append(@, what)]
Answers(layer, status, stores) == Outcome(Response(status, "envelope"), Noted(stores, layer))
Returned(out) == out.response # Raised
NotedIf(cond, out, what) == IF cond THEN [out EXCEPT !.stores = Noted(@, what)] ELSE out

Route(q, stores) ==
  Outcome(q.ending, Noted(stores, IF q.ending = Raised THEN "raised" ELSE "route"))

HTTPSRedirect(q, stores, out) ==
  IF q.flaw = "plain_http"
  THEN Outcome(Response(307, "other"), Noted(stores, "https_redirect"))
  ELSE out

SecurityHardening(q, stores, out) ==
  CASE q.flaw = "bad_host"  -> Answers("security_hardening", 400, stores)
    [] q.flaw = "oversized" -> Answers("security_hardening", 413, stores)
    [] OTHER                -> out

(* mutated form: the event is recorded in a finally clause                 *)
AuditFinally(q, out) == NotedIf(q.write, out, "audited")

Audit(q, out) == NotedIf(Returned(out) /\ q.write, out, "audited")

Observability(out) == NotedIf(Returned(out), out, "measured")

(* The nonce is marked before the signature is verified; out finds it so.  *)
Marked(q, stores) == IF q.write THEN [stores EXCEPT !.marked = @ \cup {q.stamp}] ELSE stores

RequestSigning(q, stores, out) ==
  IF ~q.write THEN out
  ELSE IF q.flaw = "unsigned" \/ q.stamp \in stores.marked
  THEN Answers("request_signing", 401, stores)
  ELSE IF q.flaw = "forged" THEN Answers("request_signing", 401, Marked(q, stores))
  ELSE out

Storable(response) == response.status < 500 /\ response.shape # "large"

Idempotency(q, stores, out) ==
  LET found == stores.records[q.token]
  IN IF q.token = NoToken THEN out
     ELSE IF found = NoRecord
     THEN IF Returned(out) /\ Storable(out.response)
          THEN [out EXCEPT !.stores.records[q.token] =
                             [payload |-> q.payload, response |-> out.response]]
          ELSE out
     ELSE IF found.payload = q.payload
     THEN Outcome(found.response, Noted(stores, "replay"))
     ELSE Answers("idempotency", 409, stores)

Counted(stores) == [stores EXCEPT !.admitted = @ + 1]

RateLimit(q, stores, out) ==
  IF stores.admitted = MaxPerWindow THEN Answers("rate_limit", 429, stores) ELSE out

Tenant(q, stores, out) ==
  IF q.flaw = "foreign_tenant" \/ (q.write /\ q.flaw = "no_tenant")
  THEN Answers("tenant", 403, stores)
  ELSE out

(* A bare JSON object becomes a 500 of the layer's own.                    *)
ApiContract(out) ==
  IF out.response.shape = "bare" THEN Answers("api_contract", 500, out.stores) ELSE out

------------------------------------------------------------------------------
(* build_forge_app.  It registers the layers that are switched on in this  *)
(* order, and each one is nested outside of those before it.  Three are    *)
(* left out: deprecation, security_context and cors only add headers or    *)
(* request attributes that are computed from the request where missing.    *)

SwitchedOn(layer) == layer \in layers

Redirected(q, s) == IF SwitchedOn("https_redirect") THEN HTTPSRedirect(q, s, Route(q, s)) ELSE Route(q, s)

Hardened(q, s) ==
  IF SwitchedOn("security_hardening") THEN SecurityHardening(q, s, Redirected(q, s)) ELSE Redirected(q, s)

Audited(q, s) == IF SwitchedOn("audit") THEN Audit(q, Hardened(q, s)) ELSE Hardened(q, s)

Measured(q, s) == IF SwitchedOn("observability") THEN Observability(Audited(q, s)) ELSE Audited(q, s)

Signed(q, s) ==
  IF SwitchedOn("request_signing") THEN RequestSigning(q, s, Measured(q, Marked(q, s))) ELSE Measured(q, s)

(* mutated form: request signing is registered after idempotency           *)
IdempotentFirst(q, s) ==
  LET Kept(t) == IF SwitchedOn("idempotency") THEN Idempotency(q, t, Measured(q, t)) ELSE Measured(q, t)
  IN IF SwitchedOn("request_signing") THEN RequestSigning(q, s, Kept(Marked(q, s))) ELSE Kept(s)

Idempotent(q, s) == IF SwitchedOn("idempotency") THEN Idempotency(q, s, Signed(q, s)) ELSE Signed(q, s)

Limited(q, s) ==
  IF SwitchedOn("rate_limit") THEN RateLimit(q, s, Idempotent(q, Counted(s))) ELSE Idempotent(q, s)

Isolated(q, s) == IF SwitchedOn("tenant") THEN Tenant(q, s, Limited(q, s)) ELSE Limited(q, s)

Contracted(q, s) == IF SwitchedOn("api_contract") THEN ApiContract(Isolated(q, s)) ELSE Isolated(q, s)

(* The handler of Exception is outside all of them: whatever status the    *)
(* registry gives an exception, no layer sees it.                          *)
HandleException(out) == IF Returned(out) THEN out.response ELSE Response(500, "envelope")

(* wire_platform_middleware = False leaves three layers at most.           *)
StackInit ==
  /\ \/ \E off \in SUBSET Layers : Cardinality(off) <= MaxOff /\ layers = Layers \ off
     \/ layers = {"deprecation", "https_redirect", "cors"}
  /\ admitted = 0 /\ marked = {}
  /\ records = [k \in Tokens |-> NoRecord]
  /\ first = [k \in Tokens |-> NoRecord]
  /\ exchange = [token |-> NoToken, retry |-> FALSE, write |-> FALSE, answer |-> Raised,
                 trace |-> <<>>]

(* History: the answer to a request with its key and payload was stored.   *)
Repeats(q) == \E k \in Tokens : q.token = k /\ records[k] # NoRecord /\ records[k].payload = q.payload

Serves(q) ==
  LET out == Contracted(q, [admitted |-> admitted, records |-> records, marked |-> marked,
                            trace |-> <<>>])
      answer == HandleException(out)
  IN /\ admitted' = out.stores.admitted
     /\ records' = out.stores.records
     /\ marked' = out.stores.marked
     /\ first' = [k \in Tokens |-> IF records[k] # records'[k] THEN answer ELSE first[k]]
     /\ exchange' = [token |-> q.token, retry |-> Repeats(q), write |-> q.write,
                     answer |-> answer, trace |-> out.stores.trace]
     /\ UNCHANGED layers

StackNext == \E q \in Request : Serves(q)

StackSpec == StackInit /\ [][StackNext]_stackVars

------------------------------------------------------------------------------
(* Properties.                                                             *)

StackTypeOK ==
  /\ layers \subseteq Layers /\ admitted \in 0..MaxPerWindow /\ marked \subseteq Stamps
  /\ \A k \in Tokens : records[k] = NoRecord \/ records[k].payload \in Payloads

(* A retry of a request whose answer was stored gets what its client got   *)
(* the first time, through whatever layers are further out, and nothing    *)
(* happens again: the route does not run, nothing is audited, measured or  *)
(* marked.  That holds of refusals and redirects of layers further in as   *)
(* well: the request that follows a redirect with the same key is          *)
(* redirected again.  Only layers outside of idempotency may answer        *)
(* otherwise.                                                              *)
Outer == {"rate_limit", "tenant"}
RetryIsReplay ==
  [][exchange'.retry /\ "idempotency" \in layers =>
       LET trace == exchange'.trace
       IN \/ Head(trace) \in Outer
          \/ /\ exchange'.answer = first[exchange'.token]
             /\ Head(trace) = "replay" /\ Range(trace) \subseteq {"replay", "api_contract"}
             /\ marked' = marked]_stackVars

(* A write is audited once if the route or a layer inside of audit         *)
(* answered it, and never if it was refused further out, replayed, or      *)
(* ended by an exception; whatever is audited is also measured.            *)
Times(what) == Cardinality({i \in DOMAIN exchange.trace : exchange.trace[i] = what})
Inside == {"route", "https_redirect", "security_hardening"}
AuditExact ==
  exchange.trace # <<>> =>
    LET answered == Head(exchange.trace) \in Inside
    IN /\ "audit" \in layers => Times("audited") = IF answered /\ exchange.write THEN 1 ELSE 0
       /\ "observability" \in layers => Times("measured") = IF answered THEN 1 ELSE 0
=============================================================================
