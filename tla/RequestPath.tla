---------------------------- MODULE RequestPath ----------------------------
(***************************************************************************)
(* The inbound path: a worker (a task of an ASGI server, a thread of       *)
(* Django) serves requests one after another through the kit's six         *)
(* middleware layers, the throttle dependency and the handler.             *)
(*                                                                         *)
(* A layer is what it adds to a response that passes outward through it,   *)
(* and the errors it turns into a response.  A response that is made at    *)
(* some depth passes through the layers outside it only.  The three hosts  *)
(* differ in who turns an error into a response, and so at what depth:     *)
(*   "asgi"     the layers alone (middleware/);                            *)
(*   "fastapi"  also the handlers of adapters/fastapi/exception_handlers,  *)
(*              next to the application;                                   *)
(*   "django"   process_exception and DRF's handler, next to the view,     *)
(*              before any layer sees a response (adapters/django/).       *)
(*                                                                         *)
(* Requests share only the throttle, whose decision is any one here, so    *)
(* one worker shows what all of them do.                                   *)
(***************************************************************************)
EXTENDS Integers, Sequences, FiniteSetsExt

CONSTANTS Hosts,      \* the hosts to consider
          Requests,   \* the requests that may arrive
          MaxBytes,   \* BodyLimitMiddleware's max_bytes
          Chunks,     \* sizes of the pieces in which a body arrives
          Waits,      \* reset_after of a denial, in half seconds
          NoLength    \* no Content-Length, or one that is no number

ASSUME BodyAssumption == MaxBytes \in Nat /\ Chunks \subseteq Nat \ {0} /\ Waits \subseteq Nat
ASSUME HostAssumption == Hosts \subseteq {"asgi", "fastapi", "django"}
ASSUME LengthAssumption == \A r \in Requests : r.declared \in Nat \cup {NoLength}

VARIABLES host, at, req,
          request_id, \* the ContextVar, in the worker's context
          seen,       \* bytes of the body counted so far
          delivered,  \* history: bytes the application has got
          answer,     \* what the server has been told to send
          event,      \* the inbound event log_inbound has emitted for the handler
          raised,     \* history: the error that ended the request, if any
          told        \* history: the wait the throttle asked for

vars == <<host, at, req, request_id, seen, delivered, answer, event, raised, told>>

NoId == "no id"
NoError == "no error"
NoEvent == [id |-> NoId, outcome |-> "none"]
NoAnswer == [status |-> 0, headers |-> {}, retry |-> 0, complete |-> FALSE]

Init ==
  /\ host \in Hosts
  /\ at = "idle"
  /\ req \in Requests
  /\ request_id = NoId
  /\ seen = 0 /\ delivered = 0 /\ told = 0
  /\ answer = NoAnswer
  /\ event = NoEvent
  /\ raised = NoError

-----------------------------------------------------------------------------
\* Errors (exceptions/): the table is searched for the first class the error
\* is an instance of.

Parent == [ExternalTimeoutError |-> "TransientError"]
KitErrors == {"ValidationError", "RateLimitError", "ServiceUnavailableError",
              "TransientError", "ExternalTimeoutError", "ExternalServiceError",
              "RepositoryError", "DecryptionError", "UnknownBackendError",
              "EncryptionConfigError"}

IsA(error, class) ==
  error = class \/ (error \in DOMAIN Parent /\ Parent[error] = class)

\* Fault: the general class stands before the special one.
HTTP_STATUS_MAP_General ==
  << <<"ValidationError", 400>>, <<"RateLimitError", 429>>, <<"ServiceUnavailableError", 503>>,
     <<"TransientError", 502>>, <<"ExternalTimeoutError", 504>>, <<"ExternalServiceError", 502>> >>

HTTP_STATUS_MAP ==
  << <<"ValidationError", 400>>, <<"RateLimitError", 429>>, <<"ServiceUnavailableError", 503>>,
     <<"ExternalTimeoutError", 504>>, <<"ExternalServiceError", 502>>,
     <<"DecryptionError", 500>>, <<"RepositoryError", 500>> >>

http_status_for(error) ==
  LET rows == {i \in DOMAIN HTTP_STATUS_MAP : IsA(error, HTTP_STATUS_MAP[i][1])}
  IN IF rows = {} THEN 500 ELSE HTTP_STATUS_MAP[Min(rows)][2]

\* Retry-After: whole seconds, rounded up, and never 0.
RetryAfter(wait) == IF wait = 0 THEN 1 ELSE (wait \div 2) + (wait % 2)

\* The envelope of a kit error: its status, and the rate-limit headers if it
\* is a RateLimitError (0: without them).
FromException(error, wait) ==
  [status |-> http_status_for(error),
   retry  |-> IF error = "RateLimitError" THEN RetryAfter(wait) ELSE 0]

-----------------------------------------------------------------------------
\* The layers, outermost first, as install_middleware_stack adds them.

Stack == <<"exceptions", "security", "rate_limit", "cors", "body_limit", "request_id">>
Depth(layer) == CHOOSE i \in DOMAIN Stack : Stack[i] = layer
Application == Len(Stack) + 1

\* A request under a CORS prefix from an origin that is allowed.
OriginAllowed(r) == r.cors_path /\ r.origin = "allowed"

AsgiAdds(layer, r) ==
  [exceptions |-> {}, rate_limit |-> {}, body_limit |-> {},
   security   |-> {"security"},
   cors       |-> IF OriginAllowed(r) THEN {"allow_origin"} ELSE {},
   request_id |-> {"ids"}][layer]

\* Django's CORS layer leaves preflights to the view and names the methods
\* on every response under a prefix.
DjangoCors(r) ==
  (IF r.cors_path THEN {"allow_methods"} ELSE {})
    \cup (IF OriginAllowed(r) THEN {"allow_origin"} ELSE {})

Adds(layer, r) ==
  IF host = "django" /\ layer = "cors" THEN DjangoCors(r) ELSE AsgiAdds(layer, r)

Headers(depth, r) == UNION {Adds(Stack[i], r) : i \in 1 .. depth - 1}

\* A response whose start leaves the given depth.
Response(depth, r, status, retry, complete) ==
  [status   |-> status,
   headers  |-> Headers(depth, r) \cup (IF retry > 0 THEN {"rate_limit"} ELSE {}),
   retry    |-> retry,
   complete |-> complete]

-----------------------------------------------------------------------------
\* A request arrives.

\* The request has not reached the handler.
Answered(depth, status) ==
  /\ answer' = Response(depth, req', status, 0, TRUE)
  /\ UNCHANGED <<at, request_id>>

\* An OPTIONS request under a CORS prefix ends at the CORS layer.
IsPreflight(r) == host # "django" /\ r.cors_path /\ r.method = "OPTIONS"

Preflight == Answered(Depth("cors"), IF OriginAllowed(req') THEN 204 ELSE 403)

\* A Content-Length that is missing or no number is no reason to reject.
Exceeds(r) == r.declared # NoLength /\ r.declared > MaxBytes

TooLarge == Answered(Depth("body_limit"), 413)

Id(r) == IF r.id = NoId THEN "generated" ELSE r.id

Bind ==
  /\ request_id' = Id(req')
  /\ at' = "gate"
  /\ answer' = NoAnswer

Arrive ==
  /\ at = "idle"
  /\ req' \in Requests
  /\ IF IsPreflight(req') THEN Preflight
     ELSE IF Exceeds(req') THEN TooLarge
     ELSE Bind
  /\ seen' = 0 /\ delivered' = 0 /\ told' = 0
  /\ raised' = NoError
  /\ event' = NoEvent
  /\ UNCHANGED host

-----------------------------------------------------------------------------
\* How a request ends.

\* Fault: the context is restored after a complete response only.
Unbind_AfterResponse ==
  request_id' = IF answer'.complete THEN NoId ELSE request_id

\* The finally clauses of bind() and of Django's RequestIdMiddleware.
Unbind == request_id' = NoId

Leave == at' = "idle" /\ Unbind

\* FastAPI: the kit's exception handlers sit next to the application.
FastApiHandler(error, wait) ==
  LET e == FromException(error, wait) IN Response(Application, req, e.status, e.retry, TRUE)

\* DRF's handler and process_exception do the same for Django's views; any
\* other error of a view is a 500 of Django's own before a layer sees it.
DjangoHandler(error, wait) ==
  IF error \in KitErrors
  THEN LET e == FromException(error, wait)
       IN Response(Application, req, e.status, e.retry, TRUE)
  ELSE Response(Application, req, 500, 0, TRUE)

\* The rate-limit layer answers what nobody inside it has caught.
TooMany(wait) == Response(Depth("rate_limit"), req, 429, RetryAfter(wait), TRUE)

\* The outermost layer: kit errors by the table, others as a 500, both without
\* the headers that inner layers add.
Caught(error) ==
  Response(Depth("exceptions"), req,
           IF error \in KitErrors THEN http_status_for(error) ELSE 500, 0, TRUE)

\* The first that catches, from the inside.  A server refuses a second
\* http.response.start, so a response that has begun stays cut off.
ErrorResponse(error, wait) ==
  CASE answer # NoAnswer -> answer
    [] answer = NoAnswer /\ host = "django" -> DjangoHandler(error, wait)
    [] answer = NoAnswer /\ host = "fastapi" /\ error \in KitErrors -> FastApiHandler(error, wait)
    [] answer = NoAnswer /\ host = "asgi" /\ error = "RateLimitError" -> TooMany(wait)
    [] OTHER -> Caught(error)

Raise(error, wait) ==
  /\ answer' = ErrorResponse(error, wait)
  /\ raised' = IF answer = NoAnswer THEN error ELSE raised
  /\ told' = wait
  /\ Leave
  /\ UNCHANGED <<host, req, seen, delivered>>

-----------------------------------------------------------------------------
\* The throttle of a route: the attribute its scope is keyed by must be known.

Required == [global |-> {}, ip |-> {"ip"}, burst |-> {"ip"}, auth |-> {"ip"},
             endpoint |-> {"endpoint"}, user_tier |-> {"user_tier"}]

\* FastAPI's own extractor knows no tier; there may be no client address.
DefaultAttrs(r) == {"endpoint"} \cup (IF r.client THEN {"ip"} ELSE {})

\* The throttle classes for DRF, and an extractor of the caller's.
DrfAttrs(r) == DefaultAttrs(r) \cup (IF r.tier THEN {"user_tier"} ELSE {})

Attrs(r) == IF host = "fastapi" THEN DefaultAttrs(r) ELSE DrfAttrs(r)

\* DRF has no class for the global scope.
Scopes == IF host = "django" THEN DOMAIN Required \ {"global"} ELSE DOMAIN Required

HasKey(scope) == Required[scope] \subseteq Attrs(req)

Admit ==
  /\ at = "gate"
  /\ \E scope \in Scopes : HasKey(scope)
  /\ at' = "app"
  /\ UNCHANGED <<host, req, request_id, seen, delivered, answer, event, raised, told>>

Deny ==
  /\ at = "gate"
  /\ \E scope \in Scopes : HasKey(scope)
  /\ \E wait \in Waits : Raise("RateLimitError", wait)
  /\ UNCHANGED event

NoKey ==
  /\ at = "gate"
  /\ \E scope \in Scopes : ~HasKey(scope)
  /\ Raise("ValidationError", 0)
  /\ UNCHANGED event

-----------------------------------------------------------------------------
\* The handler.

\* Fault: the piece is counted after it has been compared.
Over_Before(piece) == seen > MaxBytes

\* capped_receive: the bytes so far, with this piece.
Over(piece) == seen + piece > MaxBytes

\* The handler asks for the body.  A server delivers no more than was
\* declared.  A piece that is over the limit becomes a disconnect, and so
\* does every later one; Django has no such cap.
Receive(piece) ==
  /\ at = "app"
  /\ seen <= MaxBytes
  /\ req.declared # NoLength => seen + piece <= req.declared
  /\ seen' = seen + piece
  /\ delivered' = IF host # "django" /\ Over(piece) THEN delivered ELSE delivered + piece
  /\ UNCHANGED <<host, at, req, request_id, answer, event, raised, told>>

\* The event that _emit builds.
Event(outcome) == [id |-> request_id, outcome |-> outcome]

\* log_inbound: the handler has returned or raised.  A cancellation leaves
\* no event.
Emit(outcome) == event' = Event(outcome)

\* The first message of a response; Django's views return it whole.
Begin ==
  /\ at = "app"
  /\ answer' = Response(Application, req, 200, 0, host = "django")
  /\ IF host = "django" THEN Leave ELSE at' = "streaming" /\ UNCHANGED request_id
  /\ Emit("success")
  /\ UNCHANGED <<host, req, seen, delivered, raised, told>>

Finish ==
  /\ at = "streaming"
  /\ answer' = [answer EXCEPT !.complete = TRUE]
  /\ Leave
  /\ UNCHANGED <<host, req, seen, delivered, event, raised, told>>

Fails ==
  /\ at \in {"app", "streaming"}
  /\ \E error \in (KitErrors \ {"RateLimitError"}) \cup {"Exception"} : Raise(error, 0)
  /\ IF at = "app" THEN Emit("failure") ELSE UNCHANGED event

\* The task is cancelled: no layer catches it, no response is made.
Cancel ==
  /\ at \in {"gate", "app", "streaming"}
  /\ host # "django"
  /\ UNCHANGED <<host, req, seen, delivered, answer, event, raised, told>>
  /\ Leave

\* The readiness route.

\* A probe that times out or raises counts as unhealthy.
Probes == {"healthy", "unhealthy", "timeout", "raised"}
Probe(result) == result = "healthy"

\* Of any family; without a backend that could fail all is well.
Reduce(results) ==
  IF \A x \in results : Probe(x) THEN "ok"
  ELSE IF \E x \in results : Probe(x) THEN "degraded_but_serving"
  ELSE "degraded"

http_status(status) == IF status = "degraded" THEN 503 ELSE 200

Readyz ==
  /\ at = "app"
  /\ host = "fastapi"
  /\ \E probes \in SUBSET Probes :
       answer' = Response(Application, req, http_status(Reduce(probes)), 0, TRUE)
  /\ Leave
  /\ UNCHANGED <<host, req, seen, delivered, event, raised, told>>

Next ==
  \/ Arrive
  \/ Admit \/ Deny \/ NoKey
  \/ \E piece \in Chunks : Receive(piece)
  \/ Begin \/ Finish \/ Fails \/ Cancel \/ Readyz

Spec == Init /\ [][Next]_vars

-----------------------------------------------------------------------------
\* Properties.

\* docs/LLD.md, the table of statuses: what is not in it is a 500.
Documented ==
  [ValidationError |-> 400, RateLimitError |-> 429, ServiceUnavailableError |-> 503,
   ExternalTimeoutError |-> 504, ExternalServiceError |-> 502]

\* An error that ends a request before its response has begun gets the
\* documented answer on every host, whichever layer catches it; and a denial
\* always says when to come back, no sooner than the throttle has asked for.
AnsweredAsRaised ==
  at = "idle" /\ raised # NoError =>
    /\ answer.complete
    /\ answer.status = IF raised \in DOMAIN Documented THEN Documented[raised] ELSE 500
    /\ raised = "RateLimitError" =>
         /\ "rate_limit" \in answer.headers
         /\ answer.retry >= 1 /\ 2 * answer.retry >= told

\* The handler never gets more of a body than the limit, in whatever pieces
\* it arrives and whatever length was declared.  (Under Django the declared
\* length is all that is looked at.)
BodyWithinLimit ==
  host # "django" \/ req.declared # NoLength => delivered <= MaxBytes

\* Whatever the request before did and however it ended, the handler runs
\* under the id of its own request and its event carries it; between requests
\* there is none, so no record carries the id of a request that is over.
RunsUnderItsOwnId ==
  /\ request_id = IF at = "idle" THEN NoId ELSE Id(req)
  /\ event # NoEvent => event.id = Id(req)
=============================================================================
