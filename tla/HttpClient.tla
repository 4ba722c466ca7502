----------------------------- MODULE HttpClient -----------------------------
(***************************************************************************)
(* HttpClient.request (http_client/client.py): a request is checked        *)
(* against the SSRF guard and the allow-list, its addresses are pinned and *)
(* its idempotency key is fixed; then it goes through                      *)
(* circuit_breaker(retry(_raw_send)) (decorators.py), which admits it      *)
(* once, sends it as often as the policy of the service allows, and tells  *)
(* the breaker once how it ended.  The breaker is the MemoryBreaker of the *)
(* service.  register_service (registry.py) may replace it, and the policy *)
(* of later calls, while calls go through it.                              *)
(*                                                                         *)
(* An attempt is overtaken while the server has not received it, while its *)
(* response is on the way, and while the retry sleeps.  DNS may change its *)
(* answer at any time.                                                     *)
(***************************************************************************)
EXTENDS MemoryBreaker, Sequences, SequencesExt

CONSTANTS DefaultAttempts, \* settings.defaults.retry.max_attempts
          Registrations, \* the retry overrides that register_service may record
          Excluded,      \* BreakerConfig.excluded_exceptions
          Flags,         \* per address: the flags the ipaddress module gives it
          DnsAnswers,    \* the address sets the resolver may return
          Hosts,         \* the hosts of the URLs, as sequences of labels
          Allowlist,     \* settings.ssrf.outbound_allowlist
          BlockPrivate,  \* settings.ssrf.block_private_ips
          OwnClient      \* the caller has supplied an httpx client

Addresses == DOMAIN Flags

ASSUME RetryAssumption ==
  /\ DefaultAttempts \in Nat \ {0}
  /\ \A o \in Registrations : "max_attempts" \in DOMAIN o => o.max_attempts \in Nat \ {0}
\* An answer is finite, so one of its addresses comes first.
ASSUME DnsAssumption ==
  /\ Addresses \subseteq Nat
  /\ DnsAnswers \subseteq SUBSET Addresses
  /\ \A s \in DnsAnswers : s # {} => \E a \in s : \A b \in s : a <= b

VARIABLES overrides, \* the registry: _overrides of the service
          policy,   \* per request: the RetryPolicy its call began with
          at,       \* per request: "idle", "sending", "served", "sleeping"
          attempt,  \* per request: attempts started
          key,      \* per request: the key in its headers, 0 if none
          pin,      \* per request: pinned_dns
          dns,      \* what the resolver answers now
          peer,     \* history, per request: the address of the last connection
          seen,     \* the server: keys of the requests it has processed
          effects,  \* history, per request: how often the server processed it
          audits    \* history, per request: outbound events emitted

call_vars == <<policy, at, attempt, key, pin, peer, seen, effects, audits>>
breaker_vars == <<state, failure_count, success_count, opened_at, trip_age>>
http_vars == <<vars, call_vars, dns, overrides>>

NoPeer == -1

-----------------------------------------------------------------------------
\* The policy of a service.

Nothing == [c \in {} |-> 0]

\* No override means TransientError and its subclasses.
NormaliseRetryOn(o) == IF "retry_on" \in DOMAIN o THEN o.retry_on ELSE {"TransientError"}

\* get_config: each field from the overrides, else from the defaults.
Policy ==
  [max_attempts |-> IF "max_attempts" \in DOMAIN overrides
                    THEN overrides.max_attempts ELSE DefaultAttempts,
   retry_on     |-> NormaliseRetryOn(overrides)]

HttpInit ==
  /\ Init
  /\ overrides = Nothing
  /\ policy = [c \in Calls |-> Policy]
  /\ at = [c \in Calls |-> "idle"]
  /\ attempt = [c \in Calls |-> 0]
  /\ key = [c \in Calls |-> 0]
  /\ pin = [c \in Calls |-> {}]
  /\ dns \in DnsAnswers
  /\ peer = [c \in Calls |-> NoPeer]
  /\ seen = [c \in Calls |-> {}]
  /\ effects = [c \in Calls |-> 0]
  /\ audits = [c \in Calls |-> 0]

-----------------------------------------------------------------------------
\* The checks before the breaker.

Labels == <<"loopback", "link_local", "multicast", "unspecified", "private", "reserved">>

\* The first label that applies, or "public".
Classify(a) ==
  LET label == SelectSeq(Labels, LAMBDA l : l \in Flags[a])
  IN IF label = <<>> THEN "public" ELSE Head(label)

NonPublic(a) == Classify(a) # "public"

\* resolve_and_validate: every address of the answer must be public.
Validated == ~BlockPrivate \/ (dns # {} /\ \A a \in dns : ~NonPublic(a))

\* assert_allowed_url: "*", a host, or a host with its subdomains.
Allowed(host) ==
  \/ Allowlist = {}
  \/ \E e \in Allowlist :
       \/ e.kind = "any"
       \/ e.kind = "host" /\ host = e.name
       \/ e.kind = "suffix" /\ IsSuffix(e.name, host)

\* _resolve_idempotency_header: an argument or a header of the caller, or a
\* generated key, or none at all; drawn once for all attempts.
Keys == {0, 1}

\* The pin holds for the call, with all its attempts.
Pin == IF BlockPrivate THEN dns ELSE {}

\* The client of an attempt: one of its own, which follows no redirect away
\* from the pinned host, or the caller's.
Transport == IF OwnClient THEN "ordinary" ELSE "pinned"

\* The first of the pinned addresses, in their order as texts.
PickPinned(addresses) == CHOOSE a \in addresses : \A b \in addresses : a <= b

\* Fault: the transport asks the resolver again for every connection.
Connect_Unpinned(c) == dns

\* Where a connection may go.
Connect(c) ==
  IF Transport = "pinned" /\ pin[c] # {} THEN {PickPinned(pin[c])} ELSE dns

-----------------------------------------------------------------------------
\* Errors, with the classes they are instances of.

Mro ==
  [ExternalTimeoutError    |-> {"ExternalTimeoutError", "TransientError", "Exception"},
   TransientError          |-> {"TransientError", "Exception"},
   ServiceUnavailableError |-> {"ServiceUnavailableError", "Exception"},
   RuntimeError            |-> {"RuntimeError", "Exception"},
   ValueError              |-> {"ValueError", "Exception"}]

Covers(classes, error) == classes \cap Mro[error] # {}

\* map_httpx_errors and raise_for_server_error: what each outcome of an
\* attempt raises.  A 4xx raises nothing, it is a response like any other;
\* an exception that is not httpx's passes as it is, also the one of another
\* service's open breaker, which the auth object of the request may raise.
ErrorOf == [timeout |-> "ExternalTimeoutError", http_5xx |-> "ExternalTimeoutError",
            transport |-> "TransientError", nested |-> "ServiceUnavailableError",
            other |-> "RuntimeError", bug |-> "ValueError"]

Errors == {ErrorOf[o] : o \in DOMAIN ErrorOf}

\* retry_on_failure: an empty retry_on stands for every Exception.
RetryOn(c) == IF policy[c].retry_on = {} THEN {"Exception"} ELSE policy[c].retry_on

\* _filter_retry_on drops the class itself; the wrapper raises the error
\* at once even if an ancestor is listed.
FilterRetryOn(classes) == classes \ {"ServiceUnavailableError"}

\* retry(): the error is one to retry, and an attempt is left.
Retries(c, error) ==
  /\ error # "ServiceUnavailableError"
  /\ Covers(FilterRetryOn(RetryOn(c)), error)
  /\ attempt[c] < policy[c].max_attempts

-----------------------------------------------------------------------------
\* A request.

Go(c, phase) == at' = [at EXCEPT ![c] = phase]

\* Validation and allow-list pass.  When they raise, nothing has happened.
Checked == Validated /\ \E h \in Hosts : Allowed(h)

\* The breaker rejects: the attempt is not made and no event is emitted.
Reject(c) ==
  /\ at[c] = "idle"
  /\ Checked
  /\ ShortCircuit(c)
  /\ UNCHANGED <<call_vars, dns, overrides>>

Request(c) ==
  /\ at[c] = "idle"
  /\ Checked
  /\ Admit(c)
  /\ Go(c, "sending")
  /\ attempt' = [attempt EXCEPT ![c] = 1]
  /\ policy' = [policy EXCEPT ![c] = Policy]
  /\ pin' = [pin EXCEPT ![c] = Pin]
  /\ \E k \in Keys : key' = [key EXCEPT ![c] = k]
  /\ seen' = [seen EXCEPT ![c] = {}]
  /\ effects' = [effects EXCEPT ![c] = 0]
  /\ audits' = [audits EXCEPT ![c] = 0]
  /\ peer' = [peer EXCEPT ![c] = NoPeer]
  /\ UNCHANGED <<dns, overrides>>

\* The connection is made and the server processes the request, unless it
\* has seen its key before.
Serve(c) ==
  /\ at[c] = "sending"
  /\ \E a \in Connect(c) : peer' = [peer EXCEPT ![c] = a]
  /\ Go(c, "served")
  /\ IF key[c] # 0 /\ key[c] \in seen[c]
     THEN UNCHANGED <<seen, effects>>
     ELSE /\ seen' = [seen EXCEPT ![c] = @ \cup {key[c]}]
          /\ effects' = [effects EXCEPT ![c] = @ + 1]
  /\ UNCHANGED <<vars, overrides, policy, attempt, key, pin, dns, audits>>

\* The finally clause of _raw_send.
EmitAudit(c) == audits' = [audits EXCEPT ![c] = @ + 1]

\* Fault: the outcome has to be told to the breaker that is registered now.
Tell_Registered(c, outcome) == pc[c] = "running" /\ outcome

\* A breaker that has been replaced is told, and nobody looks at it again.
Tell(c, outcome) == IF pc[c] = "running" THEN outcome ELSE UNCHANGED vars

\* A response that is no 5xx.
Respond(c) ==
  /\ at[c] = "served"
  /\ EmitAudit(c)
  /\ Go(c, "idle")
  /\ Tell(c, Succeed(c))
  /\ UNCHANGED <<overrides, policy, attempt, key, pin, dns, peer, seen, effects>>

InFlight(c) == at[c] \in {"sending", "served"}

\* The attempt fails, before or after the server has processed it, and the
\* retry goes to sleep.
AttemptFails(c) ==
  /\ InFlight(c)
  /\ \E error \in Errors : Retries(c, error)
  /\ EmitAudit(c)
  /\ Go(c, "sleeping")
  /\ UNCHANGED <<vars, overrides, policy, attempt, key, pin, dns, peer, seen, effects>>

\* The last attempt fails, or the error is not one to retry.
CallFails(c) ==
  /\ InFlight(c)
  /\ \E error \in Errors :
       /\ ~Retries(c, error)
       /\ Tell(c, IF Covers(Excluded, error) THEN Ignore(c) ELSE Fail(c))
  /\ EmitAudit(c)
  /\ Go(c, "idle")
  /\ UNCHANGED <<overrides, policy, attempt, key, pin, dns, peer, seen, effects>>

\* Fault: a key is drawn for every attempt.
Wake_NewKey(c) ==
  /\ at[c] = "sleeping"
  /\ Go(c, "sending")
  /\ attempt' = [attempt EXCEPT ![c] = @ + 1]
  /\ key' = [key EXCEPT ![c] = IF @ = 0 THEN 0 ELSE attempt[c] + 1]
  /\ UNCHANGED <<vars, overrides, policy, pin, dns, peer, seen, effects, audits>>

\* The next attempt.  The breaker is not asked again.
Wake(c) ==
  /\ at[c] = "sleeping"
  /\ Go(c, "sending")
  /\ attempt' = [attempt EXCEPT ![c] = @ + 1]
  /\ UNCHANGED <<vars, overrides, policy, key, pin, dns, peer, seen, effects, audits>>

\* Fault: the event is emitted for results and errors only.
CancelCall_Unaudited(c) ==
  /\ at[c] # "idle"
  /\ Go(c, "idle")
  /\ Tell(c, Ignore(c))
  /\ UNCHANGED <<overrides, policy, attempt, key, pin, dns, peer, seen, effects, audits>>

\* The caller is cancelled, in an attempt or between two.
CancelCall(c) ==
  /\ at[c] # "idle"
  /\ IF InFlight(c) THEN EmitAudit(c) ELSE UNCHANGED audits
  /\ Go(c, "idle")
  /\ Tell(c, Ignore(c))
  /\ UNCHANGED <<overrides, policy, attempt, key, pin, dns, peer, seen, effects>>

\* register_service records the overrides and drops the cached breaker; the
\* next call builds a new one.
Reregister ==
  /\ overrides' \in Registrations
  /\ state' = "closed"
  /\ failure_count' = 0
  /\ success_count' = 0
  /\ opened_at' = Unset
  /\ trip_age' = 0
  /\ pc' = [c \in Calls |-> "idle"]
  /\ UNCHANGED <<call_vars, dns>>

Resolver ==
  /\ dns' \in DnsAnswers
  /\ UNCHANGED <<vars, overrides, call_vars>>

BreakerAlone ==
  /\ ReadState \/ Reset \/ Tick
  /\ UNCHANGED <<call_vars, dns, overrides>>

Progress(c) == Serve(c) \/ Respond(c) \/ AttemptFails(c) \/ CallFails(c)

HttpNext ==
  \/ \E c \in Calls :
       \/ Reject(c) \/ Request(c)
       \/ Progress(c) \/ Wake(c) \/ CancelCall(c)
  \/ Reregister \/ Resolver \/ BreakerAlone

\* Attempts end, by the timeout of the client at the latest, and sleeps end.
HttpSpec ==
  /\ HttpInit /\ [][HttpNext]_http_vars
  /\ \A c \in Calls : WF_http_vars(Progress(c)) /\ WF_http_vars(Wake(c))

-----------------------------------------------------------------------------
\* Properties.

\* A request with an idempotency key takes effect at most once on a server
\* that honours the key, although a retry cannot know whether the attempt
\* before it was processed (client.py: the downstream can dedupe).
KeyedCallsRunOnce == \A c \in Calls : key[c] # 0 => effects[c] <= 1

\* Every attempt leaves exactly one outbound event, whether it ends with a
\* response, an error or a cancellation, and with no event for a sleep.
EveryAttemptAudited ==
  \A c \in Calls : audits[c] = IF InFlight(c) THEN attempt[c] - 1 ELSE attempt[c]

\* Every connection goes to an address that was validated, although the
\* resolver may answer differently at each attempt (dns_pin.py).
ConnectsToValidated ==
  BlockPrivate /\ ~OwnClient =>
    \A c \in Calls : peer[c] # NoPeer => ~NonPublic(peer[c])

\* An admitted call ends, whatever the server and the breaker do meanwhile.
EveryCallEnds == \A c \in Calls : at[c] # "idle" ~> at[c] = "idle"
=============================================================================
