-------------------------- MODULE HttpClient_proofs --------------------------
(***************************************************************************)
(* Proofs about HttpClient, for all calls, policies and resolvers.  What   *)
(* is proved does not depend on the breaker: it holds whatever the breaker *)
(* answers and however often register_service replaces it.                 *)
(***************************************************************************)
EXTENDS HttpClient, TLAPS

Phases == {"idle", "sending", "served", "sleeping"}

CallTypes ==
  /\ at \in [Calls -> Phases]
  /\ attempt \in [Calls -> Nat]
  /\ key \in [Calls -> Keys]
  /\ seen \in [Calls -> SUBSET Keys]
  /\ effects \in [Calls -> Nat]
  /\ audits \in [Calls -> Nat]
  /\ pin \in [Calls -> DnsAnswers \cup {{}}]
  /\ peer \in [Calls -> Addresses \cup {NoPeer}]
  /\ dns \in DnsAnswers

\* The server has processed a keyed request as often as it knows its key.
EffectsMatchKeys ==
  \A c \in Calls : key[c] # 0 => effects[c] = IF key[c] \in seen[c] THEN 1 ELSE 0

\* While a call is under way its pin is an answer that has been validated.
PinsAreValidated ==
  BlockPrivate =>
    \A c \in Calls : at[c] # "idle" =>
      /\ pin[c] \in DnsAnswers \ {{}}
      /\ \A a \in pin[c] : ~NonPublic(a)

HttpInv ==
  CallTypes /\ EffectsMatchKeys /\ EveryAttemptAudited /\ PinsAreValidated /\ ConnectsToValidated

\* PickPinned picks one of the addresses it is given.
LEMMA PickPinnedIsPinned ==
  ASSUME NEW s \in DnsAnswers \ {{}}
  PROVE  PickPinned(s) \in s
BY DnsAssumption DEF PickPinned

LEMMA InitHttpInv == HttpInit => HttpInv
BY DnsAssumption
DEF HttpInit, HttpInv, CallTypes, Phases, Keys, EffectsMatchKeys, EveryAttemptAudited,
    InFlight, PinsAreValidated, ConnectsToValidated

\* Steps of the breaker, of the resolver and of register_service.
LEMMA OtherSteps ==
  ASSUME HttpInv, UNCHANGED call_vars, dns' \in DnsAnswers
  PROVE  HttpInv'
BY DEF HttpInv, CallTypes, EffectsMatchKeys, EveryAttemptAudited, InFlight,
       PinsAreValidated, ConnectsToValidated, call_vars

LEMMA RequestKeeps ==
  ASSUME HttpInv, NEW c \in Calls, Request(c)
  PROVE  HttpInv'
<1>1. CallTypes'
  BY DnsAssumption
  DEF HttpInv, CallTypes, Request, Go, Phases, Keys, Pin
<1>2. PinsAreValidated'
  BY DEF HttpInv, CallTypes, PinsAreValidated, Request, Go, Pin, Checked, Validated
<1>3. EffectsMatchKeys' /\ EveryAttemptAudited'
  BY DEF HttpInv, CallTypes, EffectsMatchKeys, EveryAttemptAudited, InFlight, Request, Go
<1>4. ConnectsToValidated'
  BY DEF HttpInv, CallTypes, ConnectsToValidated, Request
<1>5. QED
  BY <1>1, <1>2, <1>3, <1>4 DEF HttpInv

LEMMA ServeKeeps ==
  ASSUME HttpInv, NEW c \in Calls, Serve(c)
  PROVE  HttpInv'
<1>1. PICK a \in Connect(c) : peer' = [peer EXCEPT ![c] = a]
  BY DEF Serve
<1>2. /\ at[c] = "sending" /\ at' = [at EXCEPT ![c] = "served"]
      /\ UNCHANGED <<attempt, key, pin, dns, audits>>
  BY DEF Serve, Go
<1>3. (BlockPrivate /\ ~OwnClient) => ~NonPublic(a)
  <2>1. SUFFICES ASSUME BlockPrivate, ~OwnClient
                 PROVE  ~NonPublic(a)
    OBVIOUS
  <2>2. pin[c] \in DnsAnswers \ {{}} /\ \A b \in pin[c] : ~NonPublic(b)
    BY <1>2, <2>1 DEF HttpInv, PinsAreValidated
  <2>3. a \in pin[c]
    BY <1>1, <2>1, <2>2, PickPinnedIsPinned DEF Connect, Transport
  <2>4. QED
    BY <2>2, <2>3
<1>4. a \in Addresses
  <2>1. CASE Transport = "pinned" /\ pin[c] # {}
    <3>1. pin[c] \in DnsAnswers \ {{}}
      BY <2>1 DEF HttpInv, CallTypes
    <3>2. a \in pin[c]
      BY <1>1, <2>1, <3>1, PickPinnedIsPinned DEF Connect
    <3>3. QED
      BY <3>1, <3>2, DnsAssumption
  <2>2. CASE ~(Transport = "pinned" /\ pin[c] # {})
    BY <1>1, <2>2, DnsAssumption DEF Connect, HttpInv, CallTypes
  <2>3. QED
    BY <2>1, <2>2
<1>5. /\ seen' \in [Calls -> SUBSET Keys]
      /\ effects' \in [Calls -> Nat]
      /\ EffectsMatchKeys'
  BY <1>2 DEF Serve, HttpInv, CallTypes, EffectsMatchKeys
<1>6. CallTypes'
  BY <1>1, <1>2, <1>4, <1>5 DEF HttpInv, CallTypes, Phases
<1>7. EveryAttemptAudited' /\ PinsAreValidated'
  BY <1>2 DEF HttpInv, CallTypes, EveryAttemptAudited, InFlight, PinsAreValidated
<1>8. ConnectsToValidated'
  BY <1>1, <1>3 DEF HttpInv, CallTypes, ConnectsToValidated
<1>9. QED
  BY <1>5, <1>6, <1>7, <1>8 DEF HttpInv

\* A step of a call that sends nothing to the server.
SendsNothing == UNCHANGED <<key, pin, dns, peer, seen, effects>>

\* The end of an attempt, with its event.
LEMMA AttemptEnds ==
  ASSUME HttpInv, NEW c \in Calls, NEW q \in {"idle", "sleeping"},
         InFlight(c), EmitAudit(c), Go(c, q), UNCHANGED attempt, SendsNothing
  PROVE  HttpInv'
<1>1. CallTypes'
  BY DEF HttpInv, CallTypes, Phases, EmitAudit, Go, SendsNothing
<1>2. EveryAttemptAudited'
  BY DEF HttpInv, CallTypes, EveryAttemptAudited, InFlight, EmitAudit, Go
<1>3. EffectsMatchKeys' /\ ConnectsToValidated'
  BY DEF HttpInv, EffectsMatchKeys, ConnectsToValidated, SendsNothing
<1>4. PinsAreValidated'
  BY DEF HttpInv, CallTypes, PinsAreValidated, InFlight, Go, SendsNothing
<1>5. QED
  BY <1>1, <1>2, <1>3, <1>4 DEF HttpInv

LEMMA WakeKeeps ==
  ASSUME HttpInv, NEW c \in Calls, Wake(c)
  PROVE  HttpInv'
<1>1. CallTypes' /\ EveryAttemptAudited'
  BY DEF HttpInv, CallTypes, Phases, EveryAttemptAudited, InFlight, Wake, Go
<1>2. EffectsMatchKeys' /\ ConnectsToValidated' /\ PinsAreValidated'
  BY DEF HttpInv, CallTypes, EffectsMatchKeys, ConnectsToValidated, PinsAreValidated, Wake, Go
<1>3. QED
  BY <1>1, <1>2 DEF HttpInv

LEMMA CancelCallKeeps ==
  ASSUME HttpInv, NEW c \in Calls, CancelCall(c)
  PROVE  HttpInv'
<1>1. CASE InFlight(c)
  BY <1>1, AttemptEnds DEF CancelCall, SendsNothing
<1>2. CASE ~InFlight(c)
  <2>1. CallTypes' /\ EveryAttemptAudited'
    BY <1>2 DEF HttpInv, CallTypes, Phases, EveryAttemptAudited, InFlight, CancelCall, Go
  <2>2. EffectsMatchKeys' /\ ConnectsToValidated' /\ PinsAreValidated'
    BY DEF HttpInv, CallTypes, EffectsMatchKeys, ConnectsToValidated, PinsAreValidated,
           CancelCall, Go
  <2>3. QED
    BY <2>1, <2>2 DEF HttpInv
<1>3. QED
  BY <1>1, <1>2

LEMMA NextHttpInv == HttpInv /\ [HttpNext]_http_vars => HttpInv'
<1> SUFFICES ASSUME HttpInv, [HttpNext]_http_vars
             PROVE  HttpInv'
  OBVIOUS
<1>1. ASSUME NEW c \in Calls, Reject(c) PROVE HttpInv'
  BY <1>1, OtherSteps DEF Reject, HttpInv, CallTypes
<1>2. ASSUME NEW c \in Calls, Respond(c) PROVE HttpInv'
  BY <1>2, AttemptEnds DEF Respond, InFlight, SendsNothing
<1>3. ASSUME NEW c \in Calls, AttemptFails(c) PROVE HttpInv'
  BY <1>3, AttemptEnds DEF AttemptFails, SendsNothing
<1>4. ASSUME NEW c \in Calls, CallFails(c) PROVE HttpInv'
  BY <1>4, AttemptEnds DEF CallFails, SendsNothing
<1>5. CASE Reregister \/ Resolver \/ BreakerAlone
  BY <1>5, OtherSteps DEF Reregister, Resolver, BreakerAlone, HttpInv, CallTypes
<1>6. CASE UNCHANGED http_vars
  BY <1>6, OtherSteps DEF http_vars, HttpInv, CallTypes
<1>7. QED
  BY <1>1, <1>2, <1>3, <1>4, <1>5, <1>6, RequestKeeps, ServeKeeps, WakeKeeps, CancelCallKeeps
  DEF HttpNext, Progress

LEMMA AlwaysHttpInv == HttpSpec => []HttpInv
BY InitHttpInv, NextHttpInv, PTL DEF HttpSpec

\* A request with an idempotency key takes effect at most once, for every
\* retry policy: the key is drawn before the attempts (client.py).
THEOREM KeyedOnce == HttpSpec => []KeyedCallsRunOnce
<1>1. HttpInv => KeyedCallsRunOnce
  BY DEF HttpInv, CallTypes, EffectsMatchKeys, KeyedCallsRunOnce
<1>2. QED
  BY <1>1, AlwaysHttpInv, PTL

\* As many outbound events as attempts that have ended, also when the caller
\* is cancelled (the finally clause of _raw_send).
THEOREM AttemptsAudited == HttpSpec => []EveryAttemptAudited
<1>1. HttpInv => EveryAttemptAudited
  BY DEF HttpInv
<1>2. QED
  BY <1>1, AlwaysHttpInv, PTL

\* Whatever the resolver answers between validation and connection, the
\* peer is a validated address (dns_pin.py).
THEOREM PeersValidated == HttpSpec => []ConnectsToValidated
<1>1. HttpInv => ConnectsToValidated
  BY DEF HttpInv
<1>2. QED
  BY <1>1, AlwaysHttpInv, PTL
=============================================================================
