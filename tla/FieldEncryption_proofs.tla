------------------------ MODULE FieldEncryption_proofs ------------------------
(***************************************************************************)
(* Proofs about RequestPath and FieldEncryption: about the requests, for   *)
(* every set of hosts and requests, every limit and every way a body may   *)
(* be cut into pieces; about the keys, for every runbook that keeps to     *)
(* RunbookAssumption, every number of processes and rows and every order   *)
(* of restarts, writes and interruptions; and that the cipher changes      *)
(* nothing of what holds of the requests that use it.                      *)
(***************************************************************************)
EXTENDS FieldEncryption, TLAPS

\* What the middleware counts bounds what the handler has got, and a request
\* whose declared length exceeds the limit has not come past the layer.
BodyCounted ==
  /\ seen \in Nat /\ delivered \in Nat
  /\ delivered <= seen
  /\ req \in Requests
  /\ at # "idle" => ~Exceeds(req)

PathInv == RunsUnderItsOwnId /\ BodyCounted /\ BodyWithinLimit

LEMMA InitPathInv == Init => PathInv
BY BodyAssumption DEF Init, PathInv, RunsUnderItsOwnId, BodyCounted, BodyWithinLimit

\* A request arrives: it is answered by a layer, or bound to its id.
LEMMA ArriveKeeps == PathInv /\ Arrive => PathInv'
<1> SUFFICES ASSUME PathInv, Arrive
             PROVE  PathInv'
  OBVIOUS
<1>1. \/ /\ UNCHANGED <<at, request_id>>
      \/ /\ ~Exceeds(req')
         /\ Bind
  BY DEF Arrive, Preflight, TooLarge, Answered
<1>2. RunsUnderItsOwnId'
  BY <1>1 DEF PathInv, Arrive, Bind, RunsUnderItsOwnId, Id
<1>3. BodyCounted' /\ BodyWithinLimit'
  BY <1>1, BodyAssumption
  DEF PathInv, Arrive, Bind, BodyCounted, BodyWithinLimit, Exceeds
<1>4. QED
  BY <1>2, <1>3 DEF PathInv

\* A piece of the body.
LEMMA ReceiveKeeps ==
  ASSUME PathInv, NEW piece \in Chunks, Receive(piece)
  PROVE  PathInv'
<1>1. piece \in Nat /\ seen \in Nat /\ delivered \in Nat /\ MaxBytes \in Nat
  BY BodyAssumption DEF PathInv, BodyCounted
<1>2. RunsUnderItsOwnId'
  BY DEF PathInv, Receive, RunsUnderItsOwnId, Id
<1>3. BodyCounted'
  BY <1>1 DEF PathInv, Receive, BodyCounted, Exceeds
<1>4. BodyWithinLimit'
  <2>1. CASE host = "django"
    <3>1. SUFFICES ASSUME req.declared # NoLength
                   PROVE  delivered' <= MaxBytes
      BY <2>1 DEF BodyWithinLimit, Receive
    <3>2. req.declared \in Nat /\ req.declared <= MaxBytes
      BY <1>1, <3>1, LengthAssumption DEF PathInv, BodyCounted, Receive, Exceeds
    <3>3. QED
      BY <1>1, <2>1, <3>1, <3>2 DEF PathInv, BodyCounted, Receive
  <2>2. CASE host # "django"
    BY <1>1, <2>2 DEF PathInv, BodyCounted, BodyWithinLimit, Receive, Over
  <2>3. QED
    BY <2>1, <2>2
<1>5. QED
  BY <1>2, <1>3, <1>4 DEF PathInv

\* The request ends, with or without an event for its handler.
LEMMA LeaveKeeps ==
  ASSUME PathInv, Leave, at \in {"gate", "app", "streaming"},
         UNCHANGED <<host, req, seen, delivered>>,
         event' = event \/ \E outcome \in {"success", "failure"} : Emit(outcome)
  PROVE  PathInv'
<1>1. RunsUnderItsOwnId'
  BY DEF PathInv, RunsUnderItsOwnId, Leave, Unbind, Emit, Event, Id
<1>2. BodyCounted' /\ BodyWithinLimit'
  BY DEF PathInv, BodyCounted, BodyWithinLimit, Leave, Exceeds
<1>3. QED
  BY <1>1, <1>2 DEF PathInv

LEMMA NextPathInv == PathInv /\ [Next]_vars => PathInv'
<1> SUFFICES ASSUME PathInv, [Next]_vars
             PROVE  PathInv'
  OBVIOUS
<1>1. CASE Admit
  <2>1. RunsUnderItsOwnId'
    BY <1>1 DEF PathInv, RunsUnderItsOwnId, Admit, Id
  <2>2. BodyCounted' /\ BodyWithinLimit'
    BY <1>1 DEF PathInv, BodyCounted, BodyWithinLimit, Admit, Exceeds
  <2>3. QED
    BY <2>1, <2>2 DEF PathInv
<1>2. CASE Deny \/ NoKey
  BY <1>2, LeaveKeeps DEF Deny, NoKey, Raise
<1>3. CASE Fails
  BY <1>3, LeaveKeeps DEF Fails, Raise
<1>4. CASE Begin
  <2>1. CASE host = "django"
    BY <1>4, <2>1, LeaveKeeps DEF Begin
  <2>2. CASE host # "django"
    <3>1. RunsUnderItsOwnId'
      BY <1>4, <2>2 DEF PathInv, RunsUnderItsOwnId, Begin, Emit, Event, Id
    <3>2. BodyCounted' /\ BodyWithinLimit'
      BY <1>4, <2>2 DEF PathInv, BodyCounted, BodyWithinLimit, Begin, Exceeds
    <3>3. QED
      BY <3>1, <3>2 DEF PathInv
  <2>3. QED
    BY <2>1, <2>2
<1>5. CASE Finish \/ Cancel \/ Readyz
  BY <1>5, LeaveKeeps DEF Finish, Cancel, Readyz
<1>6. CASE UNCHANGED vars
  BY <1>6 DEF PathInv, RunsUnderItsOwnId, BodyCounted, BodyWithinLimit, Exceeds, Id, vars
<1>7. QED
  BY <1>1, <1>2, <1>3, <1>4, <1>5, <1>6, ArriveKeeps, ReceiveKeeps DEF Next

-----------------------------------------------------------------------------
\* Errors and their answers.

Errors == KitErrors \cup {"Exception"}

StatusOf(error) == IF error \in DOMAIN Documented THEN Documented[error] ELSE 500

LEMMA MinIs ==
  ASSUME NEW S \in SUBSET Int, NEW m \in S, \A i \in S : m <= i
  PROVE  Min(S) = m
<1>1. \E x \in S : \A y \in S : x <= y
  OBVIOUS
<1>2. Min(S) \in S /\ \A y \in S : Min(S) <= y
  BY <1>1, Zenon DEF Min
<1>3. Min(S) \in Int /\ m \in Int /\ Min(S) <= m /\ m <= Min(S)
  BY <1>2
<1>4. QED
  BY <1>3

\* The first row that fits.
LEMMA FirstRow ==
  ASSUME NEW error, NEW i \in 1 .. 7, IsA(error, HTTP_STATUS_MAP[i][1]),
         \A j \in 1 .. i - 1 : ~IsA(error, HTTP_STATUS_MAP[j][1])
  PROVE  http_status_for(error) = HTTP_STATUS_MAP[i][2]
<1> DEFINE rows == {j \in DOMAIN HTTP_STATUS_MAP : IsA(error, HTTP_STATUS_MAP[j][1])}
<1>1. DOMAIN HTTP_STATUS_MAP = 1 .. 7
  BY DEF HTTP_STATUS_MAP
<1>2. rows \in SUBSET Int /\ i \in rows
  BY <1>1
<1>3. \A j \in rows : i <= j
  BY <1>1
<1> HIDE DEF rows
<1>4. Min(rows) = i /\ rows # {}
  BY <1>2, <1>3, MinIs
<1>5. QED
  BY <1>4 DEF http_status_for, rows

\* The table answers every error of the kit as the documentation says.
LEMMA StatusDocumented ==
  ASSUME NEW error \in KitErrors
  PROVE  http_status_for(error) = StatusOf(error)
<1>1. /\ HTTP_STATUS_MAP[1] = <<"ValidationError", 400>>
      /\ HTTP_STATUS_MAP[2] = <<"RateLimitError", 429>>
      /\ HTTP_STATUS_MAP[3] = <<"ServiceUnavailableError", 503>>
      /\ HTTP_STATUS_MAP[4] = <<"ExternalTimeoutError", 504>>
      /\ HTTP_STATUS_MAP[5] = <<"ExternalServiceError", 502>>
      /\ HTTP_STATUS_MAP[6] = <<"DecryptionError", 500>>
      /\ HTTP_STATUS_MAP[7] = <<"RepositoryError", 500>>
  BY DEF HTTP_STATUS_MAP
<1>2. \A e, class : IsA(e, class) <=>
                      e = class \/ (e = "ExternalTimeoutError" /\ class = "TransientError")
  BY DEF IsA, Parent
<1>3. /\ StatusOf("ValidationError") = 400 /\ StatusOf("RateLimitError") = 429
      /\ StatusOf("ServiceUnavailableError") = 503 /\ StatusOf("ExternalTimeoutError") = 504
      /\ StatusOf("ExternalServiceError") = 502
      /\ StatusOf("TransientError") = 500 /\ StatusOf("RepositoryError") = 500
      /\ StatusOf("DecryptionError") = 500 /\ StatusOf("UnknownBackendError") = 500
      /\ StatusOf("EncryptionConfigError") = 500
  BY DEF StatusOf, Documented
<1>4. CASE \E i \in 1 .. 7 : error = HTTP_STATUS_MAP[i][1]
  <2>1. PICK i \in 1 .. 7 : error = HTTP_STATUS_MAP[i][1]
    BY <1>4
  <2>2. i \in {1, 2, 3, 4, 5, 6, 7}
    BY <2>1
  <2>3. IsA(error, HTTP_STATUS_MAP[i][1])
    BY <2>1 DEF IsA
  <2>4. ASSUME NEW j \in 1 .. i - 1 PROVE ~IsA(error, HTTP_STATUS_MAP[j][1])
    <3>1. j \in {1, 2, 3, 4, 5, 6} /\ j # i
      BY <2>2, <2>4
    <3>2. error # HTTP_STATUS_MAP[j][1] /\ HTTP_STATUS_MAP[j][1] # "TransientError"
      BY <1>1, <2>1, <2>2, <3>1
    <3>3. QED
      BY <1>2, <3>2
  <2>5. http_status_for(error) = HTTP_STATUS_MAP[i][2]
    BY <2>1, <2>3, <2>4, FirstRow
  <2>6. QED
    BY <1>1, <1>3, <2>1, <2>2, <2>5
<1>5. CASE ~\E i \in 1 .. 7 : error = HTTP_STATUS_MAP[i][1]
  <2>1. error \in {"TransientError", "UnknownBackendError", "EncryptionConfigError"}
    BY <1>1, <1>5 DEF KitErrors
  <2>2. DOMAIN HTTP_STATUS_MAP = 1 .. 7
    BY DEF HTTP_STATUS_MAP
  <2>3. \A i \in 1 .. 7 : ~IsA(error, HTTP_STATUS_MAP[i][1])
    BY <1>2, <1>5, <2>1
  <2>4. http_status_for(error) = 500
    BY <2>2, <2>3 DEF http_status_for
  <2>5. QED
    BY <1>3, <2>1, <2>4
<1>6. QED
  BY <1>4, <1>5

\* Retry-After never rounds down.
LEMMA RetryAfterRoundsUp ==
  ASSUME NEW wait \in Nat
  PROVE  RetryAfter(wait) \in Nat /\ RetryAfter(wait) >= 1 /\ 2 * RetryAfter(wait) >= wait
BY DEF RetryAfter

\* What a response says of an error.
Answers(error, wait, response) ==
  /\ response.complete
  /\ response.status = StatusOf(error)
  /\ error = "RateLimitError" =>
       /\ "rate_limit" \in response.headers
       /\ response.retry >= 1 /\ 2 * response.retry >= wait

\* The envelope of a kit error, from whichever layer.
LEMMA EnvelopeAnswers ==
  ASSUME NEW error \in KitErrors, NEW wait \in Nat
  PROVE  LET e == FromException(error, wait)
         IN Answers(error, wait, Response(Application, req, e.status, e.retry, TRUE))
<1> DEFINE e == FromException(error, wait)
<1>1. e.status = StatusOf(error) /\ e.retry = IF error = "RateLimitError" THEN RetryAfter(wait) ELSE 0
  BY StatusDocumented DEF FromException
<1>2. RetryAfter(wait) \in Nat /\ RetryAfter(wait) >= 1 /\ 2 * RetryAfter(wait) >= wait
  BY RetryAfterRoundsUp
<1> HIDE DEF e
<1>3. error = "RateLimitError" => e.retry > 0 /\ e.retry >= 1 /\ 2 * e.retry >= wait
  BY <1>1, <1>2
<1>4. Answers(error, wait, Response(Application, req, e.status, e.retry, TRUE))
  BY <1>1, <1>3 DEF Answers, Response
<1>5. QED
  BY <1>4 DEF e

\* Whichever layer catches the error first, the answer is the documented one.
LEMMA ErrorAnswered ==
  ASSUME host \in Hosts, NEW error \in Errors, NEW wait \in Nat, answer = NoAnswer
  PROVE  Answers(error, wait, ErrorResponse(error, wait))
<1>1. host \in {"asgi", "fastapi", "django"}
  BY HostAssumption
<1>2. error \notin KitErrors => StatusOf(error) = 500 /\ error # "RateLimitError"
  BY DEF Errors, KitErrors, StatusOf, Documented
<1>3. CASE host = "django"
  <2>1. ErrorResponse(error, wait) = DjangoHandler(error, wait)
    BY <1>3 DEF ErrorResponse
  <2>2. CASE error \in KitErrors
    BY <2>1, <2>2, EnvelopeAnswers DEF DjangoHandler
  <2>3. CASE error \notin KitErrors
    BY <1>2, <2>1, <2>3 DEF DjangoHandler, Answers, Response
  <2>4. QED
    BY <2>2, <2>3
<1>4. CASE host = "fastapi" /\ error \in KitErrors
  <2>1. ErrorResponse(error, wait) = FastApiHandler(error, wait)
    BY <1>4 DEF ErrorResponse
  <2>2. QED
    BY <1>4, <2>1, EnvelopeAnswers DEF FastApiHandler
<1>5. CASE host = "asgi" /\ error = "RateLimitError"
  <2>1. ErrorResponse(error, wait) = TooMany(wait)
    BY <1>5 DEF ErrorResponse
  <2>2. RetryAfter(wait) > 0 /\ RetryAfter(wait) >= 1 /\ 2 * RetryAfter(wait) >= wait
    BY RetryAfterRoundsUp
  <2>3. StatusOf(error) = 429
    BY <1>5 DEF StatusOf, Documented
  <2>4. QED
    BY <2>1, <2>2, <2>3 DEF TooMany, Answers, Response
<1>6. CASE \/ host = "asgi" /\ error # "RateLimitError"
           \/ host = "fastapi" /\ error \notin KitErrors
  <2>1. ErrorResponse(error, wait) = Caught(error)
    BY <1>6 DEF ErrorResponse
  <2>2. error # "RateLimitError"
    BY <1>2, <1>6
  <2>3. Caught(error).complete /\ Caught(error).status = StatusOf(error)
    BY <1>2, StatusDocumented DEF Caught, Response
  <2>4. QED
    BY <2>1, <2>2, <2>3 DEF Answers
<1>7. QED
  BY <1>1, <1>3, <1>4, <1>5, <1>6

\* An error ends the request it is raised in.
AnswerInv ==
  /\ host \in Hosts
  /\ at # "idle" => raised = NoError
  /\ AnsweredAsRaised

LEMMA RaiseAnswers ==
  ASSUME AnswerInv, at # "idle", NEW error \in Errors, NEW wait \in Nat, Raise(error, wait)
  PROVE  AnswerInv'
<1>1. host' = host /\ at' = "idle" /\ told' = wait /\ raised = NoError
  BY DEF AnswerInv, Raise, Leave
<1>2. CASE answer # NoAnswer
  BY <1>1, <1>2 DEF AnswerInv, Raise, AnsweredAsRaised
<1>3. CASE answer = NoAnswer
  <2>1. Answers(error, wait, answer') /\ raised' = error
    BY <1>3, ErrorAnswered DEF AnswerInv, Raise
  <2>2. AnsweredAsRaised'
    BY <1>1, <2>1 DEF AnsweredAsRaised, Answers, StatusOf
  <2>3. QED
    BY <1>1, <2>2 DEF AnswerInv
<1>4. QED
  BY <1>2, <1>3

LEMMA NoErrorAnswers ==
  ASSUME AnswerInv, host' = host, raised' = NoError
  PROVE  AnswerInv'
BY DEF AnswerInv, AnsweredAsRaised

LEMMA NextAnswerInv == AnswerInv /\ [Next]_vars => AnswerInv'
<1> SUFFICES ASSUME AnswerInv, [Next]_vars
             PROVE  AnswerInv'
  OBVIOUS
<1>1. CASE Arrive
  BY <1>1, NoErrorAnswers DEF Arrive
<1>2. CASE Deny \/ NoKey
  <2>1. PICK error \in {"RateLimitError", "ValidationError"}, wait \in Nat : Raise(error, wait)
    BY <1>2, BodyAssumption DEF Deny, NoKey
  <2>2. at # "idle" /\ error \in Errors
    BY <1>2 DEF Deny, NoKey, Errors, KitErrors
  <2>3. QED
    BY <2>1, <2>2, RaiseAnswers
<1>3. CASE Fails
  <2>1. PICK error \in (KitErrors \ {"RateLimitError"}) \cup {"Exception"} : Raise(error, 0)
    BY <1>3 DEF Fails
  <2>2. at # "idle" /\ error \in Errors
    BY <1>3 DEF Fails, Errors
  <2>3. QED
    BY <2>1, <2>2, RaiseAnswers
<1>4. CASE \/ Admit \/ Begin \/ Finish \/ Cancel \/ Readyz
           \/ \E piece \in Chunks : Receive(piece)
  <2>1. at # "idle" /\ host' = host /\ raised' = raised
    BY <1>4 DEF Admit, Begin, Finish, Cancel, Readyz, Receive
  <2>2. QED
    BY <2>1, NoErrorAnswers DEF AnswerInv
<1>5. CASE UNCHANGED vars
  BY <1>5 DEF vars, AnswerInv, AnsweredAsRaised
<1>6. QED
  BY <1>1, <1>2, <1>3, <1>4, <1>5 DEF Next

-----------------------------------------------------------------------------
\* The rotation of the keys.

First(i) == Head(KeysOf(i))

\* Rings are the configuration in force or the one before it.
Rings ==
  /\ config \in 1 .. Len(Runbook)
  /\ ring \in [Pods -> {config - 1, config}]
  /\ \A p \in Pods : ring[p] \in 1 .. Len(Runbook)

\* A token is of the configuration in force; a process that has not been
\* restarted knows its key too, or a restarted process has written it.
Readable ==
  /\ secret = [r \in Rows |-> secret[r]]
  /\ \A r \in Rows : secret[r] # Empty =>
       /\ secret[r] \in KeySet(config)
       /\ \A p \in Pods :
            \/ secret[r] \in KeySet(ring[p])
            \/ \E q \in Pods : ring[q] = config /\ secret[r] = First(config)

\* What the job has not left to do is done, and it runs when all processes
\* write with the primary key.
JobDone ==
  Rotates(config) =>
    /\ \A r \in Rows \ todo : secret[r] \in {Empty, First(config)}
    /\ \A r \in Rows \ todo : Deployed

\* The job holds a token that it can re-encrypt.
JobHolds ==
  token # NothingRead =>
    /\ Deployed
    /\ token[1] \in todo \cap Rows
    /\ token[2] # Empty => Configured(Own)

RotationInv == Rings /\ Readable /\ JobDone /\ JobHolds

LEMMA FirstIsKey ==
  ASSUME NEW i \in 1 .. Len(Runbook), KeysOf(i) # <<>>
  PROVE  First(i) \in KeySet(i)
BY RunbookAssumption DEF First, KeySet

LEMMA FirstIsKept ==
  ASSUME NEW i \in 1 .. Len(Runbook), i + 1 \in 1 .. Len(Runbook), KeysOf(i) # <<>>
  PROVE  First(i) \in KeySet(i + 1)
<1>1. Len(Runbook) \in Nat
  BY RunbookAssumption
<1>2. i \in 1 .. Len(Runbook) - 1
  BY <1>1
<1>3. QED
  BY <1>2, FirstIsKey, RunbookAssumption DEF First

LEMMA InitRotationInv == FieldInit => RotationInv
BY FieldAssumption, RunbookAssumption
DEF FieldInit, RotationInv, Rings, Readable, JobDone, JobHolds, Deployed

\* Steps of the requests.
LEMMA RequestsKeep == ASSUME RotationInv, UNCHANGED field_vars PROVE RotationInv'
BY DEF RotationInv, Rings, Readable, JobDone, JobHolds, Deployed, Configured, Keys, field_vars

\* A process stores the empty value, or a token under the primary key of its
\* configuration.
LEMMA StoreKeeps ==
  ASSUME RotationInv, NEW p \in Pods, NEW r \in Rows, Store(p, r)
  PROVE  RotationInv'
<1>1. UNCHANGED <<config, ring, todo, token>>
  BY DEF Store
<1>2. \/ Write(r, Empty)
      \/ Keys(p) # <<>> /\ Write(r, First(ring[p]))
  BY DEF Store, Configured, Encrypt, First, Keys
<1>3. Rings' /\ JobHolds'
  BY <1>1 DEF RotationInv, Rings, JobHolds, Deployed, Configured, Keys
<1>4. CASE Write(r, Empty)
  BY <1>1, <1>3, <1>4 DEF RotationInv, Readable, JobDone, Write, Deployed
<1>5. CASE Keys(p) # <<>> /\ Write(r, First(ring[p]))
  <2>1. First(ring[p]) \in KeySet(ring[p])
    BY <1>5, FirstIsKey DEF RotationInv, Rings, Keys
  <2>2. First(ring[p]) \in KeySet(config)
    <3>1. CASE ring[p] = config
      BY <2>1, <3>1
    <3>2. CASE ring[p] = config - 1
      <4>1. ring[p] + 1 = config
        BY <3>2, RunbookAssumption DEF RotationInv, Rings
      <4>2. QED
        BY <1>5, <4>1, FirstIsKept DEF RotationInv, Rings, Keys
    <3>3. QED
      BY <3>1, <3>2 DEF RotationInv, Rings
  <2>3. ring[p] = config \/ \A q \in Pods : ring[q] # config \/ First(ring[p]) \in KeySet(ring[q])
    BY <2>2
  <2>4. Readable'
    <3>1. secret' = [s \in Rows |-> secret'[s]]
      BY <1>5 DEF RotationInv, Readable, Write
    <3>2. ASSUME NEW s \in Rows, secret'[s] # Empty
          PROVE  /\ secret'[s] \in KeySet(config)
                 /\ \A q \in Pods :
                      \/ secret'[s] \in KeySet(ring[q])
                      \/ \E t \in Pods : ring[t] = config /\ secret'[s] = First(config)
      <4>1. CASE s # r
        BY <1>5, <3>2, <4>1 DEF RotationInv, Readable, Write
      <4>2. CASE s = r
        <5>1. secret'[s] = First(ring[p])
          BY <1>5, <4>2 DEF RotationInv, Readable, Write
        <5>2. CASE ring[p] = config
          BY <2>2, <5>1, <5>2
        <5>3. CASE ring[p] # config
          BY <2>1, <2>2, <5>1, <5>3 DEF RotationInv, Rings
        <5>4. QED
          BY <5>2, <5>3
      <4>3. QED
        BY <4>1, <4>2
    <3>3. QED
      BY <1>1, <3>1, <3>2 DEF Readable
  <2>5. JobDone'
    BY <1>1, <1>5 DEF RotationInv, Readable, JobDone, Deployed, Write
  <2>6. QED
    BY <1>3, <2>4, <2>5 DEF RotationInv
<1>6. QED
  BY <1>2, <1>4, <1>5

LEMMA RestartKeeps ==
  ASSUME RotationInv, NEW p \in Pods, Restart(p)
  PROVE  RotationInv'
<1>1. /\ ring' = [ring EXCEPT ![p] = config]
      /\ ring[p] # config
      /\ UNCHANGED <<config, secret, todo, token>>
  BY DEF Restart
<1>2. Rings'
  BY <1>1 DEF RotationInv, Rings
<1>3. Readable'
  BY <1>1 DEF RotationInv, Rings, Readable
<1>4. JobDone' /\ JobHolds'
  BY <1>1 DEF RotationInv, Rings, JobDone, JobHolds, Deployed, Configured, Keys
<1>5. QED
  BY <1>2, <1>3, <1>4 DEF RotationInv

\* A new configuration.  All processes have the old one; if it was one with
\* two keys, all rows are under its primary key.
LEMMA DeployKeeps ==
  ASSUME RotationInv, Deploy
  PROVE  RotationInv'
<1>1. /\ \A p \in Pods : ring[p] = config
      /\ config \in 1 .. Len(Runbook) /\ config + 1 \in 1 .. Len(Runbook)
      /\ config' = config + 1
      /\ todo = {} /\ todo' = IF Rotates(config + 1) THEN Rows ELSE {}
      /\ UNCHANGED <<ring, secret, token>>
  BY RunbookAssumption DEF Deploy, Deployed, RotationInv, Rings
<1>2. Rings'
  BY <1>1 DEF RotationInv, Rings
<1>3. JobHolds'
  BY <1>1 DEF RotationInv, JobHolds
<1>4. ASSUME NEW r \in Rows, secret[r] # Empty
      PROVE  secret[r] \in KeySet(config) /\ secret[r] \in KeySet(config + 1)
  <2>1. secret[r] \in KeySet(config)
    BY <1>4 DEF RotationInv, Readable
  <2>2. config \in 1 .. Len(Runbook) - 1
    BY <1>1, RunbookAssumption
  <2>3. CASE KeySet(config) \subseteq KeySet(config + 1)
    BY <2>1, <2>3
  <2>4. CASE Rotates(config) /\ Head(KeysOf(config)) \in KeySet(config + 1)
    BY <1>1, <1>4, <2>1, <2>4 DEF RotationInv, JobDone, First
  <2>5. QED
    BY <2>2, <2>3, <2>4, RunbookAssumption
<1>5. Readable'
  BY <1>1, <1>4 DEF RotationInv, Readable
<1>6. JobDone'
  BY <1>1, <1>4 DEF RotationInv, JobDone
<1>7. QED
  BY <1>2, <1>3, <1>5, <1>6 DEF RotationInv

LEMMA JobKeeps ==
  ASSUME RotationInv, (\E r \in Rows : ReadToken(r)) \/ WriteToken \/ JobInterrupted
  PROVE  RotationInv'
<1>1. ASSUME NEW r \in Rows, ReadToken(r) PROVE RotationInv'
  <2>1. /\ UNCHANGED <<config, ring, secret, todo>>
        /\ Deployed /\ r \in todo /\ token' = <<r, secret[r]>>
        /\ secret[r] # Empty => Configured(Own)
    BY <1>1 DEF ReadToken, Decryptable, Configured
  <2>2. JobHolds'
    BY <2>1 DEF JobHolds, Deployed, Configured, Keys
  <2>3. QED
    BY <2>1, <2>2 DEF RotationInv, Rings, Readable, JobDone, Deployed
<1>2. CASE WriteToken
  <2>1. /\ Deployed /\ token[1] \in todo \cap Rows
        /\ token[2] # Empty => Configured(Own)
        /\ \A p \in Pods : ring[p] = config
    BY <1>2 DEF WriteToken, RotationInv, JobHolds, Deployed
  <2>2. /\ UNCHANGED <<config, ring>>
        /\ todo' = todo \ {token[1]}
        /\ token' = NothingRead
        /\ secret' = [secret EXCEPT ![token[1]] = Rotate(Own, token[2])]
    BY <1>2 DEF WriteToken, Write
  <2>3. \/ Rotate(Own, token[2]) = Empty
        \/ Rotate(Own, token[2]) = First(config) /\ First(config) \in KeySet(config)
    BY <2>1, FirstIsKey, FieldAssumption
    DEF Rotate, Encrypt, First, Configured, Keys, RotationInv, Rings
  <2>4. Readable'
    BY <2>1, <2>2, <2>3 DEF RotationInv, Readable
  <2>5. JobDone' /\ JobHolds'
    BY <2>1, <2>2, <2>3 DEF RotationInv, Readable, JobDone, JobHolds, Deployed
  <2>6. QED
    BY <2>2, <2>4, <2>5 DEF RotationInv, Rings
<1>3. CASE JobInterrupted
  BY <1>3 DEF JobInterrupted, RotationInv, Rings, Readable, JobDone, JobHolds
<1>4. QED
  BY <1>1, <1>2, <1>3

LEMMA NextRotationInv == RotationInv /\ [FieldNext]_rotation_vars => RotationInv'
<1> SUFFICES ASSUME RotationInv, [FieldNext]_rotation_vars
             PROVE  RotationInv'
  OBVIOUS
<1>1. CASE Serve \/ StoreFails \/ \E r \in Rows : LoadFails(r)
  BY <1>1, RequestsKeep DEF Serve, StoreFails, LoadFails
<1>2. CASE UNCHANGED rotation_vars
  BY <1>2, RequestsKeep DEF rotation_vars
<1>3. CASE \E r \in Rows : StoreOwn(r)
  BY <1>3, StoreKeeps, FieldAssumption DEF StoreOwn
<1>4. QED
  BY <1>1, <1>2, <1>3, StoreKeeps, RestartKeeps, DeployKeeps, JobKeeps DEF FieldNext

\* Every row can be read by every process with the current keys, in every
\* rotation that follows the runbook (docs/key-rotation.md); a process that
\* cannot has not been restarted, and the token is one of the new primary key.
THEOREM KeysKept == FieldSpec => []RotationKeepsData
<1>1. RotationInv => RotationKeepsData
  <2>1. SUFFICES ASSUME RotationInv, NEW p \in Pods, NEW r \in Rows, ~Decryptable(p, secret[r])
                 PROVE  \E q \in Pods : ring[p] < ring[q] /\ secret[r] = Encrypt(q)
    BY DEF RotationKeepsData
  <2>2. secret[r] # Empty /\ secret[r] \notin KeySet(ring[p])
    BY <2>1 DEF Decryptable, KeySet, Keys
  <2>3. ring[p] # config
    BY <2>1, <2>2 DEF RotationInv, Readable
  <2>4. PICK q \in Pods : ring[q] = config /\ secret[r] = First(config)
    BY <2>1, <2>2 DEF RotationInv, Readable
  <2>5. secret[r] = Encrypt(q)
    BY <2>4 DEF Encrypt, First, Keys
  <2>6. ring[p] < ring[q]
    BY <2>1, <2>3, <2>4, RunbookAssumption DEF RotationInv, Rings
  <2>7. QED
    BY <2>5, <2>6
<1>2. QED
  BY <1>1, InitRotationInv, NextRotationInv, PTL DEF FieldSpec

-----------------------------------------------------------------------------
\* The requests that use the columns.

LEMMA FieldNextPathInv == PathInv /\ [FieldNext]_rotation_vars => PathInv'
<1> SUFFICES ASSUME PathInv, [FieldNext]_rotation_vars
             PROVE  PathInv'
  OBVIOUS
<1>1. CASE Serve
  BY <1>1, NextPathInv DEF Serve
<1>2. CASE StoreFails \/ \E r \in Rows : LoadFails(r)
  BY <1>2, LeaveKeeps DEF StoreFails, LoadFails, Raise
<1>3. CASE UNCHANGED vars
  BY <1>3, NextPathInv
<1>4. QED
  BY <1>1, <1>2, <1>3
  DEF FieldNext, rotation_vars, StoreOwn, Store, ReadToken, WriteToken, JobInterrupted,
      Restart, Deploy

LEMMA AlwaysFieldPathInv == FieldSpec => []PathInv
<1>1. FieldInit => PathInv
  BY InitPathInv DEF FieldInit
<1>2. QED
  BY <1>1, FieldNextPathInv, PTL DEF FieldSpec

\* However requests end (a response, an error of the cipher or any other, a
\* cancellation), the next one runs under its own id, and no id outlives its
\* request (bind() in context.py, RequestIdMiddleware of Django).
THEOREM OwnId == FieldSpec => []RunsUnderItsOwnId
<1>1. PathInv => RunsUnderItsOwnId
  BY DEF PathInv
<1>2. QED
  BY <1>1, AlwaysFieldPathInv, PTL

\* In whatever pieces a body arrives, no more than max_bytes of it reach the
\* handler, except under Django when no length was declared.
THEOREM BodyCapped == FieldSpec => []BodyWithinLimit
<1>1. PathInv => BodyWithinLimit
  BY DEF PathInv
<1>2. QED
  BY <1>1, AlwaysFieldPathInv, PTL

LEMMA FieldNextAnswerInv == AnswerInv /\ [FieldNext]_rotation_vars => AnswerInv'
<1> SUFFICES ASSUME AnswerInv, [FieldNext]_rotation_vars
             PROVE  AnswerInv'
  OBVIOUS
<1>1. CASE Serve
  BY <1>1, NextAnswerInv DEF Serve
<1>2. CASE StoreFails \/ \E r \in Rows : LoadFails(r)
  <2>1. PICK error \in {"DecryptionError", "EncryptionConfigError"} : Raise(error, 0)
    BY <1>2 DEF StoreFails, LoadFails
  <2>2. at # "idle" /\ error \in Errors
    BY <1>2 DEF StoreFails, LoadFails, Errors, KitErrors
  <2>3. QED
    BY <2>1, <2>2, RaiseAnswers
<1>3. CASE UNCHANGED vars
  BY <1>3, NextAnswerInv
<1>4. QED
  BY <1>1, <1>2, <1>3
  DEF FieldNext, rotation_vars, StoreOwn, Store, ReadToken, WriteToken, JobInterrupted,
      Restart, Deploy

\* Whichever layer of whichever host catches an error, the client gets the
\* status the documentation gives it, and with a denial a Retry-After that is
\* no shorter than the wait the throttle asked for (http_status_for, rate_limit
\* headers, exception handlers of the adapters).
THEOREM ErrorsAnswered == FieldSpec => []AnsweredAsRaised
<1>1. FieldInit => AnswerInv
  BY DEF FieldInit, Init, AnswerInv, AnsweredAsRaised
<1>2. AnswerInv => AnsweredAsRaised
  BY DEF AnswerInv
<1>3. QED
  BY <1>1, <1>2, FieldNextAnswerInv, PTL DEF FieldSpec
=============================================================================
