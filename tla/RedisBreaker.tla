---------------------------- MODULE RedisBreaker ----------------------------
(***************************************************************************)
(* RedisAsyncBreaker (circuit_breaker/redis_impl.py) and its Lua script    *)
(* (circuit_breaker/lua_scripts.py), for one service guarded by several    *)
(* pods.  The state machine is a Redis hash that only the script touches;  *)
(* every pod has a degraded flag and an embedded InMemoryAsyncBreaker (the *)
(* module MemoryBreaker, one instance per pod) that decides while the pod  *)
(* believes Redis is down.                                                 *)
(*                                                                         *)
(* One EVALSHA is one step at Redis.  Redis may be down when it is sent,   *)
(* or go down after executing it and before the reply: both reach the pod  *)
(* as a RedisError, at a moment of its own (ask_error, record_error), when *)
(* Redis may be up again and the pod recovered.                            *)
(*                                                                         *)
(* The script takes "now" from the pod that calls it, so each pod has a    *)
(* constant clock skew.  Timestamps are kept as ages, as in MemoryBreaker. *)
(***************************************************************************)
EXTENDS Integers

CONSTANTS Pods, Calls,
          PodOf,             \* the pod each call is made on
          Skew,              \* how far each pod's clock is ahead, in ticks
          Spread,            \* how far two clocks differ at most
          FailMax, SuccessThreshold, ResetTimeout,  \* BreakerConfig
          Operators,         \* the pods on which reset() may be called
          Exposed,           \* the pods that may lose Redis
          NoPod              \* the writer of last_failure in an absent hash

ASSUME RedisConfigAssumption ==
  /\ FailMax \in Nat \ {0}
  /\ SuccessThreshold \in Nat \ {0}
  /\ ResetTimeout \in Nat

ASSUME ClockAssumption ==
  /\ Skew \in [Pods -> Nat]
  /\ Spread \in 0 .. ResetTimeout
  /\ \A p, q \in Pods : Skew[p] - Skew[q] <= Spread

ASSUME RedisBreakerAssumption ==
  /\ PodOf \in [Calls -> Pods]
  /\ Operators \subseteq Pods
  /\ Exposed \subseteq Pods
  /\ NoPod \notin Pods

VARIABLES hash,      \* the Redis hash
          up,        \* per pod: Redis answers it
          healthy,   \* per pod: _healthy
          pinged,    \* per pod: try_recover has had its ping answered
          resetting, \* per pod: reset() is between the script and the fallback
          fallback,  \* per pod: the fields of _fallback
          pc         \* per call

vars == <<hash, up, healthy, pinged, resetting, fallback, pc>>

MaxAge == ResetTimeout + Spread

HashFields ==
  [state : {"closed", "open", "half_open"},
   failure_count : 0 .. FailMax - 1,
   success_count : 0 .. SuccessThreshold - 1,
   last_failure : 0 .. MaxAge,
   writer : Pods \cup {NoPod}]

Absent == [state |-> "closed", failure_count |-> 0, success_count |-> 0,
           last_failure |-> MaxAge, writer |-> NoPod]

\* The embedded breaker of pod p.  Its calls run in MemoryBreaker's sense
\* while they are "local".
OnPod(p) == {c \in Calls : PodOf[c] = p}

Fallback(p) == INSTANCE MemoryBreaker WITH
  Calls         <- OnPod(p),
  state         <- fallback[p].state,
  failure_count <- fallback[p].failure_count,
  success_count <- fallback[p].success_count,
  opened_at     <- fallback[p].opened_at,
  trip_age      <- 0,  \* the history of an opening is not kept here
  pc            <- [c \in OnPod(p) |-> IF pc[c] = "local" THEN "running" ELSE "idle"]

Unset == -1

FallbackFields ==
  [state : {"closed", "open", "half_open"},
   failure_count : 0 .. FailMax - 1,
   success_count : 0 .. SuccessThreshold - 1,
   opened_at : Unset .. ResetTimeout]

\* A step of the embedded breaker of pod p, and of no other.
FallbackOf(p) == \E f \in FallbackFields : fallback' = [fallback EXCEPT ![p] = f]

Init ==
  /\ hash = Absent
  /\ up = [p \in Pods |-> TRUE]
  /\ healthy = [p \in Pods |-> TRUE]
  /\ pinged = [p \in Pods |-> FALSE]
  /\ resetting = [p \in Pods |-> FALSE]
  /\ fallback = [p \in Pods |-> [state |-> "closed", failure_count |-> 0,
                                 success_count |-> 0, opened_at |-> Unset]]
  /\ pc = [c \in Calls |-> "idle"]

-----------------------------------------------------------------------------
\* The Lua script.  Each operator maps the hash to the hash, for a call that
\* comes from pod p.

Elapsed(h, p) == h.last_failure + Skew[p] - Skew[h.writer]

\* last_failure is read only while the breaker is open and failure_count and
\* success_count only while it is closed and half-open, and entering these
\* states sets them: elsewhere they are forgotten.
WriteState(h) ==
  [h EXCEPT !.failure_count = IF h.state = "closed" THEN @ ELSE 0,
            !.success_count = IF h.state = "half_open" THEN @ ELSE 0,
            !.last_failure = IF h.state = "open" THEN @ ELSE MaxAge,
            !.writer = IF h.state = "open" THEN @ ELSE NoPod]

\* Fault: the first lines of the script also match a half-open breaker.
Prologue_RestartsProbing(h, p) ==
  IF h.state = "half_open" \/ (h.state = "open" /\ Elapsed(h, p) >= ResetTimeout)
  THEN WriteState([h EXCEPT !.state = "half_open", !.success_count = 0])
  ELSE h

\* The first lines of the script, run whatever the action is.
Prologue(h, p) ==
  IF h.state = "open" /\ Elapsed(h, p) >= ResetTimeout
  THEN WriteState([h EXCEPT !.state = "half_open", !.success_count = 0])
  ELSE h

IsAvailable(h) == h.state # "open"

\* Fault: a success that does not find the breaker closed closes it.
RecordSuccess_ClosesOpen(h) ==
  WriteState([h EXCEPT !.state = "closed", !.failure_count = 0])

\* Fault: a success of a closed breaker does not end the row of failures.
RecordSuccess_KeepsFailures(h) ==
  WriteState(
    CASE h.state = "half_open" /\ h.success_count + 1 >= SuccessThreshold ->
           [h EXCEPT !.state = "closed", !.failure_count = 0]
      [] h.state = "half_open" /\ h.success_count + 1 < SuccessThreshold ->
           [h EXCEPT !.success_count = @ + 1]
      [] OTHER -> h)

RecordSuccess(h) ==
  WriteState(
    CASE h.state = "half_open" /\ h.success_count + 1 >= SuccessThreshold ->
           [h EXCEPT !.state = "closed", !.failure_count = 0,
                     !.success_count = @ + 1]
      [] h.state = "half_open" /\ h.success_count + 1 < SuccessThreshold ->
           [h EXCEPT !.success_count = @ + 1]
      [] h.state = "closed" ->
           [h EXCEPT !.failure_count = 0]
      [] OTHER -> h)

\* Fault: the limit is compared before the failure is counted.
Opens_OffByOne(h) ==
  h.state = "half_open" \/ (h.state = "closed" /\ h.failure_count >= FailMax)

Opens(h) ==
  h.state = "half_open" \/ (h.state = "closed" /\ h.failure_count + 1 >= FailMax)

\* A failure that arrives while the breaker is open restarts the cool-down.
RecordFailure(h, p) ==
  WriteState([h EXCEPT !.state = IF Opens(h) THEN "open" ELSE @,
                       !.failure_count = @ + 1,
                       !.last_failure = 0,
                       !.writer = p])

Lua(action, h, p) ==
  LET k == Prologue(h, p)
  IN  CASE action = "is_available"   -> k
        [] action = "record_success" -> RecordSuccess(k)
        [] action = "record_failure" -> RecordFailure(k, p)
        [] action = "reset"          -> Absent

-----------------------------------------------------------------------------
\* One pod's operations.

MarkDegraded(p) == healthy' = [healthy EXCEPT ![p] = FALSE]

\* _fallback.call, up to the await of the guarded function.
CallFallback(c) ==
  LET p == PodOf[c] IN
  /\ FallbackOf(p)
  /\ \/ /\ Fallback(p)!MaybeHalfOpen
        /\ fallback'[p].state # "open"
        /\ pc' = [pc EXCEPT ![c] = "local"]
     \/ /\ Fallback(p)!MaybeHalfOpen
        /\ fallback'[p].state = "open"
        /\ pc' = [pc EXCEPT ![c] = "idle"]

\* call() of a healthy pod: the script is sent.
Ask(c) ==
  /\ pc[c] = "idle"
  /\ healthy[PodOf[c]]
  /\ pc' = [pc EXCEPT ![c] = "asking"]
  /\ UNCHANGED <<hash, up, healthy, pinged, resetting, fallback>>

\* call() of a degraded pod.
AskFallback(c) ==
  /\ pc[c] = "idle"
  /\ ~healthy[PodOf[c]]
  /\ CallFallback(c)
  /\ UNCHANGED <<hash, up, healthy, pinged, resetting>>

\* is_available executes at Redis and is answered.
Answer(c) ==
  /\ pc[c] = "asking"
  /\ up[PodOf[c]]
  /\ hash' = Lua("is_available", hash, PodOf[c])
  /\ pc' = [pc EXCEPT ![c] = IF IsAvailable(hash') THEN "running" ELSE "idle"]
  /\ UNCHANGED <<up, healthy, pinged, resetting, fallback>>

\* The script does not arrive because Redis is out of reach, or it executes
\* and Redis is lost before the reply.
LoseReply(p, action) ==
  /\ \/ ~up[p] /\ UNCHANGED <<hash, up>>
     \/ /\ up[p] /\ p \in Exposed
        /\ hash' = Lua(action, hash, p)
        /\ up' = [up EXCEPT ![p] = FALSE]
  /\ UNCHANGED <<healthy, pinged, resetting, fallback>>

LoseAnswer(c) ==
  /\ pc[c] = "asking"
  /\ LoseReply(PodOf[c], "is_available")
  /\ pc' = [pc EXCEPT ![c] = "ask_error"]

AskFailed(c) ==
  /\ pc[c] = "ask_error"
  /\ MarkDegraded(PodOf[c])
  /\ CallFallback(c)
  /\ UNCHANGED <<hash, up, pinged, resetting>>

\* The guarded function of a call that Redis admitted ends.
End(c, outcome) ==
  /\ pc[c] = "running"
  /\ pc' = [pc EXCEPT ![c] = outcome]
  /\ UNCHANGED <<hash, up, healthy, pinged, resetting, fallback>>

Ignore(c)  == End(c, "idle")
Fail(c)    == End(c, "record_failure")
Succeed(c) == End(c, "record_success")

Recording(c) == pc[c] \in {"record_failure", "record_success"}

\* _record: the outcome goes to Redis even when the pod has degraded since
\* the call was admitted; it is not retried and not told to the fallback.
Record(c) ==
  /\ Recording(c)
  /\ up[PodOf[c]]
  /\ hash' = Lua(pc[c], hash, PodOf[c])
  /\ pc' = [pc EXCEPT ![c] = "idle"]
  /\ UNCHANGED <<up, healthy, pinged, resetting, fallback>>

LoseRecord(c) ==
  /\ Recording(c)
  /\ LoseReply(PodOf[c], pc[c])
  /\ pc' = [pc EXCEPT ![c] = "record_error"]

\* Fault: the outcome that Redis did not confirm is counted locally as well.
RecordFailed_TellsFallback(c) ==
  /\ pc[c] = "record_error"
  /\ MarkDegraded(PodOf[c])
  /\ FallbackOf(PodOf[c])
  /\ Fallback(PodOf[c])!RecordFailure
  /\ pc' = [pc EXCEPT ![c] = "idle"]
  /\ UNCHANGED <<hash, up, pinged, resetting>>

RecordFailed(c) ==
  /\ pc[c] = "record_error"
  /\ MarkDegraded(PodOf[c])
  /\ pc' = [pc EXCEPT ![c] = "idle"]
  /\ UNCHANGED <<hash, up, pinged, resetting, fallback>>

\* The caller is cancelled while it waits for Redis; what the script may have
\* done by then is an Answer or a Record before it.
Cancel(c) ==
  /\ pc[c] = "asking" \/ Recording(c)
  /\ pc' = [pc EXCEPT ![c] = "idle"]
  /\ UNCHANGED <<hash, up, healthy, pinged, resetting, fallback>>

\* The guarded function of a call that the fallback admitted ends.
FallbackEnds(c) ==
  /\ pc[c] = "local"
  /\ FallbackOf(PodOf[c])
  /\ pc' = [pc EXCEPT ![c] = "idle"]
  /\ UNCHANGED <<hash, up, healthy, pinged, resetting>>

FallbackFail(c)    == FallbackEnds(c) /\ Fallback(PodOf[c])!RecordFailure
FallbackSucceed(c) == FallbackEnds(c) /\ Fallback(PodOf[c])!RecordSuccess
FallbackIgnore(c)  == FallbackEnds(c) /\ UNCHANGED fallback

ReadState(p) ==
  /\ \/ /\ healthy[p] /\ up[p]
        /\ hash' = Lua("is_available", hash, p)
        /\ UNCHANGED <<healthy, fallback>>
     \/ /\ healthy[p] /\ ~up[p]
        /\ MarkDegraded(p)
        /\ FallbackOf(p)
        /\ Fallback(p)!MaybeHalfOpen
        /\ UNCHANGED hash
     \/ /\ ~healthy[p]
        /\ FallbackOf(p)
        /\ Fallback(p)!MaybeHalfOpen
        /\ UNCHANGED <<hash, healthy>>
  /\ UNCHANGED <<up, pinged, resetting, pc>>

\* reset(): the hash first; a RedisError degrades the pod and is swallowed.
Reset(p) ==
  /\ p \in Operators /\ ~resetting[p]
  /\ resetting' = [resetting EXCEPT ![p] = TRUE]
  /\ \/ up[p] /\ hash' = Lua("reset", hash, p) /\ UNCHANGED healthy
     \/ ~up[p] /\ MarkDegraded(p) /\ UNCHANGED hash
  /\ UNCHANGED <<up, pinged, fallback, pc>>

ResetFallback(p) ==
  /\ resetting[p]
  /\ resetting' = [resetting EXCEPT ![p] = FALSE]
  /\ FallbackOf(p)
  /\ Fallback(p)!CloseBreaker
  /\ UNCHANGED <<hash, up, healthy, pinged, pc>>

HealthCheck(p) ==
  /\ healthy[p] /\ ~up[p]
  /\ MarkDegraded(p)
  /\ UNCHANGED <<hash, up, pinged, resetting, fallback, pc>>

\* Fault: try_recover returns early for the wrong value of the flag.
Ping_WhenHealthy(p) ==
  /\ healthy[p] /\ ~pinged[p] /\ up[p]
  /\ pinged' = [pinged EXCEPT ![p] = TRUE]
  /\ UNCHANGED <<hash, up, healthy, resetting, fallback, pc>>

\* try_recover: the flag is tested before the ping and set after it.
Ping(p) ==
  /\ ~healthy[p] /\ ~pinged[p] /\ up[p]
  /\ pinged' = [pinged EXCEPT ![p] = TRUE]
  /\ UNCHANGED <<hash, up, healthy, resetting, fallback, pc>>

Recover(p) ==
  /\ pinged[p]
  /\ pinged' = [pinged EXCEPT ![p] = FALSE]
  /\ healthy' = [healthy EXCEPT ![p] = TRUE]
  /\ UNCHANGED <<hash, up, resetting, fallback, pc>>

-----------------------------------------------------------------------------
\* Redis and time.

Outage(p) ==
  /\ p \in Exposed
  /\ up' = [up EXCEPT ![p] = ~@]
  /\ UNCHANGED <<hash, healthy, pinged, resetting, fallback, pc>>

\* EXPIRE: the hash lives ten times reset_timeout from its last write, so an
\* open one is gone no sooner than the slowest clock has seen it cool down.
\* Nothing in the other states measures time: the wait is not modelled there.
Expire ==
  /\ hash # Absent
  /\ hash.state = "open" => hash.last_failure >= MaxAge
  /\ hash' = Absent
  /\ UNCHANGED <<up, healthy, pinged, resetting, fallback, pc>>

Aged(age, limit) == IF age < limit THEN age + 1 ELSE age

Tick ==
  /\ \/ hash.state = "open"
     \/ \E p \in Pods : fallback[p].state = "open"
  /\ hash' = [hash EXCEPT !.last_failure = Aged(@, MaxAge)]
  /\ fallback' = [p \in Pods |->
       IF fallback[p].state # "open" THEN fallback[p]
       ELSE [fallback[p] EXCEPT !.opened_at = Aged(@, ResetTimeout)]]
  /\ UNCHANGED <<up, healthy, pinged, resetting, pc>>

Next ==
  \/ \E c \in Calls :
       \/ Ask(c) \/ AskFallback(c) \/ Answer(c) \/ LoseAnswer(c) \/ AskFailed(c)
       \/ Ignore(c) \/ Fail(c) \/ Succeed(c)
       \/ Record(c) \/ LoseRecord(c) \/ RecordFailed(c) \/ Cancel(c)
       \/ FallbackFail(c) \/ FallbackSucceed(c) \/ FallbackIgnore(c)
  \/ \E p \in Pods :
       \/ ReadState(p) \/ Reset(p) \/ ResetFallback(p)
       \/ HealthCheck(p) \/ Ping(p) \/ Recover(p) \/ Outage(p)
  \/ Expire \/ Tick

Spec == Init /\ [][Next]_vars

\* Tasks are scheduled, time passes, the recovery monitor keeps probing, and
\* clients keep calling and are not cancelled every single time.
Fairness ==
  /\ WF_vars(Tick)
  /\ \A p \in Pods : WF_vars(Ping(p)) /\ WF_vars(Recover(p))
  /\ \A c \in Calls :
       /\ WF_vars(Ask(c)) /\ WF_vars(AskFailed(c)) /\ WF_vars(RecordFailed(c))
       /\ SF_vars(Answer(c)) /\ SF_vars(Succeed(c)) /\ SF_vars(Record(c))
       /\ WF_vars(FallbackFail(c) \/ FallbackSucceed(c) \/ FallbackIgnore(c))

FairSpec == Spec /\ Fairness

-----------------------------------------------------------------------------
\* Properties.

\* Types and ranges.  A closed breaker never rests at fail_max failures, nor a
\* half-open one at success_threshold successes.
TypeOK ==
  /\ hash \in HashFields
  /\ up \in [Pods -> BOOLEAN]
  /\ healthy \in [Pods -> BOOLEAN]
  /\ pinged \in [Pods -> BOOLEAN]
  /\ resetting \in [Pods -> BOOLEAN]
  /\ fallback \in [Pods -> FallbackFields]
  /\ pc \in [Calls -> {"idle", "asking", "ask_error", "running", "record_failure",
                       "record_success", "record_error", "local"}]

\* All pods together see one breaker that keeps the contract, with the
\* cool-down shortened at most by the spread of their clocks: no outcome is
\* counted twice or for a call Redis did not admit, whatever is lost.
Shared == INSTANCE BreakerContract WITH
  mode         <- hash.state,
  streak       <- hash.failure_count + hash.success_count,
  age          <- IF hash.state # "open" THEN 0
                  ELSE IF hash.last_failure < ResetTimeout - Spread
                  THEN hash.last_failure ELSE ResetTimeout - Spread,
  running      <- {c \in Calls : pc[c] \in {"running", "record_failure", "record_success"}},
  ResetTimeout <- ResetTimeout - Spread

SharedImplementsContract == Shared!Spec

\* Each pod's fallback keeps the contract too, across outages that begin and
\* end while its calls run: it hears only of the calls it admitted.
FallbacksKeepContract ==
  [][\A p \in Pods : \/ Fallback(p)!Contract!Next
                     \/ UNCHANGED Fallback(p)!Contract!vars]_vars

\* An outcome that Redis or a fallback confirms has been taken for what it is;
\* only those whose request or reply was lost may be missing.
ConfirmedOutcomesCount ==
  [][\A c \in Calls :
       /\ Record(c) => IF pc[c] = "record_failure" THEN Shared!Failure(c)
                                                   ELSE Shared!Success(c)
       /\ FallbackFail(c) => Fallback(PodOf[c])!Contract!Failure(c)
       /\ FallbackSucceed(c) => Fallback(PodOf[c])!Contract!Success(c)]_vars

\* No pod stays on its fallback once Redis stays up, even though errors of
\* the outage may reach it after it has recovered.
DegradedPodsRecover ==
  <>[](\A p \in Pods : up[p]) => <>[](\A p \in Pods : healthy[p])

\* Once Redis stays up and the service stops failing, the shared breaker ends
\* closed, whatever state the outage left it in.
SharedClosesAfterFailuresStop ==
  (/\ <>[](\A p \in Pods : up[p])
   /\ <>[][\A c \in Calls : ~Fail(c)]_vars) => <>[](hash.state = "closed")
=============================================================================
