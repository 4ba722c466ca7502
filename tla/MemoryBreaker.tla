--------------------------- MODULE MemoryBreaker ---------------------------
(***************************************************************************)
(* InMemoryAsyncBreaker (circuit_breaker/memory_impl.py) driven by the     *)
(* tasks of one event loop.                                                *)
(*                                                                         *)
(* No section under the breaker's asyncio.Lock awaits anything, so inside  *)
(* one loop each is a single step; _maybe_half_open and the admission test *)
(* of call() are adjacent and uncontended, hence one step too.  The        *)
(* function it guards runs between admission and outcome, where the other  *)
(* calls, reset() and state() interleave: a call can end in another state  *)
(* of the breaker than the one that admitted it.                           *)
(*                                                                         *)
(* Time: _opened_at is compared with the clock only in                     *)
(* now - _opened_at >= reset_timeout, so opened_at holds the age of the    *)
(* timestamp, saturated at ResetTimeout, and Tick makes it older.          *)
(***************************************************************************)
EXTENDS Integers

CONSTANTS Calls,             \* guarded calls (a slot is reused when a call ends)
          FailMax,           \* BreakerConfig.fail_max
          SuccessThreshold,  \* BreakerConfig.success_threshold
          ResetTimeout       \* BreakerConfig.reset_timeout, in ticks

ASSUME ConfigAssumption ==
  /\ FailMax \in Nat \ {0}
  /\ SuccessThreshold \in Nat \ {0}
  /\ ResetTimeout \in Nat

VARIABLES state,          \* _state
          failure_count,  \* _failure_count
          success_count,  \* _success_count
          opened_at,      \* age of _opened_at, or Unset when it is None
          pc,             \* per call: "idle", "running" or "rejected"
          trip_age        \* history: ticks since the breaker last entered OPEN

vars == <<state, failure_count, success_count, opened_at, pc, trip_age>>

Unset == -1

States == {"closed", "open", "half_open"}

Older(age) == IF age < ResetTimeout THEN age + 1 ELSE age

Init ==
  /\ state = "closed"
  /\ failure_count = 0
  /\ success_count = 0
  /\ opened_at = Unset
  /\ pc = [c \in Calls |-> "idle"]
  /\ trip_age = 0

-----------------------------------------------------------------------------
\* The locked sections.

\* Fault: the test looks at the timestamp only, so a half-open breaker
\* starts its probing period again at every call.
CooledDown_AnyState == opened_at # Unset /\ opened_at >= ResetTimeout

CooledDown == state = "open" /\ opened_at # Unset /\ opened_at >= ResetTimeout

MaybeHalfOpen ==
  /\ state' = IF CooledDown THEN "half_open" ELSE state
  /\ success_count' = IF CooledDown THEN 0 ELSE success_count
  /\ UNCHANGED <<failure_count, opened_at, trip_age>>

\* Fault: the breaker opens without a timestamp.
OpenLocked_NoTimestamp ==
  /\ state' = "open"
  /\ success_count' = 0
  /\ failure_count' = 0
  /\ trip_age' = IF state = "open" THEN trip_age ELSE 0
  /\ UNCHANGED opened_at

OpenLocked ==
  /\ state' = "open"
  /\ opened_at' = 0
  /\ success_count' = 0
  /\ failure_count' = 0
  /\ trip_age' = IF state = "open" THEN trip_age ELSE 0

\* Fault: the limit is compared before the failure is counted.
AtFailMax_OffByOne == failure_count >= FailMax

AtFailMax == failure_count + 1 >= FailMax

\* There is no case for OPEN: a failure that arrives while the breaker is
\* open is counted like one that arrives while it is closed.
RecordFailure ==
  \/ /\ state = "half_open" \/ AtFailMax
     /\ OpenLocked
  \/ /\ state # "half_open" /\ ~AtFailMax
     /\ failure_count' = failure_count + 1
     /\ UNCHANGED <<state, success_count, opened_at, trip_age>>

\* Fault: one successful probe is enough.
AtThreshold_FirstSuccess == state = "half_open"

AtThreshold == success_count + 1 >= SuccessThreshold

\* Fault: closing forgets the timestamp of the last opening.
CloseBreaker_KeepsTimestamp ==
  /\ state' = "closed"
  /\ failure_count' = 0
  /\ success_count' = 0
  /\ UNCHANGED <<opened_at, trip_age>>

CloseBreaker ==
  /\ state' = "closed"
  /\ failure_count' = 0
  /\ success_count' = 0
  /\ opened_at' = Unset
  /\ UNCHANGED trip_age

\* Faults: failures are summed up instead of counted in a row; any success
\* is taken as proof that the service is back.
ClearFailures_Never ==
  UNCHANGED <<state, failure_count, success_count, opened_at, trip_age>>
ClearFailures_Closes == CloseBreaker

ClearFailures ==
  /\ failure_count' = 0
  /\ UNCHANGED <<state, success_count, opened_at, trip_age>>

RecordSuccess ==
  \/ /\ state = "half_open" /\ AtThreshold
     /\ CloseBreaker
  \/ /\ state = "half_open" /\ ~AtThreshold
     /\ success_count' = success_count + 1
     /\ UNCHANGED <<state, failure_count, opened_at, trip_age>>
  \/ /\ state # "half_open"
     /\ ClearFailures

-----------------------------------------------------------------------------
\* The operations.

\* call(), up to the await of the guarded function.
Admit(c) ==
  /\ pc[c] # "running"
  /\ MaybeHalfOpen
  /\ state' # "open"
  /\ pc' = [pc EXCEPT ![c] = "running"]

\* call() raises ServiceUnavailableError.
ShortCircuit(c) ==
  /\ pc[c] # "running"
  /\ MaybeHalfOpen
  /\ state' = "open"
  /\ pc' = [pc EXCEPT ![c] = "rejected"]

\* call(), from the end of the guarded function.
Fail(c) ==
  /\ pc[c] = "running"
  /\ RecordFailure
  /\ pc' = [pc EXCEPT ![c] = "idle"]

Succeed(c) ==
  /\ pc[c] = "running"
  /\ RecordSuccess
  /\ pc' = [pc EXCEPT ![c] = "idle"]

\* CancelledError or a class of excluded_exceptions.
Ignore(c) ==
  /\ pc[c] = "running"
  /\ pc' = [pc EXCEPT ![c] = "idle"]
  /\ UNCHANGED <<state, failure_count, success_count, opened_at, trip_age>>

ReadState ==
  /\ MaybeHalfOpen
  /\ UNCHANGED pc

Reset ==
  /\ CloseBreaker
  /\ UNCHANGED pc

Tick ==
  /\ state = "open"
  /\ opened_at' = IF opened_at = Unset THEN Unset ELSE Older(opened_at)
  /\ trip_age' = Older(trip_age)
  /\ UNCHANGED <<state, failure_count, success_count, pc>>

Next ==
  \/ \E c \in Calls : Admit(c) \/ ShortCircuit(c) \/ Fail(c) \/ Succeed(c) \/ Ignore(c)
  \/ ReadState
  \/ Reset
  \/ Tick

Spec == Init /\ [][Next]_vars

\* Time passes, a guarded call ends, clients keep calling, and no client is
\* cancelled every single time.
Fairness ==
  /\ WF_vars(Tick)
  /\ \A c \in Calls :
       /\ WF_vars(Admit(c) \/ ShortCircuit(c))
       /\ WF_vars(Fail(c) \/ Succeed(c) \/ Ignore(c))
       /\ SF_vars(Succeed(c))

FairSpec == Spec /\ Fairness

-----------------------------------------------------------------------------
\* Properties.

\* Types and ranges.  No counter ever rests at its limit: the outcome that
\* reaches fail_max or success_threshold is the one that moves the breaker.
TypeOK ==
  /\ state \in States
  /\ failure_count \in 0 .. FailMax - 1
  /\ success_count \in 0 .. SuccessThreshold - 1
  /\ opened_at \in Unset .. ResetTimeout
  /\ pc \in [Calls -> {"idle", "running", "rejected"}]
  /\ trip_age \in 0 .. ResetTimeout

\* The fields that are written apart in five sections agree.  An open breaker
\* always has the timestamp without which _maybe_half_open returns early and
\* the breaker stays open for good, and it is no older than the opening; a
\* closed one carries nothing over from the last half-open period.
FieldsMatchState ==
  /\ state = "closed" <=> opened_at = Unset
  /\ state # "half_open" => success_count = 0
  /\ state = "open" => opened_at <= trip_age

\* However the calls that were in flight when the breaker opened end, it is
\* left only when reset_timeout has passed since then, or by reset().
LeavesOpenOnlyCooledDown ==
  [][state = "open" /\ state' # "open" => trip_age >= ResetTimeout \/ Reset]_vars

\* The documented state machine, with consecutive outcomes counted.
Contract == INSTANCE BreakerContract WITH
  mode    <- state,
  streak  <- IF state = "closed" THEN failure_count
             ELSE IF state = "half_open" THEN success_count ELSE 0,
  age     <- IF state = "open" THEN opened_at ELSE 0,
  running <- {c \in Calls : pc[c] = "running"}

ImplementsContract == Contract!Spec

\* The contract lets an outcome be lost; this breaker loses none: it takes
\* every failure for a failure and every success for a success, in whatever
\* state they find it, so the failures that open it are consecutive ones.
OutcomesCount ==
  [][\A c \in Calls : /\ Fail(c) => Contract!Failure(c)
                      /\ Succeed(c) => Contract!Success(c)]_vars

\* An open breaker does not stay open: late failures may restart its
\* cool-down, but no new call is admitted to cause more of them.
OpenEnds == state = "open" ~> state # "open"

\* Once the service stops failing the breaker ends closed and stays closed.
ClosesAfterFailuresStop ==
  <>[][\A c \in Calls : ~Fail(c)]_vars => <>[](state = "closed")

\* memory_impl.py:6 and base.py:47: OPEN -> HALF_OPEN reset_timeout seconds
\* after opening, so no call is short-circuited later than that.
HalfOpensOnTime ==
  [][\A c \in Calls :
       (pc[c] # "rejected" /\ pc'[c] = "rejected") => trip_age < ResetTimeout]_vars
=============================================================================
