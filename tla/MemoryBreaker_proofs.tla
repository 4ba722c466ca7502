------------------------ MODULE MemoryBreaker_proofs ------------------------
(***************************************************************************)
(* Proofs about MemoryBreaker, for every set of calls and every            *)
(* configuration.  The types and the agreement of the fields are proved    *)
(* together, as one inductive invariant; the action property and the       *)
(* refinement of BreakerContract follow from it.                           *)
(***************************************************************************)
EXTENDS MemoryBreaker, TLAPS

IInv == TypeOK /\ FieldsMatchState

\* An age stays in the range of ages and keeps its order when time passes.
LEMMA OlderIsAge ==
  ASSUME NEW a \in 0 .. ResetTimeout, NEW b \in 0 .. ResetTimeout, a <= b
  PROVE  /\ Older(a) \in 0 .. ResetTimeout
         /\ Older(a) <= Older(b)
BY ConfigAssumption DEF Older

LEMMA InitIInv == Init => IInv
BY ConfigAssumption DEF Init, IInv, TypeOK, FieldsMatchState, States, Unset

\* The locked sections keep the invariant of the fields they write.
LEMMA MaybeHalfOpenKeeps ==
  ASSUME IInv, MaybeHalfOpen, pc' \in [Calls -> {"idle", "running", "rejected"}]
  PROVE  IInv'
BY ConfigAssumption
DEF IInv, TypeOK, FieldsMatchState, States, Unset, MaybeHalfOpen, CooledDown

LEMMA RecordFailureKeeps ==
  ASSUME IInv, RecordFailure, pc' \in [Calls -> {"idle", "running", "rejected"}]
  PROVE  IInv'
<1>1. CASE (state = "half_open" \/ AtFailMax) /\ OpenLocked
  BY <1>1, ConfigAssumption
  DEF IInv, TypeOK, FieldsMatchState, States, Unset, OpenLocked
<1>2. CASE /\ state # "half_open" /\ ~AtFailMax
           /\ failure_count' = failure_count + 1
           /\ UNCHANGED <<state, success_count, opened_at, trip_age>>
  BY <1>2, ConfigAssumption
  DEF IInv, TypeOK, FieldsMatchState, States, Unset, AtFailMax
<1>3. QED
  BY <1>1, <1>2 DEF RecordFailure

LEMMA RecordSuccessKeeps ==
  ASSUME IInv, RecordSuccess, pc' \in [Calls -> {"idle", "running", "rejected"}]
  PROVE  IInv'
<1>1. CASE state = "half_open" /\ AtThreshold /\ CloseBreaker
  BY <1>1, ConfigAssumption
  DEF IInv, TypeOK, FieldsMatchState, States, Unset, CloseBreaker
<1>2. CASE /\ state = "half_open" /\ ~AtThreshold
           /\ success_count' = success_count + 1
           /\ UNCHANGED <<state, failure_count, opened_at, trip_age>>
  BY <1>2, ConfigAssumption
  DEF IInv, TypeOK, FieldsMatchState, States, Unset, AtThreshold
<1>3. CASE state # "half_open" /\ ClearFailures
  BY <1>3, ConfigAssumption
  DEF IInv, TypeOK, FieldsMatchState, States, Unset, ClearFailures
<1>4. QED
  BY <1>1, <1>2, <1>3 DEF RecordSuccess

LEMMA NextIInv == IInv /\ [Next]_vars => IInv'
<1> SUFFICES ASSUME IInv, [Next]_vars PROVE IInv'
  OBVIOUS
<1>p. pc \in [Calls -> {"idle", "running", "rejected"}]
  BY DEF IInv, TypeOK
<1>1. ASSUME NEW c \in Calls, Admit(c) PROVE IInv'
  BY <1>1, <1>p, MaybeHalfOpenKeeps DEF Admit
<1>2. ASSUME NEW c \in Calls, ShortCircuit(c) PROVE IInv'
  BY <1>2, <1>p, MaybeHalfOpenKeeps DEF ShortCircuit
<1>3. ASSUME NEW c \in Calls, Fail(c) PROVE IInv'
  BY <1>3, <1>p, RecordFailureKeeps DEF Fail
<1>4. ASSUME NEW c \in Calls, Succeed(c) PROVE IInv'
  BY <1>4, <1>p, RecordSuccessKeeps DEF Succeed
<1>5. ASSUME NEW c \in Calls, Ignore(c) PROVE IInv'
  BY <1>5, <1>p DEF Ignore, IInv, TypeOK, FieldsMatchState
<1>6. CASE ReadState
  BY <1>6, <1>p, MaybeHalfOpenKeeps DEF ReadState
<1>7. CASE Reset
  BY <1>7, ConfigAssumption
  DEF Reset, CloseBreaker, IInv, TypeOK, FieldsMatchState, States, Unset
<1>8. CASE Tick
  <2>1. /\ opened_at \in 0 .. ResetTimeout
        /\ trip_age \in 0 .. ResetTimeout
        /\ opened_at <= trip_age
    BY <1>8, ConfigAssumption DEF Tick, IInv, TypeOK, FieldsMatchState, Unset
  <2>2. /\ opened_at' = Older(opened_at)
        /\ trip_age' = Older(trip_age)
    BY <1>8, <2>1 DEF Tick, Unset
  <2>3. /\ opened_at' \in 0 .. ResetTimeout
        /\ trip_age' \in 0 .. ResetTimeout
        /\ opened_at' <= trip_age'
    BY <2>1, <2>2, OlderIsAge, ConfigAssumption
  <2>4. QED
    BY <1>8, <2>3 DEF Tick, IInv, TypeOK, FieldsMatchState, Unset, States
<1>9. CASE UNCHANGED vars
  BY <1>9 DEF vars, IInv, TypeOK, FieldsMatchState
<1>10. QED
  BY <1>1, <1>2, <1>3, <1>4, <1>5, <1>6, <1>7, <1>8, <1>9 DEF Next

LEMMA Invariance == Spec => []IInv
BY InitIInv, NextIInv, PTL DEF Spec

\* The counters stay below fail_max and success_threshold in every reachable
\* state, whatever calls overlap.
THEOREM TypeCorrect == Spec => []TypeOK
BY Invariance, PTL DEF IInv

\* An open breaker always carries its timestamp, a closed one never does.
THEOREM FieldsAgree == Spec => []FieldsMatchState
BY Invariance, PTL DEF IInv

\* Late outcomes cannot end an opening before reset_timeout.
THEOREM OpeningLasts == Spec => LeavesOpenOnlyCooledDown
<1>1. IInv /\ [Next]_vars
        => [state = "open" /\ state' # "open"
              => trip_age >= ResetTimeout \/ Reset]_vars
  <2> SUFFICES ASSUME IInv, Next, state = "open", state' # "open"
               PROVE  trip_age >= ResetTimeout \/ Reset
    BY DEF vars
  <2>1. CASE MaybeHalfOpen
    BY <2>1, ConfigAssumption
    DEF MaybeHalfOpen, CooledDown, IInv, TypeOK, FieldsMatchState, Unset
  <2>2. CASE RecordFailure
    BY <2>2 DEF RecordFailure, OpenLocked
  <2>3. CASE RecordSuccess
    BY <2>3 DEF RecordSuccess, ClearFailures
  <2>4. QED
    BY <2>1, <2>2, <2>3
    DEF Next, Admit, ShortCircuit, Fail, Succeed, Ignore, ReadState, Tick
<1>2. QED
  BY <1>1, Invariance, PTL DEF Spec, LeavesOpenOnlyCooledDown

-----------------------------------------------------------------------------
\* Refinement.

Inflight == {c \in Calls : pc[c] = "running"}

\* What a call does to the set of calls in flight.
LEMMA InflightGrows ==
  ASSUME IInv, NEW c \in Calls, pc[c] # "running",
         pc' = [pc EXCEPT ![c] = "running"]
  PROVE  c \notin Inflight /\ Inflight' = Inflight \cup {c}
BY DEF IInv, TypeOK, Inflight

LEMMA InflightShrinks ==
  ASSUME IInv, NEW c \in Calls, pc[c] = "running",
         pc' = [pc EXCEPT ![c] = "idle"]
  PROVE  c \in Inflight /\ Inflight' = Inflight \ {c}
BY DEF IInv, TypeOK, Inflight

LEMMA InflightStays ==
  ASSUME IInv, NEW c \in Calls, pc[c] # "running",
         pc' = [pc EXCEPT ![c] = "rejected"]
  PROVE  Inflight' = Inflight
BY DEF IInv, TypeOK, Inflight

\* Half-opening is the contract's own step; otherwise it changes nothing.
LEMMA HalfOpenRefines ==
  ASSUME IInv, MaybeHalfOpen, Inflight' = Inflight
  PROVE  Contract!HalfOpen \/ UNCHANGED Contract!vars
<1>1. CASE CooledDown
  BY <1>1, ConfigAssumption
  DEF MaybeHalfOpen, CooledDown, Inflight, Contract!HalfOpen, IInv, TypeOK, Unset
<1>2. CASE ~CooledDown
  BY <1>2 DEF MaybeHalfOpen, Inflight, Contract!vars
<1>3. QED
  BY <1>1, <1>2

LEMMA AdmitRefines ==
  ASSUME IInv, NEW c \in Calls, Admit(c)
  PROVE  Contract!Admit(c)
<1>1. c \notin Inflight /\ Inflight' = Inflight \cup {c}
  BY InflightGrows DEF Admit
<1>2. CASE CooledDown
  BY <1>1, <1>2, ConfigAssumption
  DEF Admit, MaybeHalfOpen, CooledDown, Inflight, Contract!Admit, IInv, TypeOK, Unset
<1>3. CASE ~CooledDown
  BY <1>1, <1>3 DEF Admit, MaybeHalfOpen, Inflight, Contract!Admit
<1>4. QED
  BY <1>2, <1>3

LEMMA FailRefines ==
  ASSUME IInv, NEW c \in Calls, Fail(c)
  PROVE  Contract!Failure(c)
<1>1. c \in Inflight /\ Inflight' = Inflight \ {c}
  BY InflightShrinks DEF Fail
<1>2. CASE (state = "half_open" \/ AtFailMax) /\ OpenLocked
  BY <1>1, <1>2, ConfigAssumption
  DEF OpenLocked, AtFailMax, Inflight, Contract!Failure, Contract!Trip,
      IInv, TypeOK, States
<1>3. CASE /\ state # "half_open" /\ ~AtFailMax
           /\ failure_count' = failure_count + 1
           /\ UNCHANGED <<state, success_count, opened_at, trip_age>>
  BY <1>1, <1>3, ConfigAssumption
  DEF AtFailMax, Inflight, Contract!Failure, IInv, TypeOK, States
<1>4. QED
  BY <1>2, <1>3 DEF Fail, RecordFailure

LEMMA SucceedRefines ==
  ASSUME IInv, NEW c \in Calls, Succeed(c)
  PROVE  Contract!Success(c)
<1>1. c \in Inflight /\ Inflight' = Inflight \ {c}
  BY InflightShrinks DEF Succeed
<1>2. CASE state = "half_open" /\ AtThreshold /\ CloseBreaker
  BY <1>1, <1>2, ConfigAssumption
  DEF CloseBreaker, AtThreshold, Inflight, Contract!Success, IInv, TypeOK
<1>3. CASE /\ state = "half_open" /\ ~AtThreshold
           /\ success_count' = success_count + 1
           /\ UNCHANGED <<state, failure_count, opened_at, trip_age>>
  BY <1>1, <1>3, ConfigAssumption
  DEF AtThreshold, Inflight, Contract!Success, IInv, TypeOK
<1>4. CASE state # "half_open" /\ ClearFailures
  BY <1>1, <1>4 DEF ClearFailures, Inflight, Contract!Success, IInv, TypeOK, States
<1>5. QED
  BY <1>2, <1>3, <1>4 DEF Succeed, RecordSuccess

LEMMA TickRefines ==
  ASSUME IInv, Tick
  PROVE  Contract!Tick \/ UNCHANGED Contract!vars
<1>1. opened_at \in 0 .. ResetTimeout /\ opened_at' = Older(opened_at)
  BY ConfigAssumption DEF Tick, IInv, TypeOK, FieldsMatchState, Unset
<1>2. CASE opened_at < ResetTimeout
  BY <1>1, <1>2, ConfigAssumption DEF Tick, Older, Contract!Tick, Inflight
<1>3. CASE ~(opened_at < ResetTimeout)
  BY <1>1, <1>3 DEF Tick, Older, Contract!vars, Inflight
<1>4. QED
  BY <1>2, <1>3

\* Every step of the breaker is a step of the contract or leaves it alone.
LEMMA StepRefines == IInv /\ [Next]_vars => [Contract!Next]_(Contract!vars)
<1> SUFFICES ASSUME IInv, [Next]_vars
             PROVE  Contract!Next \/ UNCHANGED Contract!vars
  OBVIOUS
<1>1. ASSUME NEW c \in Calls, Admit(c) PROVE Contract!Next
  BY <1>1, AdmitRefines DEF Contract!Next
<1>2. ASSUME NEW c \in Calls, ShortCircuit(c)
      PROVE  Contract!Next \/ UNCHANGED Contract!vars
  BY <1>2, InflightStays, HalfOpenRefines DEF ShortCircuit, Contract!Next
<1>3. ASSUME NEW c \in Calls, Fail(c) PROVE Contract!Next
  BY <1>3, FailRefines DEF Contract!Next
<1>4. ASSUME NEW c \in Calls, Succeed(c) PROVE Contract!Next
  BY <1>4, SucceedRefines DEF Contract!Next
<1>5. ASSUME NEW c \in Calls, Ignore(c) PROVE Contract!Next
  <2>1. c \in Inflight /\ Inflight' = Inflight \ {c}
    BY <1>5, InflightShrinks DEF Ignore
  <2>2. Contract!Ignored(c)
    BY <1>5, <2>1 DEF Ignore, Contract!Ignored, Inflight
  <2>3. QED
    BY <2>2 DEF Contract!Next
<1>6. ASSUME ReadState PROVE Contract!Next \/ UNCHANGED Contract!vars
  BY <1>6, HalfOpenRefines DEF ReadState, Inflight, Contract!Next
<1>7. ASSUME Reset PROVE Contract!Next
  BY <1>7 DEF Reset, CloseBreaker, Contract!Next, Contract!Reset
<1>8. ASSUME Tick PROVE Contract!Next \/ UNCHANGED Contract!vars
  BY <1>8, TickRefines DEF Contract!Next
<1>9. CASE UNCHANGED vars
  BY <1>9 DEF vars, Contract!vars
<1>10. QED
  BY <1>1, <1>2, <1>3, <1>4, <1>5, <1>6, <1>7, <1>8, <1>9 DEF Next

\* The in-memory breaker implements the contract of base.py.
THEOREM RefinesContract == Spec => ImplementsContract
<1>1. Init => Contract!Init
  BY DEF Init, Contract!Init
<1>2. QED
  BY <1>1, StepRefines, Invariance, PTL DEF Spec, ImplementsContract, Contract!Spec

\* call() reports each outcome as what it is: no failure or success is passed
\* over, in any state of the breaker.
THEOREM OutcomesReported == Spec => OutcomesCount
<1>1. IInv => [\A c \in Calls : /\ Fail(c) => Contract!Failure(c)
                                /\ Succeed(c) => Contract!Success(c)]_vars
  BY FailRefines, SucceedRefines
<1>2. QED
  BY <1>1, Invariance, PTL DEF Spec, OutcomesCount
=============================================================================
