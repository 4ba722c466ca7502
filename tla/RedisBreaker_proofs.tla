------------------------ MODULE RedisBreaker_proofs ------------------------
(***************************************************************************)
(* Proofs about RedisBreaker, for every set of pods and calls, every       *)
(* configuration and every skew of the clocks.  The shared hash and the    *)
(* fallbacks of the pods are two breakers apart: each has an invariant of  *)
(* its own, and each is shown to keep the contract step by step.           *)
(***************************************************************************)
EXTENDS RedisBreaker, TLAPS

\* What the script forgets: each counter is zero in the states that do not
\* read it, and an open breaker knows whose clock its timestamp is from.
HashOK(h) ==
  /\ h \in HashFields
  /\ h.state # "closed" => h.failure_count = 0
  /\ h.state # "half_open" => h.success_count = 0
  /\ h.state = "open" => h.writer \in Pods

Active == {"running", "record_failure", "record_success"}

Stages == {"idle", "asking", "ask_error", "record_error", "local"} \cup Active

\* The embedded breakers: a breaker that is not closed has its timestamp.
FallbackOK(f) ==
  /\ f \in FallbackFields
  /\ f.state = "closed" <=> f.opened_at = Unset
  /\ f.state # "half_open" => f.success_count = 0

FallbacksOK ==
  /\ fallback \in [Pods -> FallbackFields]
  /\ \A p \in Pods : FallbackOK(fallback[p])

PodTypes ==
  /\ pc \in [Calls -> Stages]
  /\ up \in [Pods -> BOOLEAN] /\ healthy \in [Pods -> BOOLEAN]
  /\ pinged \in [Pods -> BOOLEAN] /\ resetting \in [Pods -> BOOLEAN]

RedisInv == HashOK(hash) /\ FallbacksOK /\ PodTypes

LEMMA Constants ==
  /\ FailMax \in Nat /\ FailMax > 0
  /\ SuccessThreshold \in Nat /\ SuccessThreshold > 0
  /\ ResetTimeout \in Nat /\ Spread \in Nat /\ Spread <= ResetTimeout
  /\ MaxAge = ResetTimeout + Spread /\ MaxAge \in Nat
  /\ Unset = -1 /\ NoPod \notin Pods
BY RedisConfigAssumption, ClockAssumption, RedisBreakerAssumption DEF MaxAge, Unset

-----------------------------------------------------------------------------
\* The script.

\* A hash while the script works on it: a counter may be at its limit.
Drafts ==
  [state : {"closed", "open", "half_open"}, failure_count : Nat, success_count : Nat,
   last_failure : 0 .. MaxAge, writer : Pods \cup {NoPod}]

LEMMA HashIsDraft == \A h : HashOK(h) => h \in Drafts
BY Constants DEF HashOK, HashFields, Drafts

\* write_state keeps what the new state reads and forgets the rest.
LEMMA WriteStateFields ==
  ASSUME NEW h \in Drafts, h.state = "open" => h.writer \in Pods,
         h.state = "closed" => h.failure_count < FailMax,
         h.state = "half_open" => h.success_count < SuccessThreshold
  PROVE  /\ HashOK(WriteState(h)) /\ WriteState(h).state = h.state
         /\ h.state = "closed" => WriteState(h).failure_count = h.failure_count
         /\ h.state = "half_open" => WriteState(h).success_count = h.success_count
         /\ h.state = "open" => WriteState(h).last_failure = h.last_failure
<1> DEFINE w == WriteState(h)
<1>1. w = [h EXCEPT !.failure_count = IF h.state = "closed" THEN h.failure_count ELSE 0,
                    !.success_count = IF h.state = "half_open" THEN h.success_count ELSE 0,
                    !.last_failure = IF h.state = "open" THEN h.last_failure ELSE MaxAge,
                    !.writer = IF h.state = "open" THEN h.writer ELSE NoPod]
  BY DEF WriteState
<1>2. /\ w.state = h.state
      /\ w.failure_count = IF h.state = "closed" THEN h.failure_count ELSE 0
      /\ w.success_count = IF h.state = "half_open" THEN h.success_count ELSE 0
      /\ w.last_failure = IF h.state = "open" THEN h.last_failure ELSE MaxAge
      /\ w.writer = IF h.state = "open" THEN h.writer ELSE NoPod
  BY <1>1 DEF Drafts
<1>3. w = [state |-> w.state, failure_count |-> w.failure_count,
           success_count |-> w.success_count, last_failure |-> w.last_failure,
           writer |-> w.writer]
  BY <1>1 DEF Drafts
<1> HIDE DEF w
<1>4. /\ h.state \in {"closed", "open", "half_open"} /\ h.failure_count \in Nat
      /\ h.success_count \in Nat /\ h.last_failure \in 0 .. MaxAge
      /\ h.writer \in Pods \cup {NoPod}
  BY DEF Drafts
<1>5. /\ w.state \in {"closed", "open", "half_open"} /\ w.failure_count \in 0 .. FailMax - 1
      /\ w.success_count \in 0 .. SuccessThreshold - 1 /\ w.last_failure \in 0 .. MaxAge
      /\ w.writer \in Pods \cup {NoPod}
  BY <1>2, <1>4, Constants
<1>6. w \in HashFields
  BY <1>3, <1>5 DEF HashFields
<1>7. HashOK(w)
  BY <1>2, <1>6 DEF HashOK
<1>8. QED
  BY <1>2, <1>7 DEF w

\* The prologue half-opens a breaker that has cooled down, by the clock of the
\* pod that asks, and otherwise leaves the hash alone.
LEMMA PrologueHalfOpens ==
  ASSUME NEW h, HashOK(h), NEW p \in Pods
  PROVE  /\ HashOK(Prologue(h, p))
         /\ \/ Prologue(h, p) = h
            \/ /\ h.state = "open" /\ h.last_failure >= ResetTimeout - Spread
               /\ Prologue(h, p).state = "half_open"
               /\ Prologue(h, p).failure_count = 0 /\ Prologue(h, p).success_count = 0
<1>1. CASE h.state = "open" /\ Elapsed(h, p) >= ResetTimeout
  <2>1. /\ h.last_failure \in Nat /\ h.writer \in Pods
        /\ Skew[p] \in Nat /\ Skew[h.writer] \in Nat
        /\ Skew[p] - Skew[h.writer] <= Spread
    BY <1>1, Constants, ClockAssumption DEF HashOK, HashFields
  <2>2. h.last_failure + Skew[p] - Skew[h.writer] >= ResetTimeout
    BY <1>1 DEF Elapsed
  <2>3. h.last_failure >= ResetTimeout - Spread
    BY <2>1, <2>2, Constants
  <2>4. Prologue(h, p) = WriteState([h EXCEPT !.state = "half_open", !.success_count = 0])
    BY <1>1 DEF Prologue
  <2>5. /\ HashOK(Prologue(h, p))
        /\ Prologue(h, p).state = "half_open"
        /\ Prologue(h, p).failure_count = 0 /\ Prologue(h, p).success_count = 0
    <3> DEFINE k == [h EXCEPT !.state = "half_open", !.success_count = 0]
    <3>1. h \in Drafts
      BY HashIsDraft
    <3>2. k \in Drafts /\ k.state = "half_open" /\ k.success_count = 0
      BY <3>1 DEF Drafts
    <3> HIDE DEF k
    <3>3. HashOK(WriteState(k)) /\ WriteState(k).state = "half_open"
          /\ WriteState(k).success_count = 0
      BY <3>2, WriteStateFields, Constants
    <3>4. QED
      BY <2>4, <3>3 DEF k, HashOK
  <2>6. QED
    BY <1>1, <2>3, <2>5
<1>2. CASE ~(h.state = "open" /\ Elapsed(h, p) >= ResetTimeout)
  BY <1>2 DEF Prologue
<1>3. QED
  BY <1>1, <1>2

Tripped(k) == k.state = "open" /\ k.last_failure = 0

FailureCounted(h, k) ==
  \/ /\ h.state = "closed" /\ h.failure_count + 1 < FailMax
     /\ k.state = "closed" /\ k.failure_count = h.failure_count + 1
  \/ h.state = "closed" /\ h.failure_count + 1 >= FailMax /\ Tripped(k)
  \/ h.state # "closed" /\ Tripped(k)

SuccessCounted(h, k) ==
  \/ /\ h.state = "half_open" /\ h.success_count + 1 < SuccessThreshold
     /\ k.state = "half_open" /\ k.success_count = h.success_count + 1
  \/ /\ h.state = "half_open" /\ h.success_count + 1 >= SuccessThreshold
     /\ k.state = "closed" /\ k.failure_count = 0
  \/ h.state = "closed" /\ k.state = "closed" /\ k.failure_count = 0
  \/ h.state = "open" /\ k.state = "open" /\ k.last_failure = h.last_failure
  \/ /\ h.state = "open" /\ h.last_failure >= ResetTimeout - Spread
     /\ IF SuccessThreshold <= 1 THEN k.state = "closed" /\ k.failure_count = 0
        ELSE k.state = "half_open" /\ k.success_count = 1

\* A failure counts, opens, or restarts the cool-down.
LEMMA FailureAfterPrologue ==
  ASSUME NEW h, HashOK(h), NEW p \in Pods
  PROVE  HashOK(RecordFailure(h, p)) /\ FailureCounted(h, RecordFailure(h, p))
<1> DEFINE d == [h EXCEPT !.state = IF Opens(h) THEN "open" ELSE h.state,
                          !.failure_count = h.failure_count + 1,
                          !.last_failure = 0, !.writer = p]
<1>1. h \in Drafts
  BY HashIsDraft
<1>2. /\ d.state = IF Opens(h) THEN "open" ELSE h.state
      /\ d.failure_count = h.failure_count + 1 /\ d.success_count = h.success_count
      /\ d.last_failure = 0 /\ d.writer = p
  BY <1>1 DEF Drafts
<1>3. d \in Drafts
  <2>1. /\ h.state \in {"closed", "open", "half_open"} /\ h.failure_count + 1 \in Nat
        /\ 0 \in 0 .. MaxAge
    BY <1>1, Constants DEF Drafts
  <2>2. QED
    BY <1>1, <2>1 DEF Drafts
<1>4. RecordFailure(h, p) = WriteState(d)
  BY DEF RecordFailure
<1> HIDE DEF d
<1>5. h.state = "closed" /\ h.failure_count + 1 < FailMax <=> d.state = "closed"
  <2>1. h.failure_count \in Nat /\ h.state \in {"closed", "open", "half_open"}
    BY <1>1 DEF Drafts
  <2>2. QED
    BY <1>2, <2>1, Constants DEF Opens
<1>6. (h.state = "closed" /\ h.failure_count + 1 < FailMax) \/ d.state = "open"
  <2>1. h.failure_count \in Nat /\ h.state \in {"closed", "open", "half_open"}
    BY <1>1 DEF Drafts
  <2>2. QED
    BY <1>2, <2>1, Constants DEF Opens
<1>7. /\ HashOK(WriteState(d)) /\ WriteState(d).state = d.state
      /\ d.state = "closed" => WriteState(d).failure_count = d.failure_count
      /\ d.state = "open" => WriteState(d).last_failure = d.last_failure
  <2>1. /\ d.state = "open" => d.writer \in Pods
        /\ d.state = "closed" => d.failure_count < FailMax
        /\ ~(d.state = "half_open")
    BY <1>2, <1>5, <1>6
  <2>2. QED
    BY <1>3, <2>1, WriteStateFields
<1>8. FailureCounted(h, WriteState(d))
  <2>1. h.failure_count \in Nat /\ FailMax \in Nat
    BY <1>1, Constants DEF Drafts
  <2>2. QED
    BY <1>2, <1>5, <1>6, <1>7, <2>1 DEF FailureCounted, Tripped
<1>9. QED
  BY <1>4, <1>7, <1>8

\* The script's failure, prologue included.
LEMMA FailureRecorded ==
  ASSUME NEW h, HashOK(h), NEW p \in Pods
  PROVE  /\ HashOK(Lua("record_failure", h, p))
         /\ FailureCounted(h, Lua("record_failure", h, p))
<1> DEFINE k == Prologue(h, p)
<1>1. Lua("record_failure", h, p) = RecordFailure(k, p)
  BY DEF Lua
<1>2. HashOK(k) /\ (k = h \/ (h.state = "open" /\ k.state = "half_open"))
  BY PrologueHalfOpens
<1> HIDE DEF k
<1>3. HashOK(RecordFailure(k, p)) /\ FailureCounted(k, RecordFailure(k, p))
  BY <1>2, FailureAfterPrologue
<1>4. QED
  BY <1>1, <1>2, <1>3 DEF FailureCounted

\* A success ends a row of failures, counts as a probe, or closes.
LEMMA SuccessAfterPrologue ==
  ASSUME NEW h, HashOK(h)
  PROVE  HashOK(RecordSuccess(h)) /\ SuccessCounted(h, RecordSuccess(h))
<1>1. /\ h \in Drafts /\ h.state \in {"closed", "open", "half_open"}
      /\ h.failure_count \in Nat /\ h.success_count \in Nat
      /\ h.state = "open" => h.writer \in Pods
      /\ h.success_count < SuccessThreshold
  <2>1. h \in Drafts
    BY HashIsDraft
  <2>2. h.success_count < SuccessThreshold
    BY Constants DEF HashOK, HashFields
  <2>3. QED
    BY <2>1, <2>2 DEF HashOK, Drafts
<1>2. CASE h.state = "half_open" /\ h.success_count + 1 >= SuccessThreshold
  <2> DEFINE d == [h EXCEPT !.state = "closed", !.failure_count = 0,
                            !.success_count = h.success_count + 1]
  <2>1. d \in Drafts /\ d.state = "closed" /\ d.failure_count = 0
    <3>1. h.success_count + 1 \in Nat /\ 0 \in Nat
      BY <1>1
    <3>2. QED
      BY <1>1, <3>1 DEF Drafts
  <2>2. RecordSuccess(h) = WriteState(d)
    <3>1. ~(h.success_count + 1 < SuccessThreshold) /\ h.state # "closed"
      BY <1>1, <1>2, Constants
    <3>2. QED
      BY <1>2, <3>1 DEF RecordSuccess
  <2> HIDE DEF d
  <2>3. /\ HashOK(WriteState(d)) /\ WriteState(d).state = "closed"
        /\ WriteState(d).failure_count = 0
    BY <2>1, WriteStateFields, Constants
  <2>4. QED
    BY <1>2, <2>2, <2>3 DEF SuccessCounted
<1>3. CASE h.state = "half_open" /\ ~(h.success_count + 1 >= SuccessThreshold)
  <2> DEFINE d == [h EXCEPT !.success_count = h.success_count + 1]
  <2>1. /\ d \in Drafts /\ d.state = "half_open"
        /\ d.success_count = h.success_count + 1
    BY <1>1, <1>3 DEF Drafts
  <2>2. h.success_count + 1 < SuccessThreshold
    BY <1>1, <1>3, Constants
  <2>3. RecordSuccess(h) = WriteState(d)
    BY <1>3, <2>2 DEF RecordSuccess
  <2> HIDE DEF d
  <2>4. /\ HashOK(WriteState(d)) /\ WriteState(d).state = "half_open"
        /\ WriteState(d).success_count = h.success_count + 1
    BY <2>1, <2>2, WriteStateFields
  <2>5. QED
    BY <1>3, <2>2, <2>3, <2>4 DEF SuccessCounted
<1>4. CASE h.state = "closed"
  <2> DEFINE d == [h EXCEPT !.failure_count = 0]
  <2>1. d \in Drafts /\ d.state = "closed" /\ d.failure_count = 0
    BY <1>1, <1>4 DEF Drafts
  <2>2. RecordSuccess(h) = WriteState(d)
    BY <1>4 DEF RecordSuccess
  <2> HIDE DEF d
  <2>3. /\ HashOK(WriteState(d)) /\ WriteState(d).state = "closed"
        /\ WriteState(d).failure_count = 0
    BY <2>1, WriteStateFields, Constants
  <2>4. QED
    BY <1>4, <2>2, <2>3 DEF SuccessCounted
<1>5. CASE h.state = "open"
  <2>1. RecordSuccess(h) = WriteState(h)
    BY <1>5 DEF RecordSuccess
  <2>2. /\ HashOK(WriteState(h)) /\ WriteState(h).state = "open"
        /\ WriteState(h).last_failure = h.last_failure
    BY <1>1, <1>5, WriteStateFields
  <2>3. QED
    BY <1>5, <2>1, <2>2 DEF SuccessCounted
<1>6. QED
  BY <1>1, <1>2, <1>3, <1>4, <1>5

LEMMA SuccessRecorded ==
  ASSUME NEW h, HashOK(h), NEW p \in Pods
  PROVE  /\ HashOK(Lua("record_success", h, p))
         /\ SuccessCounted(h, Lua("record_success", h, p))
<1> DEFINE k == Prologue(h, p)
<1>1. Lua("record_success", h, p) = RecordSuccess(k)
  BY DEF Lua
<1>2. /\ HashOK(k)
      /\ \/ k = h
         \/ /\ h.state = "open" /\ h.last_failure >= ResetTimeout - Spread
            /\ k.state = "half_open" /\ k.success_count = 0
  BY PrologueHalfOpens
<1> HIDE DEF k
<1>3. HashOK(RecordSuccess(k)) /\ SuccessCounted(k, RecordSuccess(k))
  BY <1>2, SuccessAfterPrologue
<1>4. CASE k = h
  BY <1>1, <1>3, <1>4
<1>5. CASE k # h
  <2>1. /\ h.state = "open" /\ h.last_failure >= ResetTimeout - Spread
        /\ k.state = "half_open" /\ k.success_count = 0
    BY <1>2, <1>5
  <2>2. 0 + 1 < SuccessThreshold <=> ~(SuccessThreshold <= 1)
    BY Constants
  <2>3. QED
    BY <1>1, <1>3, <2>1, <2>2, Constants DEF SuccessCounted
<1>6. QED
  BY <1>4, <1>5

-----------------------------------------------------------------------------
\* The embedded breakers, as relations between their fields.

HalfOpens(f, g) ==
  \/ g = f
  \/ /\ f.state = "open" /\ f.opened_at >= ResetTimeout
     /\ g.state = "half_open" /\ g.success_count = 0

Fails(f, g) ==
  \/ /\ f.state # "half_open" /\ f.failure_count + 1 < FailMax
     /\ g.state = f.state /\ g.failure_count = f.failure_count + 1
     /\ g.opened_at = f.opened_at /\ g.success_count = f.success_count
  \/ /\ f.state = "half_open" \/ f.failure_count + 1 >= FailMax
     /\ g.state = "open" /\ g.opened_at = 0

Succeeds(f, g) ==
  \/ /\ f.state = "half_open" /\ f.success_count + 1 >= SuccessThreshold
     /\ g.state = "closed" /\ g.failure_count = 0
  \/ /\ f.state = "half_open" /\ f.success_count + 1 < SuccessThreshold
     /\ g.state = "half_open" /\ g.success_count = f.success_count + 1
  \/ /\ f.state # "half_open"
     /\ g.state = f.state /\ g.failure_count = 0 /\ g.opened_at = f.opened_at

Closes(g) == g.state = "closed" /\ g.failure_count = 0

\* Only one pod's breaker moves, and it stays in its range.
LEMMA OneFallbackMoves ==
  ASSUME RedisInv, NEW p \in Pods, FallbackOf(p)
  PROVE  /\ fallback' \in [Pods -> FallbackFields] /\ fallback'[p] \in FallbackFields
         /\ \A q \in Pods : q # p => fallback'[q] = fallback[q]
BY DEF RedisInv, FallbacksOK, FallbackOf

\* The fields of a breaker determine it.
LEMMA SameFields ==
  ASSUME NEW f \in FallbackFields, NEW g \in FallbackFields,
         f.state = g.state, f.failure_count = g.failure_count,
         f.success_count = g.success_count, f.opened_at = g.opened_at
  PROVE  f = g
BY DEF FallbackFields

LEMMA FallbackTypes ==
  ASSUME NEW f \in FallbackFields
  PROVE  /\ f.state \in {"closed", "open", "half_open"}
         /\ f.failure_count \in Nat /\ f.failure_count < FailMax
         /\ f.success_count \in Nat /\ f.success_count < SuccessThreshold
         /\ f.opened_at \in Int /\ f.opened_at <= ResetTimeout
         /\ f.opened_at # Unset => f.opened_at \in Nat
BY Constants DEF FallbackFields

LEMMA FallbackHalfOpens ==
  ASSUME RedisInv, NEW p \in Pods, FallbackOf(p), Fallback(p)!MaybeHalfOpen
  PROVE  HalfOpens(fallback[p], fallback'[p]) /\ FallbackOK(fallback'[p])
<1> DEFINE f == fallback[p]
           g == fallback'[p]
<1>1. FallbackOK(f) /\ f \in FallbackFields /\ g \in FallbackFields
  BY OneFallbackMoves DEF RedisInv, FallbacksOK
<1>2. CASE Fallback(p)!CooledDown
  <2>1. /\ f.state = "open" /\ f.opened_at # Unset /\ f.opened_at >= ResetTimeout
        /\ g.state = "half_open" /\ g.success_count = 0 /\ g.opened_at = f.opened_at
    BY <1>2 DEF Fallback!MaybeHalfOpen, Fallback!CooledDown, Fallback!Unset, Unset
  <2>2. QED
    BY <1>1, <2>1 DEF HalfOpens, FallbackOK
<1>3. CASE ~Fallback(p)!CooledDown
  <2>1. /\ g.state = f.state /\ g.success_count = f.success_count
        /\ g.opened_at = f.opened_at /\ g.failure_count = f.failure_count
    BY <1>3 DEF Fallback!MaybeHalfOpen
  <2>2. g = f
    BY <1>1, <2>1, SameFields
  <2>3. QED
    BY <1>1, <2>2 DEF HalfOpens
<1>4. QED
  BY <1>2, <1>3

LEMMA FallbackFails ==
  ASSUME RedisInv, NEW p \in Pods, FallbackOf(p), Fallback(p)!RecordFailure
  PROVE  Fails(fallback[p], fallback'[p]) /\ FallbackOK(fallback'[p])
<1> DEFINE f == fallback[p]
           g == fallback'[p]
<1>1. FallbackOK(f) /\ f \in FallbackFields /\ g \in FallbackFields
  BY OneFallbackMoves DEF RedisInv, FallbacksOK
<1>2. CASE (f.state = "half_open" \/ Fallback(p)!AtFailMax) /\ Fallback(p)!OpenLocked
  <2>1. /\ f.state = "half_open" \/ f.failure_count + 1 >= FailMax
        /\ g.state = "open" /\ g.opened_at = 0 /\ g.success_count = 0
    BY <1>2 DEF Fallback!OpenLocked, Fallback!AtFailMax
  <2>2. QED
    BY <1>1, <2>1, Constants DEF Fails, FallbackOK
<1>3. CASE /\ f.state # "half_open" /\ ~Fallback(p)!AtFailMax
           /\ g.failure_count = f.failure_count + 1
           /\ g.state = f.state /\ g.success_count = f.success_count
           /\ g.opened_at = f.opened_at
  <2>1. f.failure_count + 1 < FailMax
    BY <1>1, <1>3, FallbackTypes, Constants DEF Fallback!AtFailMax
  <2>2. QED
    BY <1>1, <1>3, <2>1 DEF Fails, FallbackOK
<1>4. QED
  BY <1>2, <1>3 DEF Fallback!RecordFailure

LEMMA FallbackSucceeds ==
  ASSUME RedisInv, NEW p \in Pods, FallbackOf(p), Fallback(p)!RecordSuccess
  PROVE  Succeeds(fallback[p], fallback'[p]) /\ FallbackOK(fallback'[p])
<1> DEFINE f == fallback[p]
           g == fallback'[p]
<1>1. FallbackOK(f) /\ f \in FallbackFields /\ g \in FallbackFields
  BY OneFallbackMoves DEF RedisInv, FallbacksOK
<1>2. CASE f.state = "half_open" /\ Fallback(p)!AtThreshold /\ Fallback(p)!CloseBreaker
  <2>1. /\ f.success_count + 1 >= SuccessThreshold
        /\ g.state = "closed" /\ g.failure_count = 0 /\ g.success_count = 0
        /\ g.opened_at = Unset
    BY <1>2 DEF Fallback!AtThreshold, Fallback!CloseBreaker, Fallback!Unset, Unset
  <2>2. QED
    BY <1>1, <1>2, <2>1 DEF Succeeds, FallbackOK
<1>3. CASE /\ f.state = "half_open" /\ ~Fallback(p)!AtThreshold
           /\ g.success_count = f.success_count + 1
           /\ g.state = f.state /\ g.opened_at = f.opened_at
  <2>1. f.success_count + 1 < SuccessThreshold
    BY <1>1, <1>3, FallbackTypes, Constants DEF Fallback!AtThreshold
  <2>2. QED
    BY <1>1, <1>3, <2>1 DEF Succeeds, FallbackOK
<1>4. CASE f.state # "half_open" /\ Fallback(p)!ClearFailures
  <2>1. /\ g.state = f.state /\ g.failure_count = 0 /\ g.opened_at = f.opened_at
        /\ g.success_count = f.success_count
    BY <1>4 DEF Fallback!ClearFailures
  <2>2. QED
    BY <1>1, <1>4, <2>1 DEF Succeeds, FallbackOK
<1>5. QED
  BY <1>2, <1>3, <1>4 DEF Fallback!RecordSuccess

LEMMA FallbackCloses ==
  ASSUME RedisInv, NEW p \in Pods, FallbackOf(p), Fallback(p)!CloseBreaker
  PROVE  Closes(fallback'[p]) /\ FallbackOK(fallback'[p])
<1>1. fallback'[p] \in FallbackFields
  BY OneFallbackMoves
<1>2. /\ fallback'[p].state = "closed" /\ fallback'[p].failure_count = 0
      /\ fallback'[p].success_count = 0 /\ fallback'[p].opened_at = Unset
  BY DEF Fallback!CloseBreaker, Fallback!Unset, Unset
<1>3. QED
  BY <1>1, <1>2 DEF Closes, FallbackOK

\* Time passes for a breaker that is open.
LEMMA FallbackAges ==
  ASSUME RedisInv, Tick, NEW p \in Pods
  PROVE  /\ fallback'[p] \in FallbackFields /\ FallbackOK(fallback'[p])
         /\ \/ fallback'[p] = fallback[p]
            \/ /\ fallback[p].state = "open" /\ fallback[p].opened_at < ResetTimeout
               /\ fallback'[p].state = "open"
               /\ fallback'[p].opened_at = fallback[p].opened_at + 1
<1> DEFINE f == fallback[p]
           g == fallback'[p]
           a == Aged(f.opened_at, ResetTimeout)
<1>1. FallbackOK(f) /\ f \in FallbackFields
  BY DEF RedisInv, FallbacksOK
<1>2. g = IF f.state # "open" THEN f ELSE [f EXCEPT !.opened_at = a]
  BY DEF Tick
<1>3. CASE f.state # "open" \/ f.opened_at >= ResetTimeout
  <2>1. f.state = "open" => a = f.opened_at
    BY <1>1, <1>3, FallbackTypes, Constants DEF Aged
  <2> HIDE DEF a
  <2>2. g = f
    BY <1>1, <1>2, <2>1 DEF FallbackFields
  <2>3. QED
    BY <1>1, <2>2
<1>4. CASE f.state = "open" /\ ~(f.opened_at >= ResetTimeout)
  <2>1. f.opened_at \in Nat /\ f.opened_at < ResetTimeout /\ a = f.opened_at + 1
    BY <1>1, <1>4, FallbackTypes, Constants DEF FallbackOK, Aged
  <2>2. a \in Unset .. ResetTimeout /\ a # Unset
    BY <2>1, Constants
  <2> HIDE DEF a
  <2>3. g = [f EXCEPT !.opened_at = a]
    BY <1>2, <1>4
  <2>4. g \in FallbackFields
    BY <1>1, <2>2, <2>3 DEF FallbackFields
  <2>5. /\ g.state = "open" /\ g.opened_at = a
        /\ g.success_count = f.success_count
    BY <1>1, <1>4, <2>3 DEF FallbackFields
  <2>6. QED
    BY <1>1, <1>4, <2>1, <2>2, <2>4, <2>5 DEF FallbackOK
<1>5. QED
  BY <1>3, <1>4

-----------------------------------------------------------------------------
\* The invariant.

LEMMA AbsentIsOK == HashOK(Absent) /\ Absent.state = "closed"
                    /\ Absent.failure_count = 0 /\ Absent.success_count = 0
BY Constants DEF HashOK, Absent, HashFields

LEMMA InitRedisInv == Init => RedisInv
<1> SUFFICES ASSUME Init PROVE RedisInv
  OBVIOUS
<1>1. HashOK(hash)
  BY AbsentIsOK DEF Init
<1>2. FallbacksOK
  BY Constants DEF Init, FallbacksOK, FallbackOK, FallbackFields
<1>3. PodTypes
  BY DEF Init, PodTypes, Stages, Active
<1>4. QED
  BY <1>1, <1>2, <1>3 DEF RedisInv

\* What a script does to the hash, whether or not its reply arrives.
LEMMA ScriptKeepsHash ==
  ASSUME RedisInv, NEW p \in Pods,
         NEW action \in {"is_available", "record_failure", "record_success", "reset"}
  PROVE  HashOK(Lua(action, hash, p))
<1>1. CASE action = "is_available"
  BY <1>1, PrologueHalfOpens DEF Lua, RedisInv
<1>2. CASE action = "record_failure"
  BY <1>2, FailureRecorded DEF RedisInv
<1>3. CASE action = "record_success"
  BY <1>3, SuccessRecorded DEF RedisInv
<1>4. CASE action = "reset"
  BY <1>4, AbsentIsOK DEF Lua
<1>5. QED
  BY <1>1, <1>2, <1>3, <1>4

CallAsks(c) == Ask(c) \/ Answer(c) \/ LoseAnswer(c)
CallFallsBack(c) == AskFallback(c) \/ AskFailed(c)
CallEnds(c) == Ignore(c) \/ Fail(c) \/ Succeed(c) \/ Cancel(c) \/ RecordFailed(c)
CallRecords(c) == Record(c) \/ LoseRecord(c)
CallEndsLocally(c) == FallbackFail(c) \/ FallbackSucceed(c) \/ FallbackIgnore(c)
CallNext(c) == \/ CallAsks(c) \/ CallFallsBack(c) \/ CallEnds(c) \/ CallRecords(c)
               \/ CallEndsLocally(c)

PodNext(p) == \/ ReadState(p) \/ Reset(p) \/ ResetFallback(p)
              \/ HealthCheck(p) \/ Ping(p) \/ Recover(p) \/ Outage(p)

LEMMA NextCases ==
  Next <=> (\E c \in Calls : CallNext(c)) \/ (\E p \in Pods : PodNext(p)) \/ Expire \/ Tick
BY DEF Next, CallNext, CallAsks, CallFallsBack, CallEnds, CallRecords, CallEndsLocally, PodNext

LEMMA HashKept ==
  ASSUME RedisInv, [Next]_vars
  PROVE  HashOK(hash')
<1>0. HashOK(hash) /\ \A c \in Calls : PodOf[c] \in Pods
  BY RedisBreakerAssumption DEF RedisInv
<1>1. ASSUME NEW c \in Calls, CallNext(c) PROVE HashOK(hash')
  <2>1. CASE Ask(c) \/ CallFallsBack(c) \/ CallEnds(c) \/ CallEndsLocally(c)
    <3>1. UNCHANGED hash
      BY <2>1 DEF Ask, CallFallsBack, AskFallback, AskFailed, CallEnds, Ignore, Fail, Succeed,
         End, Cancel, RecordFailed, CallEndsLocally, FallbackFail, FallbackSucceed,
         FallbackIgnore, FallbackEnds
    <3>2. QED
      BY <1>0, <3>1
  <2>2. CASE Answer(c) \/ LoseAnswer(c)
    <3>1. hash' = hash \/ hash' = Lua("is_available", hash, PodOf[c])
      BY <2>2 DEF Answer, LoseAnswer, LoseReply
    <3>2. QED
      BY <1>0, <3>1, ScriptKeepsHash
  <2>3. CASE CallRecords(c)
    <3>1. /\ pc[c] \in {"record_failure", "record_success"}
          /\ hash' = hash \/ hash' = Lua(pc[c], hash, PodOf[c])
      BY <2>3 DEF CallRecords, Record, LoseRecord, LoseReply, Recording
    <3>2. QED
      BY <1>0, <3>1, ScriptKeepsHash
  <2>4. QED
    BY <1>1, <2>1, <2>2, <2>3 DEF CallNext, CallAsks
<1>2. ASSUME NEW p \in Pods, PodNext(p) PROVE HashOK(hash')
  <2>1. \/ hash' = hash \/ hash' = Lua("is_available", hash, p)
        \/ hash' = Lua("reset", hash, p)
    BY <1>2 DEF PodNext, ReadState, Reset, ResetFallback, HealthCheck, Ping, Recover, Outage
  <2>2. QED
    BY <1>0, <2>1, ScriptKeepsHash
<1>3. CASE Expire
  BY <1>3, AbsentIsOK DEF Expire
<1>4. CASE Tick
  <2>1. Aged(hash.last_failure, MaxAge) \in 0 .. MaxAge
    BY <1>0, Constants DEF HashOK, HashFields, Aged
  <2>2. hash' = [hash EXCEPT !.last_failure = Aged(hash.last_failure, MaxAge)]
    BY <1>4 DEF Tick
  <2>3. hash' \in HashFields
    BY <1>0, <2>1, <2>2 DEF HashOK, HashFields
  <2>4. /\ hash'.state = hash.state /\ hash'.failure_count = hash.failure_count
        /\ hash'.success_count = hash.success_count /\ hash'.writer = hash.writer
    BY <1>0, <2>2 DEF HashOK, HashFields
  <2>5. QED
    BY <1>0, <2>3, <2>4 DEF HashOK
<1>5. CASE UNCHANGED vars
  BY <1>0, <1>5 DEF vars
<1>6. QED
  BY <1>1, <1>2, <1>3, <1>4, <1>5, NextCases

LEMMA OthersStayOK ==
  ASSUME RedisInv, NEW p \in Pods, FallbackOf(p), FallbackOK(fallback'[p])
  PROVE  FallbacksOK'
BY OneFallbackMoves DEF RedisInv, FallbacksOK

LEMMA FallbacksKept ==
  ASSUME RedisInv, [Next]_vars
  PROVE  FallbacksOK'
<1>0. FallbacksOK /\ \A c \in Calls : PodOf[c] \in Pods
  BY RedisBreakerAssumption DEF RedisInv
<1>1. ASSUME UNCHANGED fallback PROVE FallbacksOK'
  BY <1>0, <1>1 DEF FallbacksOK
<1>2. ASSUME NEW c \in Calls, CallNext(c) PROVE FallbacksOK'
  <2>1. CASE CallAsks(c) \/ CallEnds(c) \/ CallRecords(c) \/ FallbackIgnore(c)
    <3>1. UNCHANGED fallback
      BY <2>1 DEF CallAsks, Ask, Answer, LoseAnswer, LoseReply, CallEnds, Ignore, Fail, Succeed,
         End, Cancel, RecordFailed, CallRecords, Record, LoseRecord, FallbackIgnore
    <3>2. QED
      BY <1>1, <3>1
  <2>2. CASE CallFallsBack(c)
    <3>1. FallbackOf(PodOf[c]) /\ Fallback(PodOf[c])!MaybeHalfOpen
      BY <2>2 DEF CallFallsBack, AskFallback, AskFailed, CallFallback
    <3>2. QED
      BY <1>0, <3>1, FallbackHalfOpens, OthersStayOK
  <2>3. CASE FallbackFail(c)
    BY <1>0, <2>3, FallbackFails, OthersStayOK DEF FallbackFail, FallbackEnds
  <2>4. CASE FallbackSucceed(c)
    BY <1>0, <2>4, FallbackSucceeds, OthersStayOK DEF FallbackSucceed, FallbackEnds
  <2>5. QED
    BY <1>2, <2>1, <2>2, <2>3, <2>4 DEF CallNext, CallEndsLocally
<1>3. ASSUME NEW p \in Pods, PodNext(p) PROVE FallbacksOK'
  <2>1. CASE ResetFallback(p)
    BY <2>1, FallbackCloses, OthersStayOK DEF ResetFallback
  <2>2. CASE ~ResetFallback(p)
    <3>1. UNCHANGED fallback \/ (FallbackOf(p) /\ Fallback(p)!MaybeHalfOpen)
      BY <1>3, <2>2 DEF PodNext, ReadState, Reset, HealthCheck, Ping, Recover, Outage
    <3>2. QED
      BY <1>1, <3>1, FallbackHalfOpens, OthersStayOK
  <2>3. QED
    BY <2>1, <2>2
<1>4. CASE Expire
  BY <1>1, <1>4 DEF Expire
<1>5. CASE Tick
  <2>1. \A p \in Pods : fallback'[p] \in FallbackFields /\ FallbackOK(fallback'[p])
    BY <1>5, FallbackAges
  <2>2. fallback' = [p \in Pods |-> fallback'[p]]
    BY <1>5 DEF Tick
  <2>3. QED
    BY <2>1, <2>2 DEF FallbacksOK
<1>6. CASE UNCHANGED vars
  BY <1>1, <1>6 DEF vars
<1>7. QED
  BY <1>2, <1>3, <1>4, <1>5, <1>6, NextCases

LEMMA PodTypesKept ==
  ASSUME RedisInv, [Next]_vars
  PROVE  PodTypes'
<1>0. PodTypes
  BY DEF RedisInv
<1>1. ASSUME NEW c \in Calls, CallNext(c) PROVE PodTypes'
  <2>1. \E s \in Stages : pc' = [pc EXCEPT ![c] = s]
    BY <1>1 DEF CallNext, CallAsks, Ask, Answer, LoseAnswer, CallFallsBack, AskFallback,
       AskFailed, CallFallback, CallEnds, Ignore, Fail, Succeed, End, Cancel, RecordFailed,
       CallRecords, Record, LoseRecord, CallEndsLocally, FallbackFail, FallbackSucceed,
       FallbackIgnore, FallbackEnds, Stages, Active
  <2>2. pc' \in [Calls -> Stages]
    BY <1>0, <2>1 DEF PodTypes
  <2>3. /\ pinged' = pinged /\ resetting' = resetting
        /\ up' = up \/ \E p \in Pods : up' = [up EXCEPT ![p] = FALSE]
        /\ healthy' = healthy \/ \E p \in Pods : healthy' = [healthy EXCEPT ![p] = FALSE]
    <3>1. PodOf[c] \in Pods
      BY RedisBreakerAssumption
    <3>2. CASE CallAsks(c) \/ CallRecords(c)
      BY <3>1, <3>2 DEF CallAsks, Ask, Answer, LoseAnswer, LoseReply, CallRecords, Record,
         LoseRecord
    <3>3. CASE CallFallsBack(c) \/ CallEnds(c) \/ CallEndsLocally(c)
      BY <3>1, <3>3 DEF CallFallsBack, AskFallback, AskFailed, CallEnds, Ignore, Fail, Succeed,
         End, Cancel, RecordFailed, MarkDegraded, CallEndsLocally, FallbackFail,
         FallbackSucceed, FallbackIgnore, FallbackEnds
    <3>4. QED
      BY <1>1, <3>2, <3>3 DEF CallNext
  <2>4. QED
    BY <1>0, <2>2, <2>3 DEF PodTypes
<1>2. ASSUME NEW p \in Pods, PodNext(p) PROVE PodTypes'
  <2>1. /\ pc' = pc
        /\ up' = up \/ up' = [up EXCEPT ![p] = ~up[p]]
        /\ healthy' = healthy \/ \E b \in BOOLEAN : healthy' = [healthy EXCEPT ![p] = b]
        /\ pinged' = pinged \/ \E b \in BOOLEAN : pinged' = [pinged EXCEPT ![p] = b]
        /\ resetting' = resetting \/ \E b \in BOOLEAN : resetting' = [resetting EXCEPT ![p] = b]
    BY <1>2 DEF PodNext, ReadState, Reset, ResetFallback, HealthCheck, Ping, Recover, Outage,
       MarkDegraded
  <2>2. QED
    BY <1>0, <2>1 DEF PodTypes
<1>3. CASE Expire \/ Tick \/ UNCHANGED vars
  BY <1>0, <1>3 DEF PodTypes, Expire, Tick, vars
<1>4. QED
  BY <1>1, <1>2, <1>3, NextCases

LEMMA Invariance == Spec => []RedisInv
<1>1. RedisInv /\ [Next]_vars => RedisInv'
  BY HashKept, FallbacksKept, PodTypesKept DEF RedisInv
<1>2. QED
  BY <1>1, InitRedisInv, PTL DEF Spec

\* The hash, the flags and the embedded breakers stay in their ranges: no
\* counter of either breaker rests at its limit, whatever is lost on the way.
THEOREM TypeCorrect == Spec => []TypeOK
<1>1. RedisInv => TypeOK
  BY DEF RedisInv, HashOK, FallbacksOK, PodTypes, TypeOK, Stages, Active
<1>2. QED
  BY <1>1, Invariance, PTL

-----------------------------------------------------------------------------
\* The shared breaker keeps the contract.

InFlight == {c \in Calls : pc[c] \in Active}

Cut == ResetTimeout - Spread

Streak(h) == h.failure_count + h.success_count

CoolAge(h) == IF h.state # "open" THEN 0
              ELSE IF h.last_failure < Cut THEN h.last_failure ELSE Cut

\* What the contract sees of a hash.
LEMMA HashSeen ==
  ASSUME NEW h, HashOK(h)
  PROVE  /\ h.state \in {"closed", "open", "half_open"}
         /\ h.state = "closed" => Streak(h) = h.failure_count
         /\ h.state = "half_open" => Streak(h) = h.success_count
         /\ h.state = "open" => Streak(h) = 0
         /\ h.state # "open" => CoolAge(h) = 0
         /\ h.state = "open" /\ h.last_failure >= Cut => CoolAge(h) >= Cut
         /\ Tripped(h) => CoolAge(h) = 0
<1>1. /\ h.state \in {"closed", "open", "half_open"} /\ h.failure_count \in Nat
      /\ h.success_count \in Nat /\ h.last_failure \in Nat
  BY Constants DEF HashOK, HashFields
<1>2. /\ h.state # "closed" => h.failure_count = 0
      /\ h.state # "half_open" => h.success_count = 0
  BY DEF HashOK
<1>3. Cut \in Nat
  BY Constants DEF Cut
<1>4. /\ h.state = "open" /\ h.last_failure >= Cut => CoolAge(h) >= Cut
      /\ Tripped(h) => CoolAge(h) = 0
  BY <1>1, <1>3 DEF CoolAge, Tripped
<1>5. QED
  BY <1>1, <1>2, <1>4 DEF Streak, CoolAge

\* What a step of one call does to the set of the calls in flight.
LEMMA InFlightMoves ==
  ASSUME RedisInv, NEW c \in Calls, NEW s \in Stages, pc' = [pc EXCEPT ![c] = s]
  PROVE  /\ pc[c] \in Active <=> c \in InFlight
         /\ s \in Active /\ pc[c] \in Active => InFlight' = InFlight
         /\ s \in Active => InFlight' = InFlight \cup {c}
         /\ s \notin Active => InFlight' = InFlight \ {c}
         /\ s \notin Active /\ pc[c] \notin Active => InFlight' = InFlight
<1>1. \A d \in Calls : pc'[d] = IF d = c THEN s ELSE pc[d]
  BY DEF RedisInv, PodTypes
<1> HIDE DEF Active
<1>2. QED
  BY <1>1 DEF InFlight

\* The contract's variables through the names above.
SharedSame == /\ hash'.state = hash.state /\ Streak(hash') = Streak(hash)
              /\ CoolAge(hash') = CoolAge(hash) /\ InFlight' = InFlight

LEMMA SharedStutters == SharedSame => UNCHANGED Shared!vars
BY DEF SharedSame, Streak, CoolAge, Cut, InFlight, Active, Shared!vars

LEMMA UnchangedHash ==
  ASSUME UNCHANGED hash, InFlight' = InFlight
  PROVE  UNCHANGED Shared!vars
BY SharedStutters DEF SharedSame, Streak, CoolAge

\* The script's first lines are the contract's half-opening.
LEMMA PrologueRefines ==
  ASSUME RedisInv, NEW p \in Pods, hash' = Prologue(hash, p), InFlight' = InFlight
  PROVE  Shared!HalfOpen \/ UNCHANGED Shared!vars
<1>1. CASE hash' = hash
  BY <1>1, UnchangedHash
<1>2. CASE hash' # hash
  <2>1. /\ hash.state = "open" /\ hash.last_failure >= Cut /\ HashOK(hash')
        /\ hash'.state = "half_open" /\ hash'.success_count = 0
    BY <1>2, PrologueHalfOpens DEF RedisInv, Cut
  <2>2. CoolAge(hash) >= Cut /\ Streak(hash') = 0 /\ CoolAge(hash') = 0
    BY <2>1, HashSeen DEF RedisInv
  <2>3. QED
    BY <2>1, <2>2 DEF Shared!HalfOpen, Streak, CoolAge, Cut, InFlight, Active
<1>3. QED
  BY <1>1, <1>2

LEMMA AnswerRefines ==
  ASSUME RedisInv, NEW c \in Calls, Answer(c)
  PROVE  Shared!Next \/ UNCHANGED Shared!vars
<1>1. /\ PodOf[c] \in Pods /\ pc[c] = "asking" /\ hash' = Prologue(hash, PodOf[c])
      /\ pc' = [pc EXCEPT ![c] = IF hash'.state # "open" THEN "running" ELSE "idle"]
  BY RedisBreakerAssumption DEF Answer, Lua, IsAvailable
<1>2. pc[c] \notin Active /\ "running" \in Active /\ "idle" \notin Active
  BY <1>1 DEF Active
<1>3. CASE hash'.state = "open"
  <2>1. InFlight' = InFlight
    BY <1>1, <1>2, <1>3, InFlightMoves DEF Stages
  <2>2. QED
    BY <1>1, <2>1, PrologueRefines DEF Shared!Next
<1>4. CASE hash'.state # "open"
  <2>1. c \notin InFlight /\ InFlight' = InFlight \cup {c}
    BY <1>1, <1>2, <1>4, InFlightMoves DEF Stages
  <2>2. CASE hash' = hash
    <3>1. Shared!Admit(c)
      BY <1>4, <2>1, <2>2 DEF Shared!Admit, InFlight, Active
    <3>2. QED
      BY <3>1 DEF Shared!Next
  <2>3. CASE hash' # hash
    <3>1. /\ hash.state = "open" /\ hash.last_failure >= Cut /\ HashOK(hash')
          /\ hash'.state = "half_open" /\ hash'.success_count = 0
      BY <1>1, <2>3, PrologueHalfOpens DEF RedisInv, Cut
    <3>2. CoolAge(hash) >= Cut /\ Streak(hash') = 0 /\ CoolAge(hash') = 0
      BY <3>1, HashSeen DEF RedisInv
    <3>3. Shared!Admit(c)
      BY <2>1, <3>1, <3>2 DEF Shared!Admit, Streak, CoolAge, Cut, InFlight, Active
    <3>4. QED
      BY <3>3 DEF Shared!Next
  <2>4. QED
    BY <2>2, <2>3
<1>5. QED
  BY <1>3, <1>4

\* A failure that the script executes is a failure of the contract.
LEMMA FailureRefines ==
  ASSUME RedisInv, NEW c \in Calls, HashOK(hash'), FailureCounted(hash, hash'),
         c \in InFlight, InFlight' = InFlight \ {c}
  PROVE  Shared!Failure(c)
<1>0. HashOK(hash)
  BY DEF RedisInv
<1>1. ASSUME Tripped(hash')
      PROVE  hash'.state = "open" /\ Streak(hash') = 0 /\ CoolAge(hash') = 0
  BY <1>1, HashSeen DEF Tripped
<1>2. CASE /\ hash.state = "closed" /\ hash.failure_count + 1 < FailMax
           /\ hash'.state = "closed" /\ hash'.failure_count = hash.failure_count + 1
  <2>1. /\ Streak(hash) = hash.failure_count /\ Streak(hash') = hash'.failure_count
        /\ CoolAge(hash) = 0 /\ CoolAge(hash') = 0
    BY <1>0, <1>2, HashSeen
  <2>2. QED
    BY <1>2, <2>1 DEF Shared!Failure, Streak, CoolAge, Cut, InFlight, Active
<1>3. CASE /\ hash.state = "closed" /\ hash.failure_count + 1 >= FailMax
           /\ Tripped(hash')
  <2>1. Streak(hash) = hash.failure_count
    BY <1>0, <1>3, HashSeen
  <2>2. QED
    BY <1>1, <1>3, <2>1
    DEF Shared!Failure, Shared!Trip, Streak, CoolAge, Cut, InFlight, Active
<1>4. CASE hash.state = "half_open" /\ Tripped(hash')
  BY <1>1, <1>4 DEF Shared!Failure, Shared!Trip, Streak, CoolAge, Cut, InFlight, Active
<1>5. CASE hash.state = "open" /\ Tripped(hash')
  <2>1. Streak(hash) = 0
    BY <1>0, <1>5, HashSeen
  <2>2. QED
    BY <1>1, <1>5, <2>1 DEF Shared!Failure, Streak, CoolAge, Cut, InFlight, Active
<1>6. hash.state \in {"closed", "open", "half_open"}
  BY <1>0, HashSeen
<1>7. QED
  BY <1>2, <1>3, <1>4, <1>5, <1>6 DEF FailureCounted

LEMMA SuccessRefines ==
  ASSUME RedisInv, NEW c \in Calls, HashOK(hash'), SuccessCounted(hash, hash'),
         c \in InFlight, InFlight' = InFlight \ {c}
  PROVE  Shared!Success(c)
<1>0. HashOK(hash)
  BY DEF RedisInv
<1>1. /\ hash.state = "half_open" => Streak(hash) = hash.success_count
      /\ hash'.state = "half_open" => Streak(hash') = hash'.success_count
      /\ hash'.state = "closed" => Streak(hash') = hash'.failure_count
      /\ hash.state # "open" => CoolAge(hash) = 0
      /\ hash'.state # "open" => CoolAge(hash') = 0
  BY <1>0, HashSeen
<1>2. CASE /\ hash.state = "half_open" /\ hash.success_count + 1 < SuccessThreshold
           /\ hash'.state = "half_open" /\ hash'.success_count = hash.success_count + 1
  BY <1>1, <1>2 DEF Shared!Success, Streak, CoolAge, Cut, InFlight, Active
<1>3. CASE /\ hash.state = "half_open" /\ hash.success_count + 1 >= SuccessThreshold
           /\ hash'.state = "closed" /\ hash'.failure_count = 0
  BY <1>1, <1>3 DEF Shared!Success, Streak, CoolAge, Cut, InFlight, Active
<1>4. CASE hash.state = "closed" /\ hash'.state = "closed" /\ hash'.failure_count = 0
  BY <1>1, <1>4 DEF Shared!Success, Streak, CoolAge, Cut, InFlight, Active
<1>5. CASE /\ hash.state = "open" /\ hash'.state = "open"
           /\ hash'.last_failure = hash.last_failure
  <2>1. Streak(hash) = 0 /\ Streak(hash') = 0 /\ CoolAge(hash') = CoolAge(hash)
    BY <1>0, <1>5, HashSeen DEF CoolAge
  <2>2. QED
    BY <1>5, <2>1 DEF Shared!Success, Streak, CoolAge, Cut, InFlight, Active
<1>6. CASE /\ hash.state = "open" /\ hash.last_failure >= ResetTimeout - Spread
           /\ IF SuccessThreshold <= 1 THEN hash'.state = "closed" /\ hash'.failure_count = 0
              ELSE hash'.state = "half_open" /\ hash'.success_count = 1
  <2>1. CoolAge(hash) >= Cut
    BY <1>0, <1>6, HashSeen DEF Cut
  <2>2. QED
    BY <1>1, <1>6, <2>1 DEF Shared!Success, Streak, CoolAge, Cut, InFlight, Active
<1>7. QED
  BY <1>2, <1>3, <1>4, <1>5, <1>6 DEF SuccessCounted

\* An outcome that the script executes, whether or not its reply arrives,
\* moves the contract's breaker by that outcome.
LEMMA ScriptRecords ==
  ASSUME RedisInv, NEW c \in Calls, Recording(c), hash' = Lua(pc[c], hash, PodOf[c]),
         NEW s \in Stages \ Active, pc' = [pc EXCEPT ![c] = s]
  PROVE  /\ pc[c] = "record_failure" => Shared!Failure(c)
         /\ pc[c] = "record_success" => Shared!Success(c)
<1>1. PodOf[c] \in Pods /\ HashOK(hash)
  BY RedisBreakerAssumption DEF RedisInv
<1>2. pc[c] \in Active /\ s \in Stages /\ s \notin Active
  BY DEF Recording, Active
<1>3. c \in InFlight /\ InFlight' = InFlight \ {c}
  BY <1>2, InFlightMoves
<1>4. ASSUME pc[c] = "record_failure" PROVE Shared!Failure(c)
  <2>1. HashOK(hash') /\ FailureCounted(hash, hash')
    BY <1>1, <1>4, FailureRecorded
  <2>2. QED
    BY <1>3, <2>1, FailureRefines
<1>5. ASSUME pc[c] = "record_success" PROVE Shared!Success(c)
  <2>1. HashOK(hash') /\ SuccessCounted(hash, hash')
    BY <1>1, <1>5, SuccessRecorded
  <2>2. QED
    BY <1>3, <2>1, SuccessRefines
<1>6. QED
  BY <1>4, <1>5

LEMMA RecordsRefine ==
  ASSUME RedisInv, NEW c \in Calls, CallRecords(c)
  PROVE  Shared!Next
<1>1. /\ Recording(c) /\ pc[c] \in {"record_failure", "record_success"}
      /\ hash' = hash \/ hash' = Lua(pc[c], hash, PodOf[c])
      /\ \E s \in {"idle", "record_error"} : pc' = [pc EXCEPT ![c] = s]
  BY DEF CallRecords, Record, LoseRecord, LoseReply, Recording
<1>2. PICK s \in {"idle", "record_error"} : pc' = [pc EXCEPT ![c] = s]
  BY <1>1
<1>3. s \in Stages \ Active
  BY DEF Stages, Active
<1>4. CASE hash' = Lua(pc[c], hash, PodOf[c])
  <2>1. Shared!Failure(c) \/ Shared!Success(c)
    BY <1>1, <1>2, <1>3, <1>4, ScriptRecords
  <2>2. QED
    BY <2>1 DEF Shared!Next
<1>5. CASE hash' = hash
  <2>1. pc[c] \in Active
    BY <1>1 DEF Active
  <2>2. c \in InFlight /\ InFlight' = InFlight \ {c}
    BY <1>2, <1>3, <2>1, InFlightMoves
  <2>3. Shared!Ignored(c)
    BY <1>5, <2>2 DEF Shared!Ignored, InFlight, Active
  <2>4. QED
    BY <2>3 DEF Shared!Next
<1>6. QED
  BY <1>1, <1>4, <1>5

\* The admitted calls that end without an outcome for Redis, and the steps
\* outside the script.
LEMMA EndsRefine ==
  ASSUME RedisInv, NEW c \in Calls,
         Ask(c) \/ CallEnds(c) \/ CallFallsBack(c) \/ CallEndsLocally(c)
  PROVE  Shared!Next \/ UNCHANGED Shared!vars
<1>1. /\ hash' = hash
      /\ \/ \E s \in Stages \ Active : pc' = [pc EXCEPT ![c] = s]
         \/ /\ pc[c] = "running"
            /\ \E s \in {"record_failure", "record_success"} : pc' = [pc EXCEPT ![c] = s]
  BY DEF Ask, CallEnds, Ignore, Fail, Succeed, End, Cancel, RecordFailed, CallFallsBack,
     AskFallback, AskFailed, CallFallback, CallEndsLocally, FallbackFail, FallbackSucceed,
     FallbackIgnore, FallbackEnds, Stages, Active
<1>2. CASE \E s \in Stages \ Active : pc' = [pc EXCEPT ![c] = s]
  <2>1. PICK s \in Stages \ Active : pc' = [pc EXCEPT ![c] = s]
    BY <1>2
  <2>2. CASE c \notin InFlight
    BY <1>1, <2>1, <2>2, InFlightMoves, UnchangedHash
  <2>3. CASE c \in InFlight
    <3>1. InFlight' = InFlight \ {c}
      BY <2>1, InFlightMoves
    <3>2. Shared!Ignored(c)
      BY <1>1, <2>3, <3>1 DEF Shared!Ignored, InFlight, Active
    <3>3. QED
      BY <3>2 DEF Shared!Next
  <2>4. QED
    BY <2>2, <2>3
<1>3. CASE /\ pc[c] = "running"
           /\ \E s \in {"record_failure", "record_success"} : pc' = [pc EXCEPT ![c] = s]
  <2>1. PICK s \in {"record_failure", "record_success"} : pc' = [pc EXCEPT ![c] = s]
    BY <1>3
  <2>2. s \in Stages /\ s \in Active /\ pc[c] \in Active
    BY <1>3 DEF Stages, Active
  <2>3. InFlight' = InFlight
    BY <2>1, <2>2, InFlightMoves
  <2>4. QED
    BY <1>1, <2>3, UnchangedHash
<1>4. QED
  BY <1>1, <1>2, <1>3

LEMMA LostAnswerRefines ==
  ASSUME RedisInv, NEW c \in Calls, LoseAnswer(c)
  PROVE  Shared!Next \/ UNCHANGED Shared!vars
<1>1. /\ PodOf[c] \in Pods /\ pc[c] = "asking" /\ pc' = [pc EXCEPT ![c] = "ask_error"]
      /\ hash' = hash \/ hash' = Prologue(hash, PodOf[c])
  BY RedisBreakerAssumption DEF LoseAnswer, LoseReply, Lua
<1>2. pc[c] \notin Active /\ "ask_error" \in Stages /\ "ask_error" \notin Active
  BY <1>1 DEF Stages, Active
<1>3. InFlight' = InFlight
  BY <1>1, <1>2, InFlightMoves
<1>4. QED
  BY <1>1, <1>3, UnchangedHash, PrologueRefines DEF Shared!Next

\* reset() and the expiry of the key.
LEMMA AbsentRefines ==
  ASSUME hash' = Absent, InFlight' = InFlight
  PROVE  Shared!Next
<1>1. hash'.state = "closed" /\ Streak(hash') = 0 /\ CoolAge(hash') = 0
  BY AbsentIsOK DEF Streak, CoolAge
<1>2. Shared!Reset
  BY <1>1 DEF Shared!Reset, Streak, CoolAge, Cut, InFlight, Active
<1>3. QED
  BY <1>2 DEF Shared!Next

LEMMA PodRefines ==
  ASSUME RedisInv, NEW p \in Pods, PodNext(p)
  PROVE  Shared!Next \/ UNCHANGED Shared!vars
<1>1. /\ pc' = pc
      /\ \/ hash' = hash \/ hash' = Absent
         \/ hash' = Prologue(hash, p)
  BY DEF PodNext, ReadState, Reset, ResetFallback, HealthCheck, Ping, Recover, Outage, Lua
<1>2. InFlight' = InFlight
  BY <1>1 DEF InFlight
<1>3. QED
  BY <1>1, <1>2, UnchangedHash, AbsentRefines, PrologueRefines DEF Shared!Next

LEMMA TickRefines ==
  ASSUME RedisInv, Tick
  PROVE  Shared!Next \/ UNCHANGED Shared!vars
<1>1. /\ HashOK(hash) /\ hash.last_failure \in 0 .. MaxAge
      /\ hash' = [hash EXCEPT !.last_failure = Aged(hash.last_failure, MaxAge)]
      /\ pc' = pc
  BY DEF RedisInv, HashOK, HashFields, Tick
<1>2. /\ hash'.state = hash.state /\ hash'.failure_count = hash.failure_count
      /\ hash'.success_count = hash.success_count
      /\ hash'.last_failure = Aged(hash.last_failure, MaxAge)
  BY <1>1 DEF HashOK, HashFields
<1>3. Streak(hash') = Streak(hash) /\ InFlight' = InFlight
  BY <1>1, <1>2 DEF Streak, InFlight
<1>4. hash.last_failure \in Nat /\ Cut \in Nat /\ MaxAge \in Nat /\ Cut <= MaxAge
  BY <1>1, Constants DEF Cut
<1>5. CASE hash.state = "open" /\ hash.last_failure < Cut
  <2>1. Aged(hash.last_failure, MaxAge) = hash.last_failure + 1
    BY <1>4, <1>5 DEF Aged
  <2>2. CoolAge(hash) = hash.last_failure /\ CoolAge(hash') = hash.last_failure + 1
    BY <1>2, <1>4, <1>5, <2>1 DEF CoolAge
  <2>3. Shared!Tick
    BY <1>2, <1>3, <1>5, <2>2 DEF Shared!Tick, Streak, CoolAge, Cut, InFlight, Active
  <2>4. QED
    BY <2>3 DEF Shared!Next
<1>6. CASE hash.state # "open" \/ hash.last_failure >= Cut
  <2>1. hash.last_failure >= Cut => Aged(hash.last_failure, MaxAge) >= Cut
    BY <1>4 DEF Aged
  <2>2. Aged(hash.last_failure, MaxAge) \in Nat
    BY <1>4 DEF Aged
  <2>3. CoolAge(hash') = CoolAge(hash)
    BY <1>2, <1>4, <1>6, <2>1, <2>2 DEF CoolAge
  <2>4. QED
    BY <1>2, <1>3, <2>3, SharedStutters DEF SharedSame
<1>7. QED
  BY <1>4, <1>5, <1>6

LEMMA SharedStep == RedisInv /\ [Next]_vars => [Shared!Next]_(Shared!vars)
<1> SUFFICES ASSUME RedisInv, [Next]_vars
             PROVE  Shared!Next \/ UNCHANGED Shared!vars
  OBVIOUS
<1>1. ASSUME NEW c \in Calls, CallNext(c) PROVE Shared!Next \/ UNCHANGED Shared!vars
  BY <1>1, AnswerRefines, LostAnswerRefines, RecordsRefine, EndsRefine
  DEF CallNext, CallAsks
<1>2. CASE Expire
  <2>1. hash' = Absent /\ InFlight' = InFlight
    BY <1>2 DEF Expire, InFlight
  <2>2. QED
    BY <2>1, AbsentRefines
<1>3. CASE UNCHANGED vars
  BY <1>3 DEF vars, Shared!vars
<1>4. QED
  BY <1>1, <1>2, <1>3, PodRefines, TickRefines, NextCases

\* The script keeps the contract of base.py for all pods together, for any
\* skew of their clocks: outages, lost replies and cancelled calls never make
\* it count an outcome twice, or one of a call that Redis did not admit, and
\* the cool-down is cut short by no more than the spread of the clocks.
THEOREM SharedRefinesContract == Spec => SharedImplementsContract
<1>1. Init => Shared!Init
  BY AbsentIsOK DEF Init, Shared!Init
<1>2. QED
  BY <1>1, SharedStep, Invariance, PTL DEF Spec, SharedImplementsContract, Shared!Spec

-----------------------------------------------------------------------------
\* Each pod's embedded breaker keeps the contract.

\* The calls that the breaker of pod p guards, as its contract names them.
LocalCalls(p) ==
  {c \in OnPod(p) : [d \in OnPod(p) |->
                       IF pc[d] = "local" THEN "running" ELSE "idle"][c] = "running"}

LEMMA LocalCallsAre ==
  ASSUME NEW p \in Pods
  PROVE  /\ LocalCalls(p) = {c \in OnPod(p) : pc[c] = "local"}
         /\ LocalCalls(p)' = {c \in OnPod(p) : pc'[c] = "local"}
BY DEF LocalCalls

LEMMA LocalCallsMove ==
  ASSUME RedisInv, NEW c \in Calls, NEW s \in Stages, pc' = [pc EXCEPT ![c] = s],
         NEW p \in Pods
  PROVE  /\ PodOf[c] # p => LocalCalls(p)' = LocalCalls(p)
         /\ PodOf[c] = p => /\ c \in OnPod(p)
                            /\ c \in LocalCalls(p) <=> pc[c] = "local"
                            /\ s = "local" => LocalCalls(p)' = LocalCalls(p) \cup {c}
                            /\ s # "local" => LocalCalls(p)' = LocalCalls(p) \ {c}
<1>1. \A d \in Calls : pc'[d] = IF d = c THEN s ELSE pc[d]
  BY DEF RedisInv, PodTypes
<1>2. \A d \in OnPod(p) : d \in Calls /\ PodOf[d] = p
  BY DEF OnPod
<1>3. PodOf[c] = p => c \in OnPod(p)
  BY DEF OnPod
<1>4. \A d \in OnPod(p) : d \in LocalCalls(p) <=> pc[d] = "local"
  BY LocalCallsAre
<1>5. \A d : d \in LocalCalls(p)' <=> d \in OnPod(p) /\ pc'[d] = "local"
  BY LocalCallsAre
<1>6. \A d : d \in LocalCalls(p) <=> d \in OnPod(p) /\ pc[d] = "local"
  BY LocalCallsAre
<1>7. PodOf[c] # p => LocalCalls(p)' = LocalCalls(p)
  BY <1>1, <1>2, <1>5, <1>6
<1>8. PodOf[c] = p /\ s = "local" => LocalCalls(p)' = LocalCalls(p) \cup {c}
  BY <1>1, <1>2, <1>3, <1>5, <1>6
<1>9. PodOf[c] = p /\ s # "local" => LocalCalls(p)' = LocalCalls(p) \ {c}
  BY <1>1, <1>2, <1>3, <1>5, <1>6
<1>10. QED
  BY <1>3, <1>4, <1>7, <1>8, <1>9

OwnStep(p) == Fallback(p)!Contract!Next \/ UNCHANGED Fallback(p)!Contract!vars

LEMMA OwnStutters ==
  ASSUME NEW p \in Pods, fallback'[p] = fallback[p], LocalCalls(p)' = LocalCalls(p)
  PROVE  OwnStep(p)
<1>1. UNCHANGED Fallback(p)!Contract!vars
  BY DEF Fallback!Contract!vars, LocalCalls
<1>2. QED
  BY <1>1 DEF OwnStep

LEMMA OwnHalfOpens ==
  ASSUME NEW p \in Pods, HalfOpens(fallback[p], fallback'[p]),
         LocalCalls(p)' = LocalCalls(p)
  PROVE  OwnStep(p)
<1> DEFINE f == fallback[p]
           g == fallback'[p]
<1>1. CASE g = f
  BY <1>1, OwnStutters
<1>2. CASE g # f
  <2>1. /\ f.state = "open" /\ f.opened_at >= ResetTimeout
        /\ g.state = "half_open" /\ g.success_count = 0
    BY <1>2 DEF HalfOpens
  <2>2. Fallback(p)!Contract!HalfOpen
    BY <2>1 DEF Fallback!Contract!HalfOpen, LocalCalls
  <2>3. QED
    BY <2>2 DEF OwnStep, Fallback!Contract!Next
<1>3. QED
  BY <1>1, <1>2

LEMMA OwnAdmits ==
  ASSUME NEW p \in Pods, HalfOpens(fallback[p], fallback'[p]),
         NEW c \in OnPod(p), c \notin LocalCalls(p), fallback'[p].state # "open",
         LocalCalls(p)' = LocalCalls(p) \cup {c}
  PROVE  OwnStep(p)
<1> DEFINE f == fallback[p]
           g == fallback'[p]
<1>1. CASE g = f
  BY <1>1 DEF Fallback!Contract!Admit, LocalCalls, OwnStep, Fallback!Contract!Next
<1>2. CASE g # f
  <2>1. /\ f.state = "open" /\ f.opened_at >= ResetTimeout
        /\ g.state = "half_open" /\ g.success_count = 0
    BY <1>2 DEF HalfOpens
  <2>2. Fallback(p)!Contract!Admit(c)
    BY <2>1 DEF Fallback!Contract!Admit, LocalCalls
  <2>3. QED
    BY <2>2 DEF OwnStep, Fallback!Contract!Next
<1>3. QED
  BY <1>1, <1>2

LEMMA OwnFails ==
  ASSUME NEW p \in Pods, Fails(fallback[p], fallback'[p]),
         fallback[p] \in FallbackFields,
         NEW c \in OnPod(p), c \in LocalCalls(p), LocalCalls(p)' = LocalCalls(p) \ {c}
  PROVE  Fallback(p)!Contract!Failure(c)
<1> DEFINE f == fallback[p]
           g == fallback'[p]
<1>1. f.state \in {"closed", "open", "half_open"}
  BY FallbackTypes
<1>2. CASE /\ f.state # "half_open" /\ f.failure_count + 1 < FailMax
           /\ g.state = f.state /\ g.failure_count = f.failure_count + 1
           /\ g.opened_at = f.opened_at /\ g.success_count = f.success_count
  BY <1>1, <1>2 DEF Fallback!Contract!Failure, LocalCalls
<1>3. CASE /\ f.state = "half_open" \/ f.failure_count + 1 >= FailMax
           /\ g.state = "open" /\ g.opened_at = 0
  BY <1>1, <1>3 DEF Fallback!Contract!Failure, Fallback!Contract!Trip, LocalCalls
<1>4. QED
  BY <1>2, <1>3 DEF Fails

LEMMA OwnSucceeds ==
  ASSUME NEW p \in Pods, Succeeds(fallback[p], fallback'[p]),
         fallback[p] \in FallbackFields,
         NEW c \in OnPod(p), c \in LocalCalls(p), LocalCalls(p)' = LocalCalls(p) \ {c}
  PROVE  Fallback(p)!Contract!Success(c)
<1> DEFINE f == fallback[p]
           g == fallback'[p]
<1>1. f.state \in {"closed", "open", "half_open"}
  BY FallbackTypes
<1>2. CASE /\ f.state = "half_open" /\ f.success_count + 1 >= SuccessThreshold
           /\ g.state = "closed" /\ g.failure_count = 0
  BY <1>2 DEF Fallback!Contract!Success, LocalCalls
<1>3. CASE /\ f.state = "half_open" /\ f.success_count + 1 < SuccessThreshold
           /\ g.state = "half_open" /\ g.success_count = f.success_count + 1
  BY <1>3 DEF Fallback!Contract!Success, LocalCalls
<1>4. CASE /\ f.state # "half_open"
           /\ g.state = f.state /\ g.failure_count = 0 /\ g.opened_at = f.opened_at
  BY <1>1, <1>4 DEF Fallback!Contract!Success, LocalCalls
<1>5. QED
  BY <1>2, <1>3, <1>4 DEF Succeeds

LEMMA OwnCloses ==
  ASSUME NEW p \in Pods, Closes(fallback'[p]), LocalCalls(p)' = LocalCalls(p)
  PROVE  OwnStep(p)
<1>1. Fallback(p)!Contract!Reset
  BY DEF Closes, Fallback!Contract!Reset, LocalCalls
<1>2. QED
  BY <1>1 DEF OwnStep, Fallback!Contract!Next

\* The outcomes that a fallback hears of.
LEMMA FallbackFailureHeard ==
  ASSUME RedisInv, NEW c \in Calls, FallbackFail(c)
  PROVE  Fallback(PodOf[c])!Contract!Failure(c)
<1> DEFINE p == PodOf[c]
<1>1. /\ p \in Pods /\ pc[c] = "local" /\ pc' = [pc EXCEPT ![c] = "idle"]
      /\ FallbackOf(p) /\ Fallback(p)!RecordFailure
  BY RedisBreakerAssumption DEF FallbackFail, FallbackEnds
<1>2. "idle" \in Stages
  BY DEF Stages
<1> HIDE DEF p
<1>3. PodOf[c] = p
  BY DEF p
<1>4. c \in OnPod(p) /\ c \in LocalCalls(p) /\ LocalCalls(p)' = LocalCalls(p) \ {c}
  BY <1>1, <1>2, <1>3, LocalCallsMove
<1>5. Fails(fallback[p], fallback'[p]) /\ fallback[p] \in FallbackFields
  BY <1>1, FallbackFails DEF RedisInv, FallbacksOK
<1>6. Fallback(p)!Contract!Failure(c)
  BY <1>1, <1>4, <1>5, OwnFails
<1>7. QED
  BY <1>6 DEF p

LEMMA FallbackSuccessHeard ==
  ASSUME RedisInv, NEW c \in Calls, FallbackSucceed(c)
  PROVE  Fallback(PodOf[c])!Contract!Success(c)
<1> DEFINE p == PodOf[c]
<1>1. /\ p \in Pods /\ pc[c] = "local" /\ pc' = [pc EXCEPT ![c] = "idle"]
      /\ FallbackOf(p) /\ Fallback(p)!RecordSuccess
  BY RedisBreakerAssumption DEF FallbackSucceed, FallbackEnds
<1>2. "idle" \in Stages
  BY DEF Stages
<1> HIDE DEF p
<1>3. PodOf[c] = p
  BY DEF p
<1>4. c \in OnPod(p) /\ c \in LocalCalls(p) /\ LocalCalls(p)' = LocalCalls(p) \ {c}
  BY <1>1, <1>2, <1>3, LocalCallsMove
<1>5. Succeeds(fallback[p], fallback'[p]) /\ fallback[p] \in FallbackFields
  BY <1>1, FallbackSucceeds DEF RedisInv, FallbacksOK
<1>6. Fallback(p)!Contract!Success(c)
  BY <1>1, <1>4, <1>5, OwnSucceeds
<1>7. QED
  BY <1>6 DEF p

LEMMA IgnoredByFallback ==
  ASSUME RedisInv, NEW c \in Calls, FallbackIgnore(c)
  PROVE  Fallback(PodOf[c])!Contract!Ignored(c)
<1>1. /\ PodOf[c] \in Pods /\ pc[c] = "local" /\ pc' = [pc EXCEPT ![c] = "idle"]
      /\ fallback' = fallback /\ "idle" \in Stages
  BY RedisBreakerAssumption DEF FallbackIgnore, FallbackEnds, Stages
<1>2. PICK p \in Pods : p = PodOf[c]
  BY <1>1
<1>3. c \in OnPod(p) /\ c \in LocalCalls(p) /\ LocalCalls(p)' = LocalCalls(p) \ {c}
  BY <1>1, <1>2, LocalCallsMove
<1>4. Fallback(p)!Contract!Ignored(c)
  BY <1>1, <1>3 DEF Fallback!Contract!Ignored, LocalCalls
<1>5. QED
  BY <1>2, <1>4

\* A call that goes to the fallback of its pod is admitted by it or turned away.
LEMMA FallBackKeeps ==
  ASSUME RedisInv, NEW c \in Calls, CallFallsBack(c), NEW p \in Pods, PodOf[c] = p
  PROVE  OwnStep(p)
<1>1. /\ FallbackOf(p) /\ Fallback(p)!MaybeHalfOpen /\ pc[c] # "local"
      /\ \/ fallback'[p].state # "open" /\ pc' = [pc EXCEPT ![c] = "local"]
         \/ pc' = [pc EXCEPT ![c] = "idle"]
  BY DEF CallFallsBack, AskFallback, AskFailed, CallFallback
<1>2. HalfOpens(fallback[p], fallback'[p])
  BY <1>1, FallbackHalfOpens
<1>3. "local" \in Stages /\ "idle" \in Stages
  BY DEF Stages
<1>4. CASE fallback'[p].state # "open" /\ pc' = [pc EXCEPT ![c] = "local"]
  <2>1. c \in OnPod(p) /\ c \notin LocalCalls(p) /\ LocalCalls(p)' = LocalCalls(p) \cup {c}
    BY <1>1, <1>3, <1>4, LocalCallsMove
  <2>2. QED
    BY <1>2, <1>4, <2>1, OwnAdmits
<1>5. CASE pc' = [pc EXCEPT ![c] = "idle"]
  <2>1. c \notin LocalCalls(p) /\ LocalCalls(p)' = LocalCalls(p) \ {c}
    BY <1>1, <1>3, <1>5, LocalCallsMove
  <2>2. LocalCalls(p)' = LocalCalls(p)
    BY <2>1
  <2>3. QED
    BY <1>2, <2>2, OwnHalfOpens
<1>6. QED
  BY <1>1, <1>4, <1>5

\* The steps of a call on its own pod and, for the other pods, nothing.
LEMMA CallKeeps ==
  ASSUME RedisInv, NEW c \in Calls, CallNext(c), NEW p \in Pods
  PROVE  OwnStep(p)
<1>1. \E s \in Stages : pc' = [pc EXCEPT ![c] = s]
  BY DEF CallNext, CallAsks, Ask, Answer, LoseAnswer, CallFallsBack, AskFallback,
     AskFailed, CallFallback, CallEnds, Ignore, Fail, Succeed, End, Cancel, RecordFailed,
     CallRecords, Record, LoseRecord, CallEndsLocally, FallbackFail, FallbackSucceed,
     FallbackIgnore, FallbackEnds, Stages, Active
<1>2. CASE PodOf[c] # p
  <2>1. UNCHANGED fallback \/ FallbackOf(PodOf[c])
    BY DEF CallNext, CallAsks, Ask, Answer, LoseAnswer, LoseReply, CallFallsBack,
       AskFallback, AskFailed, CallFallback, CallEnds, Ignore, Fail, Succeed, End, Cancel,
       RecordFailed, CallRecords, Record, LoseRecord, CallEndsLocally, FallbackFail,
       FallbackSucceed, FallbackIgnore, FallbackEnds
  <2>2. PodOf[c] \in Pods
    BY RedisBreakerAssumption
  <2>3. fallback'[p] = fallback[p]
    BY <1>2, <2>1, <2>2, OneFallbackMoves
  <2>4. LocalCalls(p)' = LocalCalls(p)
    BY <1>1, <1>2, LocalCallsMove
  <2>5. QED
    BY <2>3, <2>4, OwnStutters
<1>3. CASE PodOf[c] = p
  <2>1. CASE CallFallsBack(c)
    BY <1>3, <2>1, FallBackKeeps
  <2>2. CASE CallEndsLocally(c)
    <3>1. c \in OnPod(p)
      BY <1>3 DEF OnPod
    <3>2. \/ Fallback(p)!Contract!Failure(c) \/ Fallback(p)!Contract!Success(c)
          \/ Fallback(p)!Contract!Ignored(c)
      BY <1>3, <2>2, FallbackFailureHeard, FallbackSuccessHeard, IgnoredByFallback
      DEF CallEndsLocally
    <3>3. QED
      BY <3>1, <3>2 DEF OwnStep, Fallback!Contract!Next
  <2>3. CASE CallAsks(c) \/ CallEnds(c) \/ CallRecords(c)
    <3>1. /\ UNCHANGED fallback /\ pc[c] # "local"
          /\ \E s \in Stages \ {"local"} : pc' = [pc EXCEPT ![c] = s]
      BY <2>3 DEF CallAsks, Ask, Answer, LoseAnswer, LoseReply, CallEnds, Ignore, Fail,
         Succeed, End, Cancel, RecordFailed, CallRecords, Record, LoseRecord, Recording,
         Stages, Active
    <3>2. PICK s \in Stages \ {"local"} : pc' = [pc EXCEPT ![c] = s]
      BY <3>1
    <3>3. c \notin LocalCalls(p) /\ LocalCalls(p)' = LocalCalls(p) \ {c}
      BY <1>3, <3>1, <3>2, LocalCallsMove
    <3>4. LocalCalls(p)' = LocalCalls(p)
      BY <3>3
    <3>5. QED
      BY <3>1, <3>4, OwnStutters
  <2>4. QED
    BY <2>1, <2>2, <2>3 DEF CallNext
<1>4. QED
  BY <1>2, <1>3

LEMMA PodKeeps ==
  ASSUME RedisInv, NEW q \in Pods, PodNext(q), NEW p \in Pods
  PROVE  OwnStep(p)
<1>1. /\ pc' = pc
      /\ \/ UNCHANGED fallback
         \/ FallbackOf(q) /\ Fallback(q)!MaybeHalfOpen
         \/ FallbackOf(q) /\ Fallback(q)!CloseBreaker
  BY DEF PodNext, ReadState, Reset, ResetFallback, HealthCheck, Ping, Recover, Outage
<1>2. LocalCalls(p)' = LocalCalls(p)
  BY <1>1, LocalCallsAre
<1>3. CASE UNCHANGED fallback \/ p # q
  <2>1. fallback'[p] = fallback[p]
    BY <1>1, <1>3, OneFallbackMoves
  <2>2. QED
    BY <1>2, <2>1, OwnStutters
<1>4. CASE p = q /\ FallbackOf(q) /\ Fallback(q)!MaybeHalfOpen
  BY <1>2, <1>4, FallbackHalfOpens, OwnHalfOpens
<1>5. CASE p = q /\ FallbackOf(q) /\ Fallback(q)!CloseBreaker
  BY <1>2, <1>5, FallbackCloses, OwnCloses
<1>6. QED
  BY <1>1, <1>3, <1>4, <1>5

LEMMA TickKeeps ==
  ASSUME RedisInv, Tick, NEW p \in Pods
  PROVE  OwnStep(p)
<1>1. LocalCalls(p)' = LocalCalls(p)
  BY LocalCallsAre DEF Tick
<1>2. CASE fallback'[p] = fallback[p]
  BY <1>1, <1>2, OwnStutters
<1>3. CASE fallback'[p] # fallback[p]
  <2>1. /\ fallback[p].state = "open" /\ fallback[p].opened_at < ResetTimeout
        /\ fallback'[p].state = "open"
        /\ fallback'[p].opened_at = fallback[p].opened_at + 1
    BY <1>3, FallbackAges
  <2>2. Fallback(p)!Contract!Tick
    BY <1>1, <2>1 DEF Fallback!Contract!Tick, LocalCalls
  <2>3. QED
    BY <2>2 DEF OwnStep, Fallback!Contract!Next
<1>4. QED
  BY <1>2, <1>3

\* The breaker a degraded pod falls back on keeps the same contract, across
\* outages that begin and end while its calls run.
THEOREM FallbacksKeep == Spec => FallbacksKeepContract
<1>1. ASSUME RedisInv, [Next]_vars, NEW p \in Pods PROVE OwnStep(p)
  <2>1. CASE Expire \/ UNCHANGED vars
    <3>1. fallback'[p] = fallback[p] /\ pc' = pc
      BY <2>1 DEF Expire, vars
    <3>2. LocalCalls(p)' = LocalCalls(p)
      BY <3>1, LocalCallsAre
    <3>3. QED
      BY <3>1, <3>2, OwnStutters
  <2>2. QED
    BY <1>1, <2>1, CallKeeps, PodKeeps, TickKeeps, NextCases
<1>2. RedisInv /\ [Next]_vars =>
        [\A p \in Pods : \/ Fallback(p)!Contract!Next
                         \/ UNCHANGED Fallback(p)!Contract!vars]_vars
  BY <1>1 DEF OwnStep
<1>3. QED
  BY <1>2, Invariance, PTL DEF Spec, FallbacksKeepContract

\* An outcome that Redis or a fallback confirms is taken for what it is.
THEOREM ConfirmedOutcomes == Spec => ConfirmedOutcomesCount
<1>1. ASSUME RedisInv, NEW c \in Calls, Record(c)
      PROVE  IF pc[c] = "record_failure" THEN Shared!Failure(c) ELSE Shared!Success(c)
  <2>1. /\ Recording(c) /\ hash' = Lua(pc[c], hash, PodOf[c])
        /\ pc' = [pc EXCEPT ![c] = "idle"] /\ "idle" \in Stages \ Active
    BY <1>1 DEF Record, Stages, Active
  <2>2. pc[c] # "record_failure" => pc[c] = "record_success"
    BY <2>1 DEF Recording
  <2>3. QED
    BY <1>1, <2>1, <2>2, ScriptRecords
<1>2. RedisInv =>
        [\A c \in Calls :
           /\ Record(c) => IF pc[c] = "record_failure" THEN Shared!Failure(c)
                                                       ELSE Shared!Success(c)
           /\ FallbackFail(c) => Fallback(PodOf[c])!Contract!Failure(c)
           /\ FallbackSucceed(c) => Fallback(PodOf[c])!Contract!Success(c)]_vars
  BY <1>1, FallbackFailureHeard, FallbackSuccessHeard
<1>3. QED
  BY <1>2, Invariance, PTL DEF Spec, ConfirmedOutcomesCount

=============================================================================
