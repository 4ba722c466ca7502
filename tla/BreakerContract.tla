-------------------------- MODULE BreakerContract --------------------------
(***************************************************************************)
(* What every circuit breaker of the kit promises to its callers           *)
(* (circuit_breaker/base.py, BreakerState and AsyncBreaker), independently *)
(* of where the counters are kept.  A breaker has a mode, a streak of      *)
(* consecutive outcomes that matters in that mode, the time it has been    *)
(* cooling down, and the set of guarded calls that are in flight.          *)
(*                                                                         *)
(* The calls in flight when the breaker opens are not interrupted: they    *)
(* end later, and their outcome is one more outcome for the mode the       *)
(* breaker is in when they end.  During the cool-down such a late outcome  *)
(* can only prolong it.  After the cool-down a late success may count as   *)
(* the first probe: the Redis script half-opens before it records any      *)
(* outcome, the in-memory breaker only before it admits a call.            *)
(***************************************************************************)
EXTENDS Integers

CONSTANTS Calls,             \* the guarded calls that may be in flight
          FailMax,           \* BreakerConfig.fail_max
          SuccessThreshold,  \* BreakerConfig.success_threshold
          ResetTimeout       \* BreakerConfig.reset_timeout, in ticks

VARIABLES mode,     \* "closed", "open" or "half_open"
          streak,   \* failures in a row (closed) or successes in a row (half_open)
          age,      \* ticks since the cool-down began, saturated at ResetTimeout
          running   \* the guarded calls that were admitted and have not ended

vars == <<mode, streak, age, running>>

Init ==
  /\ mode = "closed"
  /\ streak = 0
  /\ age = 0
  /\ running = {}

\* A call is let through unless the breaker is open; an open breaker that has
\* cooled down becomes half-open and lets the call through as a probe.
Admit(c) ==
  /\ c \notin running
  /\ running' = running \cup {c}
  /\ \/ /\ mode # "open"
        /\ UNCHANGED <<mode, streak, age>>
     \/ /\ mode = "open"
        /\ age >= ResetTimeout
        /\ mode' = "half_open"
        /\ streak' = 0
        /\ age' = 0

\* Reading the state half-opens a cooled-down breaker as well.
HalfOpen ==
  /\ mode = "open"
  /\ age >= ResetTimeout
  /\ mode' = "half_open"
  /\ streak' = 0
  /\ age' = 0
  /\ UNCHANGED running

Trip ==
  /\ mode' = "open"
  /\ streak' = 0
  /\ age' = 0

\* Only the FailMax-th failure in a row opens a closed breaker; any failure
\* opens a half-open one; a late failure may restart the cool-down.
Failure(c) ==
  /\ c \in running
  /\ running' = running \ {c}
  /\ \/ /\ mode = "closed"
        /\ streak + 1 < FailMax
        /\ streak' = streak + 1
        /\ UNCHANGED <<mode, age>>
     \/ /\ mode = "closed"
        /\ streak + 1 >= FailMax
        /\ Trip
     \/ /\ mode = "half_open"
        /\ Trip
     \/ /\ mode = "open"
        /\ UNCHANGED <<mode, streak>>
        /\ age' \in {age, 0}

\* Only the SuccessThreshold-th success of a half-open period closes.
Success(c) ==
  /\ c \in running
  /\ running' = running \ {c}
  /\ \/ /\ mode = "half_open"
        /\ streak + 1 < SuccessThreshold
        /\ streak' = streak + 1
        /\ UNCHANGED <<mode, age>>
     \/ /\ mode = "half_open"
        /\ streak + 1 >= SuccessThreshold
        /\ mode' = "closed"
        /\ streak' = 0
        /\ UNCHANGED age
     \/ /\ mode = "closed"
        /\ streak' = 0
        /\ UNCHANGED <<mode, age>>
     \/ /\ mode = "open"
        /\ UNCHANGED <<mode, streak, age>>
     \/ /\ mode = "open"
        /\ age >= ResetTimeout
        /\ mode' = IF SuccessThreshold <= 1 THEN "closed" ELSE "half_open"
        /\ streak' = IF SuccessThreshold <= 1 THEN 0 ELSE 1
        /\ age' = 0

\* A cancelled call and an excluded exception say nothing of the service; an
\* outcome that is lost on the way to the breaker cannot be told from them.
Ignored(c) ==
  /\ c \in running
  /\ running' = running \ {c}
  /\ UNCHANGED <<mode, streak, age>>

Reset ==
  /\ mode' = "closed"
  /\ streak' = 0
  /\ age' = 0
  /\ UNCHANGED running

Tick ==
  /\ mode = "open"
  /\ age < ResetTimeout
  /\ age' = age + 1
  /\ UNCHANGED <<mode, streak, running>>

Next ==
  \/ \E c \in Calls : Admit(c) \/ Failure(c) \/ Success(c) \/ Ignored(c)
  \/ HalfOpen
  \/ Reset
  \/ Tick

Spec == Init /\ [][Next]_vars
=============================================================================
