------------------------------ MODULE Dispatch ------------------------------
(***************************************************************************)
(* What the kit does with FireAndForget: the audit dispatcher              *)
(* (audit/dispatch.py), whose flush writes a batch to a backend with       *)
(* retries and falls back to the log, and the task queue (tasks/queue.py), *)
(* whose flush calls a handler for each task.  A plain FireAndForget, with *)
(* a flush that knows nothing of either, is the third case.                *)
(*                                                                         *)
(* flush() of FireAndForget is one step; here it is several, with other    *)
(* submits and the drain timeout of aclose() between them.                 *)
(***************************************************************************)
EXTENDS FireAndForget

CONSTANT MaxAttempts   \* _BACKEND_MAX_ATTEMPTS

ASSUME AttemptsAssumption == MaxAttempts \in Nat \ {0}

VARIABLES use,          \* what the worker is used for
          phase,        \* the step of flush() that comes next, or "none"
          attempt,      \* attempts of _write_with_retry, or tasks called
          write_failed, \* counter audit.write_failed
          stored,       \* history: events of batches that the backend acknowledged
          logged,       \* history: events the fallback backend acknowledged
          called        \* history: the tasks of _flush_batch, in order

flush_vars == <<phase, attempt>>
kept_vars == <<write_failed, stored, logged, called>>
dispatch_vars == <<vars, use, flush_vars, kept_vars>>

InBatch == {batch[i] : i \in DOMAIN batch}

\* Only a plain FireAndForget is used with drop_oldest.
DispatchInit ==
  /\ Init
  /\ use \in {"plain", "audit", "tasks"}
  /\ use # "plain" => overflow = "drop_newest"
  /\ phase = "none"
  /\ attempt = 0
  /\ write_failed = 0
  /\ stored = {}
  /\ logged = {}
  /\ called = <<>>

-----------------------------------------------------------------------------
\* The steps of FireAndForget in which flush() is not running.

Submit == Accept \/ DropNewest \/ DropOldest \/ Reject

Queue ==
  /\ Submit \/ GetFirst \/ GetMore \/ Close
  /\ UNCHANGED <<use, flush_vars, kept_vars>>

Begin(p) == phase' = p /\ attempt' = 0
EndFlush == Begin("none") /\ UNCHANGED use

\* The cancelled worker takes its flush with it.
Stop ==
  /\ Joined \/ DrainTimeout
  /\ EndFlush
  /\ UNCHANGED kept_vars

Flush ==
  /\ StartFlush
  /\ CASE use = "plain" -> Begin("none")
       [] use = "audit" -> Begin("sanitize")
       [] use = "tasks" -> Begin("call")
  /\ UNCHANGED <<use, kept_vars>>

PlainFlush ==
  /\ use = "plain"
  /\ FlushSucceeds \/ FlushFails
  /\ EndFlush
  /\ UNCHANGED kept_vars

Crash ==
  /\ FlushCrashes
  /\ EndFlush
  /\ UNCHANGED kept_vars

-----------------------------------------------------------------------------
\* FireAndForgetDispatcher._flush

\* All events of the batch are redacted before the first is written.
Sanitize ==
  /\ phase = "sanitize"
  /\ phase' = "write"
  /\ attempt' = 1
  /\ UNCHANGED <<vars, use, kept_vars>>

\* The sanitizer raises for one of them: the whole batch ends, unwritten.
SanitizeFails ==
  /\ phase = "sanitize"
  /\ FlushFails
  /\ EndFlush
  /\ UNCHANGED kept_vars

WriteSucceeds ==
  /\ phase = "write"
  /\ FlushSucceeds
  /\ stored' = stored \cup InBatch
  /\ EndFlush
  /\ UNCHANGED <<write_failed, logged, called>>

\* Fault: the last attempt is followed by the end of the flush.
WriteFails_GivesUp ==
  /\ phase = "write"
  /\ IF attempt < MaxAttempts
     THEN /\ phase' = "sleep"
          /\ UNCHANGED <<vars, use, attempt, kept_vars>>
     ELSE /\ FlushSucceeds
          /\ EndFlush
          /\ UNCHANGED kept_vars

\* An attempt raises, whether or not its transaction was committed.
WriteFails ==
  /\ phase = "write"
  /\ phase' = IF attempt < MaxAttempts THEN "sleep" ELSE "fallback"
  /\ write_failed' = IF attempt < MaxAttempts THEN write_failed ELSE write_failed + Len(batch)
  /\ UNCHANGED <<vars, use, attempt, stored, logged, called>>

\* asyncio.sleep(_backoff_s(attempt)) ends.
Wake ==
  /\ phase = "sleep"
  /\ phase' = "write"
  /\ attempt' = attempt + 1
  /\ UNCHANGED <<vars, use, kept_vars>>

\* The fallback may fail too; the flush returns normally in either case.
Fallback ==
  /\ phase = "fallback"
  /\ FlushSucceeds
  /\ logged' \in {logged, logged \cup InBatch}
  /\ EndFlush
  /\ UNCHANGED <<write_failed, stored, called>>

-----------------------------------------------------------------------------
\* tasks.queue._flush_batch

\* Fault: a task that fails ends the batch, which is then run again.
CallNext_Again ==
  /\ phase = "call"
  /\ attempt < Len(batch)
  /\ called' = Append(called, batch[attempt + 1])
  /\ attempt' \in {0, attempt + 1}
  /\ UNCHANGED <<vars, use, phase, write_failed, stored, logged>>

\* The next handler has run.  What it raises, and that it is not registered
\* any more, is only counted.
CallNext ==
  /\ phase = "call"
  /\ attempt < Len(batch)
  /\ called' = Append(called, batch[attempt + 1])
  /\ attempt' = attempt + 1
  /\ UNCHANGED <<vars, use, phase, write_failed, stored, logged>>

CallsEnd ==
  /\ phase = "call"
  /\ attempt = Len(batch)
  /\ FlushSucceeds
  /\ EndFlush
  /\ UNCHANGED kept_vars

FlushStep ==
  \/ PlainFlush \/ Crash
  \/ Sanitize \/ SanitizeFails
  \/ WriteSucceeds \/ WriteFails \/ Wake \/ Fallback
  \/ CallNext \/ CallsEnd

DispatchNext == Queue \/ Flush \/ Stop \/ FlushStep

\* The worker is scheduled, what flush() awaits ends, the timer fires.
DispatchSpec ==
  /\ DispatchInit /\ [][DispatchNext]_dispatch_vars
  /\ WF_dispatch_vars(GetFirst /\ Queue)
  /\ WF_dispatch_vars(Flush)
  /\ WF_dispatch_vars(FlushStep)
  /\ WF_dispatch_vars(Stop)

-----------------------------------------------------------------------------
\* Properties.

\* An event counted as flushed has been stored, or is counted by
\* audit.write_failed: the worker cannot tell the two apart, because
\* _write_with_retry returns normally even when the fallback fails as well.
FlushedIsStoredOrCounted ==
  use = "audit" => Cardinality(With("flushed") \ stored) <= write_failed

\* However tasks fail, workers die and batches are cut, no task runs twice or
\* before an earlier one, and one that counts as flushed has run.
TasksRunOnce ==
  use = "tasks" =>
    /\ \A i, j \in DOMAIN called : i < j => called[i] < called[j]
    /\ With("flushed") \subseteq {called[i] : i \in DOMAIN called}
=============================================================================
