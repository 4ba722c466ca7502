--------------------------- MODULE FireAndForget ---------------------------
(***************************************************************************)
(* FireAndForget (dispatch/fire_and_forget.py): a bounded asyncio.Queue, a *)
(* worker task that drains it in batches, submitters that never wait, and  *)
(* aclose(), which drains within a time limit and then cancels the worker. *)
(*                                                                         *)
(* Everything runs on one event loop.  submit() never awaits and is one    *)
(* step.  The worker can be overtaken wherever it awaits: in get(), while  *)
(* it fills a batch, and while flush() runs.  aclose() is overtaken while  *)
(* it waits for the queue to be joined.                                    *)
(*                                                                         *)
(* Events are numbered in the order they are submitted.  fate and handed   *)
(* are history: what became of each event, and the order in which events   *)
(* were given to flush().                                                  *)
(***************************************************************************)
EXTENDS Integers, Sequences, FiniteSets, SequencesExt

CONSTANTS MaxEvents,  \* bound on the number of submit() calls
          QueueSize,  \* queue_size
          BatchMax    \* batch_max

ASSUME FireAndForgetAssumption ==
  /\ MaxEvents \in Nat
  /\ QueueSize \in Nat \ {0}
  /\ BatchMax \in Nat \ {0}

VARIABLES overflow,    \* _overflow, fixed when the object is made
          queue,       \* the items of _queue
          unfinished,  \* the queue's count of items without a task_done()
          worker,      \* _worker: "none", "waiting", "filling", "flushing", "dead"
          batch,       \* the worker's batch
          closed,      \* _closed
          closer,      \* aclose(): "idle", "joining", "done"
          metric,      \* the counters that were incremented
          fate,        \* history: per event submitted so far
          handed       \* history: the events given to flush, in order

vars == <<overflow, queue, unfinished, worker, batch, closed, closer, metric, fate, handed>>

Fates == {"queued", "batched", "flushed", "failed",   \* accepted
          "refused", "evicted", "expired",            \* dropped, and counted
          "rejected",                                 \* RuntimeError: closed
          "cancelled", "crashed"}                     \* lost with the worker's batch

With(f) == {e \in DOMAIN fate : fate[e] = f}

\* The events of s share a new fate.
Settle(s, f) == fate' = [e \in DOMAIN fate |-> IF Contains(s, e) THEN f ELSE fate[e]]

Counters == {"submitted", "dropped", "flushed", "flush_failed"}

Count(name, n) == metric' = [metric EXCEPT ![name] = @ + n]

Init ==
  /\ overflow \in {"drop_newest", "drop_oldest"}
  /\ queue = <<>>
  /\ unfinished = 0
  /\ worker = "none"
  /\ batch = <<>>
  /\ closed = FALSE
  /\ closer = "idle"
  /\ metric = [name \in Counters |-> 0]
  /\ fate = <<>>
  /\ handed = <<>>

-----------------------------------------------------------------------------
\* submit()

Event == Len(fate) + 1

MaySubmit == Len(fate) < MaxEvents

EnsureStarted == worker' = IF worker \in {"none", "dead"} THEN "waiting" ELSE worker

Accept ==
  /\ MaySubmit /\ ~closed
  /\ EnsureStarted
  /\ Len(queue) < QueueSize
  /\ queue' = Append(queue, Event)
  /\ unfinished' = unfinished + 1
  /\ fate' = Append(fate, "queued")
  /\ Count("submitted", 1)
  /\ UNCHANGED <<overflow, batch, closed, closer, handed>>

DropNewest ==
  /\ MaySubmit /\ ~closed
  /\ EnsureStarted
  /\ Len(queue) >= QueueSize
  /\ overflow = "drop_newest"
  /\ fate' = Append(fate, "refused")
  /\ Count("dropped", 1)
  /\ UNCHANGED <<overflow, queue, unfinished, batch, closed, closer, handed>>

\* Fault: the displaced event is not marked done.
Displace_NoTaskDone ==
  /\ queue' = Append(Tail(queue), Event)
  /\ fate' = Append([fate EXCEPT ![Head(queue)] = "evicted"], "queued")
  /\ unfinished' = unfinished + 1

\* Fault: no room is made before the new event is put.
Displace_NoGet ==
  /\ queue' = Append(queue, Event)
  /\ fate' = Append(fate, "queued")
  /\ unfinished' = unfinished + 1

\* get_nowait, task_done, put_nowait: the count of unfinished items is even.
Displace ==
  /\ queue' = Append(Tail(queue), Event)
  /\ fate' = Append([fate EXCEPT ![Head(queue)] = "evicted"], "queued")
  /\ UNCHANGED unfinished

DropOldest ==
  /\ MaySubmit /\ ~closed
  /\ EnsureStarted
  /\ Len(queue) >= QueueSize
  /\ overflow = "drop_oldest"
  /\ Displace
  /\ Count("dropped", 1)
  /\ UNCHANGED <<overflow, batch, closed, closer, handed>>

Reject ==
  /\ MaySubmit /\ closed
  /\ fate' = Append(fate, "rejected")
  /\ UNCHANGED <<overflow, queue, unfinished, worker, batch, closed, closer, metric, handed>>

-----------------------------------------------------------------------------
\* The worker.

Take ==
  /\ queue # <<>>
  /\ batch' = Append(batch, Head(queue))
  /\ queue' = Tail(queue)
  /\ fate' = [fate EXCEPT ![Head(queue)] = "batched"]
  /\ UNCHANGED <<overflow, unfinished, closed, closer, metric, handed>>

GetFirst ==
  /\ worker = "waiting"
  /\ Take
  /\ worker' = "filling"

GetMore ==
  /\ worker = "filling"
  /\ Len(batch) < BatchMax
  /\ Take
  /\ UNCHANGED worker

\* Fault: a batch that is not full waits for more events without a limit.
StartFlush_FullOnly ==
  /\ worker = "filling"
  /\ Len(batch) = BatchMax
  /\ worker' = "flushing"
  /\ handed' = handed \o batch
  /\ UNCHANGED <<overflow, queue, unfinished, batch, closed, closer, metric, fate>>

\* The batch is full or batch_interval_ms has elapsed: flush() is called.
StartFlush ==
  /\ worker = "filling"
  /\ worker' = "flushing"
  /\ handed' = handed \o batch
  /\ UNCHANGED <<overflow, queue, unfinished, batch, closed, closer, metric, fate>>

BatchDone ==
  /\ unfinished' = unfinished - Len(batch)
  /\ batch' = <<>>
  /\ worker' = "waiting"

FlushSucceeds ==
  /\ worker = "flushing"
  /\ Settle(batch, "flushed")
  /\ Count("flushed", Len(batch))
  /\ BatchDone
  /\ UNCHANGED <<overflow, queue, closed, closer, handed>>

\* Fault: a batch that fails is put back to be flushed again.
FlushFails_Requeues ==
  /\ worker = "flushing"
  /\ Settle(batch, "queued")
  /\ queue' = batch \o queue
  /\ batch' = <<>>
  /\ worker' = "waiting"
  /\ UNCHANGED <<overflow, unfinished, closed, closer, metric, handed>>

FlushFails ==
  /\ worker = "flushing"
  /\ Settle(batch, "failed")
  /\ Count("flush_failed", Len(batch))
  /\ BatchDone
  /\ UNCHANGED <<overflow, queue, closed, closer, handed>>

\* A BaseException of flush() is not caught: the task ends with its batch, and
\* only the next submit() starts another.
FlushCrashes ==
  /\ worker = "flushing"
  /\ Settle(batch, "crashed")
  /\ batch' = <<>>
  /\ worker' = "dead"
  /\ UNCHANGED <<overflow, queue, unfinished, closed, closer, metric, handed>>

-----------------------------------------------------------------------------
\* aclose()

Close ==
  /\ ~closed
  /\ closed' = TRUE
  /\ closer' = IF worker = "none" THEN "done" ELSE "joining"
  /\ UNCHANGED <<overflow, queue, unfinished, worker, batch, metric, fate, handed>>

\* _worker.cancel() and the wait for it: nothing else can reach the batch.
CancelWorker ==
  /\ worker' = "dead"
  /\ batch' = <<>>
  /\ closer' = "done"

Joined ==
  /\ closer = "joining"
  /\ unfinished = 0
  /\ CancelWorker
  /\ UNCHANGED <<overflow, queue, unfinished, closed, metric, fate, handed>>

\* Fault: the shutdown path does not look at what is left in the queue.
DrainTimeout_Uncounted ==
  /\ closer = "joining"
  /\ CancelWorker
  /\ fate' = [e \in DOMAIN fate |-> CASE Contains(batch, e) -> "cancelled"
                                      [] Contains(queue, e) -> "expired"
                                      [] OTHER -> fate[e]]
  /\ UNCHANGED <<overflow, queue, unfinished, closed, metric, handed>>

\* Fault: the wait for the queue has no time limit.
DrainTimeout_NoLimit == Joined

\* drain_timeout elapses first.  What is in the queue is counted as dropped;
\* what the worker holds is not in the queue any more.
DrainTimeout ==
  /\ closer = "joining"
  /\ Count("dropped", Len(queue))
  /\ CancelWorker
  /\ fate' = [e \in DOMAIN fate |-> CASE Contains(batch, e) -> "cancelled"
                                      [] Contains(queue, e) -> "expired"
                                      [] OTHER -> fate[e]]
  /\ UNCHANGED <<overflow, queue, unfinished, closed, handed>>

Next ==
  \/ Accept \/ DropNewest \/ DropOldest \/ Reject
  \/ GetFirst \/ GetMore \/ StartFlush
  \/ FlushSucceeds \/ FlushFails \/ FlushCrashes
  \/ Close \/ Joined \/ DrainTimeout

Spec == Init /\ [][Next]_vars

\* The worker is scheduled, flush() ends, and the timer of aclose() fires.
Fairness ==
  /\ WF_vars(GetFirst)
  /\ WF_vars(StartFlush)
  /\ WF_vars(FlushSucceeds \/ FlushFails \/ FlushCrashes)
  /\ WF_vars(Joined \/ DrainTimeout)

FairSpec == Spec /\ Fairness

-----------------------------------------------------------------------------
\* Properties.

TypeOK ==
  /\ overflow \in {"drop_newest", "drop_oldest"}
  /\ queue \in Seq(1 .. MaxEvents) /\ Len(queue) <= QueueSize
  /\ unfinished \in 0 .. MaxEvents
  /\ worker \in {"none", "waiting", "filling", "flushing", "dead"}
  /\ batch \in Seq(1 .. MaxEvents) /\ Len(batch) <= BatchMax
  /\ closed \in BOOLEAN
  /\ closer \in {"idle", "joining", "done"}
  /\ metric \in [Counters -> 0 .. MaxEvents]
  /\ fate \in Seq(Fates) /\ Len(fate) <= MaxEvents
  /\ handed \in Seq(1 .. MaxEvents)

\* What aclose() waits for is the work that is left: every event in the queue
\* or in the worker's batch, and only those, unless the worker died with one.
\* Otherwise the drain ends early, or always lasts for the whole timeout.
JoinWaitsForTheWork ==
  unfinished = Len(queue) + Len(batch) + Cardinality(With("crashed"))
                 + Cardinality(With("cancelled"))

\* Every event that was submitted is in exactly one place or counted by
\* exactly one metric, except those the worker's task took with it.
EveryEventAccounted ==
  Len(fate) = Cardinality(With("queued")) + Cardinality(With("batched"))
                + metric["flushed"] + metric["flush_failed"] + metric["dropped"]
                + Cardinality(With("rejected") \cup With("cancelled") \cup With("crashed"))

\* flush() sees no event twice and sees them in the order of submission,
\* whatever the overflow policy displaces and however workers are replaced.
HandedInOrder ==
  \A i, j \in DOMAIN handed : i < j => handed[i] < handed[j]

\* aclose() returns within its time limit, whatever flush() does.
AcloseReturns == closer = "joining" ~> closer = "done"

Pending == With("queued") \cup With("batched")

\* An accepted event reaches flush() or is dropped visibly; it waits for ever
\* only behind a worker that has died and that no submit() has replaced.
NoEventWaitsForever ==
  \A e \in 1 .. MaxEvents :
    e \in Pending ~> (e \notin Pending \/ worker = "dead")

\* fire_and_forget.py:225-226: events still pending when the timeout elapses
\* are counted as dropped.
PendingCountedAsDropped == closer = "done" => With("cancelled") = {}
=============================================================================
