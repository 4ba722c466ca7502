--------------------------- MODULE Dispatch_proofs ---------------------------
(***************************************************************************)
(* Proofs about FireAndForget and Dispatch, for any number of events and   *)
(* any sizes of the queue and the batch, in both overflow modes: what the  *)
(* worker promises, that the audit dispatcher and the task queue are uses  *)
(* of it that keep its promises, and that tasks run once, in order.        *)
(***************************************************************************)
EXTENDS Dispatch, FiniteSetTheorems, TLAPS

Types ==
  /\ overflow \in {"drop_newest", "drop_oldest"}
  /\ queue \in Seq(Nat) /\ batch \in Seq(Nat) /\ handed \in Seq(Nat)
  /\ unfinished \in Int
  /\ worker \in {"none", "waiting", "filling", "flushing", "dead"}
  /\ closed \in BOOLEAN
  /\ closer \in {"idle", "joining", "done"}
  /\ metric \in [Counters -> Nat]
  /\ fate \in Seq(Fates)

Increasing(s) == \A i, j \in 1 .. Len(s) : i < j => s[i] < s[j]
Within(s, n) == \A i \in 1 .. Len(s) : s[i] \in 1 .. n
Before(s, t) == \A i \in 1 .. Len(s), j \in 1 .. Len(t) : s[i] < t[j]

\* Events pass through the queue and the batch in the order of submission.
\* While flush() runs its batch is the end of what has been handed over.
Ordered ==
  /\ Increasing(queue) /\ Increasing(batch) /\ Increasing(handed)
  /\ Before(batch, queue) /\ Before(handed, queue)
  /\ worker = "filling" => Before(handed, batch)
  /\ Within(queue, Len(fate)) /\ Within(batch, Len(fate)) /\ Within(handed, Len(fate))

\* Only a worker that fills or flushes holds events, and none works after
\* aclose() has returned.
Holds ==
  /\ worker \notin {"filling", "flushing"} => batch = <<>>
  /\ worker = "none" => queue = <<>>
  /\ closer # "idle" => closed
  /\ closer = "done" => worker \in {"none", "dead"}

OrderInv == Types /\ Ordered /\ Holds

LEMMA InitOrderInv == Init => OrderInv
<1> SUFFICES ASSUME Init PROVE OrderInv
  OBVIOUS
<1>1. Types
  <2>1. metric \in [Counters -> Nat] /\ unfinished \in Int
    BY DEF Init
  <2>2. <<>> \in Seq(Nat) /\ <<>> \in Seq(Fates)
    OBVIOUS
  <2>3. QED
    BY <2>1, <2>2 DEF Init, Types
<1>2. \A s : Increasing(<<>>) /\ Before(<<>>, s) /\ \A n : Within(<<>>, n)
  BY DEF Increasing, Before, Within
<1>3. Ordered /\ Holds
  BY <1>2 DEF Init, Ordered, Holds
<1>4. QED
  BY <1>1, <1>3 DEF OrderInv

-----------------------------------------------------------------------------
\* Lemmas on increasing sequences.

LEMMA AppendLater ==
  ASSUME NEW s \in Seq(Nat), NEW e \in Nat, Increasing(s), \A i \in 1 .. Len(s) : s[i] < e
  PROVE  Append(s, e) \in Seq(Nat) /\ Increasing(Append(s, e))
<1> DEFINE t == Append(s, e)
<1>1. /\ t \in Seq(Nat) /\ Len(s) \in Nat /\ Len(t) = Len(s) + 1
      /\ \A i \in 1 .. Len(s) : t[i] = s[i]
      /\ t[Len(s) + 1] = e
  OBVIOUS
<1> HIDE DEF t
<1>2. SUFFICES ASSUME NEW i \in 1 .. Len(t), NEW j \in 1 .. Len(t), i < j
               PROVE  t[i] < t[j]
  BY <1>1 DEF Increasing, t
<1>3. i \in 1 .. Len(s) /\ (j \in 1 .. Len(s) \/ j = Len(s) + 1)
  <2>1. i \in 1 .. Len(s) + 1 /\ j \in 1 .. Len(s) + 1 /\ i < j /\ Len(s) \in Nat
    BY <1>1, <1>2
  <2>2. QED
    BY <2>1
<1>4. QED
  BY <1>1, <1>2, <1>3 DEF Increasing

LEMMA TailIncreases ==
  ASSUME NEW s \in Seq(Nat), s # <<>>, Increasing(s)
  PROVE  /\ Tail(s) \in Seq(Nat) /\ Len(Tail(s)) = Len(s) - 1
         /\ \A i \in 1 .. Len(Tail(s)) : Tail(s)[i] = s[i + 1]
         /\ Increasing(Tail(s))
         /\ Head(s) = s[1] /\ 1 \in 1 .. Len(s)
         /\ \A i \in 1 .. Len(Tail(s)) : Head(s) < Tail(s)[i]
BY DEF Increasing

LEMMA ConcatIncreases ==
  ASSUME NEW s \in Seq(Nat), NEW t \in Seq(Nat), Increasing(s), Increasing(t), Before(s, t)
  PROVE  s \o t \in Seq(Nat) /\ Increasing(s \o t)
<1> DEFINE u == s \o t
           n == Len(s)
           m == Len(t)
<1>1. /\ u \in Seq(Nat) /\ Len(u) = n + m /\ n \in Nat /\ m \in Nat
      /\ \A i \in 1 .. n + m : u[i] = IF i <= n THEN s[i] ELSE t[i - n]
  OBVIOUS
<1>2. /\ \A i, j \in 1 .. n : i < j => s[i] < s[j]
      /\ \A i, j \in 1 .. m : i < j => t[i] < t[j]
      /\ \A i \in 1 .. n, j \in 1 .. m : s[i] < t[j]
  BY DEF Increasing, Before
<1> HIDE DEF u, n, m
<1>3. SUFFICES ASSUME NEW i \in 1 .. n + m, NEW j \in 1 .. n + m, i < j
               PROVE  u[i] < u[j]
  BY <1>1 DEF Increasing, u
<1>4. i \in Int /\ j \in Int
  BY <1>1
<1>5. CASE j <= n
  <2>1. i \in 1 .. n /\ j \in 1 .. n /\ i <= n
    BY <1>1, <1>3, <1>4, <1>5
  <2>2. u[i] = s[i] /\ u[j] = s[j]
    BY <1>1, <1>5, <2>1
  <2>3. QED
    BY <1>2, <1>3, <2>1, <2>2
<1>6. CASE i <= n /\ ~(j <= n)
  <2>1. i \in 1 .. n /\ j - n \in 1 .. m
    BY <1>1, <1>3, <1>4, <1>6
  <2>2. u[i] = s[i] /\ u[j] = t[j - n]
    BY <1>1, <1>6
  <2>3. QED
    BY <1>2, <2>1, <2>2
<1>7. CASE ~(i <= n)
  <2>1. ~(j <= n) /\ i - n \in 1 .. m /\ j - n \in 1 .. m /\ i - n < j - n
    BY <1>1, <1>3, <1>4, <1>7
  <2>2. u[i] = t[i - n] /\ u[j] = t[j - n]
    BY <1>1, <1>7, <2>1
  <2>3. QED
    BY <1>2, <2>1, <2>2
<1>8. QED
  BY <1>5, <1>6, <1>7

\* Events get other fates.
LEMMA NewFates ==
  ASSUME NEW n \in Nat, NEW t \in [1 .. n -> Fates]
  PROVE  t \in Seq(Fates) /\ Len(t) = n
OBVIOUS

LEMMA FateIsFunction ==
  ASSUME Types
  PROVE  fate \in [1 .. Len(fate) -> Fates] /\ Len(fate) \in Nat /\ DOMAIN fate = 1 .. Len(fate)
BY DEF Types

LEMMA CountStays ==
  ASSUME metric \in [Counters -> Nat], NEW name \in Counters, NEW n \in Nat, Count(name, n)
  PROVE  metric' \in [Counters -> Nat]
<1>1. metric' = [metric EXCEPT ![name] = metric[name] + n] /\ metric[name] + n \in Nat
  BY DEF Count
<1>2. QED
  BY <1>1

-----------------------------------------------------------------------------
\* submit()

LEMMA EventIsLast ==
  ASSUME OrderInv
  PROVE  Event \in Nat \ {0} /\ Event = Len(fate) + 1
BY DEF OrderInv, Types, Event

\* A new event at the end of what is left of the queue.
LEMMA EnqueueKeepsOrder ==
  ASSUME OrderInv, NEW q \in Seq(Nat), queue' = Append(q, Event), Len(fate') = Len(fate) + 1,
         Increasing(q), \A i \in 1 .. Len(q) : \E j \in 1 .. Len(queue) : q[i] = queue[j],
         UNCHANGED <<batch, handed>>, worker' = "filling" => worker = "filling"
  PROVE  Ordered' /\ queue' \in Seq(Nat)
<1>1. Event \in Nat \ {0} /\ Event = Len(fate) + 1 /\ Len(fate) \in Nat
  BY EventIsLast DEF OrderInv, Types
<1>2. Within(q, Len(fate))
  BY DEF OrderInv, Ordered, Within
<1>3. queue' \in Seq(Nat) /\ Increasing(queue')
  BY <1>1, <1>2, AppendLater DEF Within
<1>4. /\ Len(queue') = Len(q) + 1
      /\ \A i \in 1 .. Len(queue') : i \in 1 .. Len(q) \/ i = Len(q) + 1
      /\ \A i \in 1 .. Len(q) : queue'[i] = q[i]
      /\ queue'[Len(q) + 1] = Event
  BY <1>1
<1>5. ASSUME NEW s \in Seq(Nat), Before(s, queue), Within(s, Len(fate))
      PROVE  Before(s, queue')
  <2>1. Before(s, q)
    BY <1>5 DEF Before
  <2>2. \A i \in 1 .. Len(s) : s[i] < Event
    BY <1>1, <1>5 DEF Within
  <2>3. QED
    BY <1>4, <2>1, <2>2 DEF Before
<1>6. ASSUME NEW s \in Seq(Nat), Within(s, Len(fate))
      PROVE  Within(s, Len(fate'))
  BY <1>1, <1>6 DEF Within
<1>7. Within(queue', Len(fate'))
  BY <1>1, <1>2, <1>4 DEF Within
<1>8. Before(batch', queue') /\ Before(handed', queue') /\ Within(batch', Len(fate')) /\ Within(handed', Len(fate'))
  BY <1>5, <1>6 DEF OrderInv, Types, Ordered
<1>9. QED
  BY <1>3, <1>7, <1>8 DEF OrderInv, Ordered

\* submit() leaves the batch alone, and starts a worker that holds nothing.
LEMMA SubmitKeepsOrder ==
  ASSUME OrderInv, Accept \/ DropNewest \/ DropOldest \/ Reject
  PROVE  OrderInv'
<1>1. ASSUME NEW f \in Fates, fate' = Append(fate, f)
      PROVE  fate' \in Seq(Fates) /\ Len(fate') = Len(fate) + 1
  BY <1>1 DEF OrderInv, Types
<1>2. fate' \in Seq(Fates) /\ Len(fate') = Len(fate) + 1
  <2>1. CASE DropOldest
    <3>1. "evicted" \in Fates /\ "queued" \in Fates
      BY DEF Fates
    <3> DEFINE displaced == [fate EXCEPT ![Head(queue)] = "evicted"]
    <3>2. displaced \in [1 .. Len(fate) -> Fates] /\ Len(fate) \in Nat
      BY <3>1, FateIsFunction DEF OrderInv
    <3>3. fate' = Append(displaced, "queued")
      BY <2>1 DEF DropOldest, Displace
    <3> HIDE DEF displaced
    <3>4. displaced \in Seq(Fates) /\ Len(displaced) = Len(fate)
      BY <3>2, NewFates
    <3>5. QED
      BY <3>1, <3>2, <3>3, <3>4
  <2>2. CASE Accept \/ DropNewest \/ Reject
    BY <1>1, <2>2 DEF Accept, DropNewest, Reject, Fates
  <2>3. QED
    BY <2>1, <2>2
<1>3. \/ EnsureStarted /\ ~closed
      \/ UNCHANGED <<worker, queue>>
  BY DEF Accept, DropNewest, DropOldest, Reject
<1>4. UNCHANGED <<overflow, batch, closed, closer, handed>>
  BY DEF Accept, DropNewest, DropOldest, Reject
<1>5. /\ worker' \in {"none", "waiting", "filling", "flushing", "dead"}
      /\ worker' \in {"filling", "flushing"} <=> worker \in {"filling", "flushing"}
      /\ worker' = "filling" => worker = "filling"
  BY <1>3 DEF EnsureStarted, OrderInv, Types
<1>6. Holds'
  BY <1>3, <1>4, <1>5 DEF OrderInv, Holds, EnsureStarted
<1>7. unfinished' \in Int /\ metric' \in [Counters -> Nat]
  <2>1. unfinished' = unfinished \/ unfinished' = unfinished + 1
    BY DEF Accept, DropNewest, DropOldest, Reject, Displace
  <2>2. metric' = metric \/ \E name \in Counters : Count(name, 1)
    BY DEF Accept, DropNewest, DropOldest, Reject, Counters
  <2>3. metric' \in [Counters -> Nat]
    BY <2>2, CountStays DEF OrderInv, Types
  <2>4. QED
    BY <2>1, <2>3 DEF OrderInv, Types
<1>8. Ordered' /\ queue' \in Seq(Nat)
  <2>1. CASE Accept
    BY <1>2, <1>4, <1>5, <2>1, EnqueueKeepsOrder DEF Accept, OrderInv, Types, Ordered
  <2>2. CASE DropOldest
    <3>1. queue # <<>>
      BY <2>2, FireAndForgetAssumption DEF DropOldest, OrderInv, Types
    <3>2. /\ Tail(queue) \in Seq(Nat) /\ Increasing(Tail(queue))
          /\ \A i \in 1 .. Len(Tail(queue)) : \E j \in 1 .. Len(queue) : Tail(queue)[i] = queue[j]
      BY <3>1, TailIncreases DEF OrderInv, Types, Ordered
    <3>3. queue' = Append(Tail(queue), Event)
      BY <2>2 DEF DropOldest, Displace
    <3>4. QED
      BY <1>2, <1>4, <1>5, <3>2, <3>3, EnqueueKeepsOrder
  <2>3. CASE DropNewest \/ Reject
    <3>1. UNCHANGED queue
      BY <2>3 DEF DropNewest, Reject
    <3>2. Len(fate) \in Nat
      BY DEF OrderInv, Types
    <3>3. \A s : Within(s, Len(fate)) => Within(s, Len(fate) + 1)
      BY <3>2 DEF Within
    <3>4. QED
      BY <1>2, <1>4, <1>5, <3>1, <3>3 DEF OrderInv, Types, Ordered
  <2>4. QED
    BY <2>1, <2>2, <2>3
<1>9. QED
  BY <1>2, <1>4, <1>5, <1>6, <1>7, <1>8 DEF OrderInv, Types

-----------------------------------------------------------------------------
\* The worker and aclose().

LEMMA TakeKeepsOrder ==
  ASSUME OrderInv, Take, worker \in {"waiting", "filling"}, worker' = "filling"
  PROVE  OrderInv'
<1> DEFINE h == Head(queue)
<1>1. /\ queue # <<>> /\ batch' = Append(batch, h) /\ queue' = Tail(queue)
      /\ fate' = [fate EXCEPT ![h] = "batched"]
      /\ UNCHANGED <<overflow, unfinished, closed, closer, metric, handed>>
  BY DEF Take
<1>2. /\ queue \in Seq(Nat) /\ Increasing(queue) /\ batch \in Seq(Nat) /\ Increasing(batch)
      /\ Before(batch, queue) /\ Before(handed, queue)
      /\ Before(handed, batch) /\ handed \in Seq(Nat)
  <2>1. CASE worker = "filling"
    BY <2>1 DEF OrderInv, Types, Ordered
  <2>2. CASE worker = "waiting"
    BY <2>2 DEF OrderInv, Types, Ordered, Holds, Before
  <2>3. QED
    BY <2>1, <2>2
<1>3. /\ queue' \in Seq(Nat) /\ Increasing(queue')
      /\ h = queue[1] /\ h \in Nat /\ 1 \in 1 .. Len(queue)
      /\ \A i \in 1 .. Len(queue') : /\ i + 1 \in 1 .. Len(queue) /\ queue'[i] = queue[i + 1]
                                     /\ h < queue'[i]
  BY <1>1, <1>2, TailIncreases
<1>4. batch' \in Seq(Nat) /\ Increasing(batch')
  BY <1>1, <1>2, <1>3, AppendLater DEF Before
<1>5. /\ Len(batch') = Len(batch) + 1
      /\ \A i \in 1 .. Len(batch') : i \in 1 .. Len(batch) \/ i = Len(batch) + 1
      /\ \A i \in 1 .. Len(batch) : batch'[i] = batch[i]
      /\ batch'[Len(batch) + 1] = h
  <2>1. batch' = Append(batch, h) /\ batch \in Seq(Nat) /\ h \in Nat
    BY <1>1, <1>2, <1>3
  <2>2. QED
    BY <2>1
<1>6. Before(batch', queue')
  BY <1>2, <1>3, <1>5 DEF Before
<1>7. Before(handed', queue') /\ Before(handed', batch')
  <2>1. handed' = handed /\ h = queue[1] /\ 1 \in 1 .. Len(queue)
    BY <1>1, <1>3
  <2>2. \A i \in 1 .. Len(handed), j \in 1 .. Len(queue) : handed[i] < queue[j]
    BY <1>2 DEF Before
  <2>3. \A i \in 1 .. Len(handed), j \in 1 .. Len(batch) : handed[i] < batch[j]
    BY <1>2 DEF Before
  <2>4. Before(handed', queue')
    BY <1>3, <2>1, <2>2 DEF Before
  <2>5. Before(handed', batch')
    BY <1>5, <2>1, <2>2, <2>3 DEF Before
  <2>6. QED
    BY <2>4, <2>5
<1>8. fate' \in Seq(Fates) /\ Len(fate') = Len(fate)
  <2>1. "batched" \in Fates
    BY DEF Fates
  <2>2. fate' \in [1 .. Len(fate) -> Fates] /\ Len(fate) \in Nat
    BY <1>1, <2>1, FateIsFunction DEF OrderInv
  <2>3. QED
    BY <2>2, NewFates
<1>9. Within(queue', Len(fate')) /\ Within(batch', Len(fate')) /\ Within(handed', Len(fate'))
  BY <1>1, <1>3, <1>5, <1>8 DEF OrderInv, Ordered, Within
<1>10. Types' /\ Ordered'
  BY <1>1, <1>2, <1>3, <1>4, <1>6, <1>7, <1>8, <1>9 DEF OrderInv, Types, Ordered
<1>11. Holds'
  BY <1>1 DEF OrderInv, Holds
<1>12. QED
  BY <1>10, <1>11 DEF OrderInv

LEMMA StartFlushKeepsOrder ==
  ASSUME OrderInv, StartFlush
  PROVE  OrderInv'
<1>1. handed' \in Seq(Nat) /\ Increasing(handed')
  BY ConcatIncreases DEF OrderInv, Types, Ordered, StartFlush
<1>2. /\ Len(handed') = Len(handed) + Len(batch)
      /\ Len(handed) \in Nat /\ Len(batch) \in Nat
      /\ \A i \in 1 .. Len(handed) + Len(batch) :
           handed'[i] = IF i <= Len(handed) THEN handed[i] ELSE batch[i - Len(handed)]
  BY DEF OrderInv, Types, StartFlush
<1>3. \A i \in 1 .. Len(handed') :
        \/ i \in 1 .. Len(handed) /\ handed'[i] = handed[i]
        \/ i - Len(handed) \in 1 .. Len(batch) /\ handed'[i] = batch[i - Len(handed)]
  BY <1>2
<1>4. Before(handed', queue) /\ Within(handed', Len(fate))
  BY <1>3 DEF OrderInv, Ordered, Before, Within
<1>5. Types' /\ Holds'
  BY <1>1 DEF OrderInv, Types, Holds, StartFlush
<1>6. Ordered'
  BY <1>1, <1>4 DEF OrderInv, Ordered, StartFlush
<1>7. QED
  BY <1>5, <1>6 DEF OrderInv

\* The batch is given up, in whatever way.
LEMMA DropBatchKeepsOrder ==
  ASSUME OrderInv, batch' = <<>>, worker' \in {"waiting", "dead"},
         fate' \in Seq(Fates), Len(fate') = Len(fate),
         unfinished' \in Int, metric' \in [Counters -> Nat],
         UNCHANGED <<overflow, queue, closed, handed>>,
         closer' \in {"idle", "joining", "done"},
         closer' = "done" => worker' = "dead", closer' # "idle" => closed
  PROVE  OrderInv'
<1>1. \A s : Increasing(<<>>) /\ Before(<<>>, s) /\ \A n : Within(<<>>, n)
  BY DEF Increasing, Before, Within
<1>2. Types'
  BY DEF OrderInv, Types
<1>3. Ordered' /\ Holds'
  BY <1>1 DEF OrderInv, Ordered, Holds
<1>4. QED
  BY <1>2, <1>3 DEF OrderInv

\* The end of a batch: flush() has ended, or the worker is cancelled.
LEMMA BatchEndsKeepsOrder ==
  ASSUME OrderInv,
         FlushSucceeds \/ FlushFails \/ FlushCrashes \/ Joined \/ DrainTimeout
  PROVE  OrderInv'
<1>1. /\ batch' = <<>> /\ worker' \in {"waiting", "dead"}
      /\ UNCHANGED <<overflow, queue, closed, handed>>
  BY DEF FlushSucceeds, FlushFails, FlushCrashes, Joined, DrainTimeout, BatchDone, CancelWorker
<1>2. fate' \in Seq(Fates) /\ Len(fate') = Len(fate)
  <2>1. \A e \in DOMAIN fate : fate[e] \in Fates
    BY FateIsFunction DEF OrderInv
  <2>2. fate' \in [DOMAIN fate -> Fates]
    <3>1. CASE FlushSucceeds \/ FlushFails \/ FlushCrashes
      BY <2>1, <3>1 DEF FlushSucceeds, FlushFails, FlushCrashes, Settle, Fates
    <3>2. CASE Joined
      BY <3>2, FateIsFunction DEF Joined, OrderInv
    <3>3. CASE DrainTimeout
      BY <2>1, <3>3 DEF DrainTimeout, Fates
    <3>4. QED
      BY <3>1, <3>2, <3>3
  <2>3. QED
    BY <2>2, FateIsFunction, NewFates DEF OrderInv
<1>3. unfinished' \in Int
  BY DEF FlushSucceeds, FlushFails, FlushCrashes, Joined, DrainTimeout, BatchDone,
         OrderInv, Types
<1>4. metric' \in [Counters -> Nat]
  <2>1. Len(queue) \in Nat /\ Len(batch) \in Nat
    BY DEF OrderInv, Types
  <2>2. metric' = metric \/ \E name \in Counters, n \in Nat : Count(name, n)
    BY <2>1 DEF FlushSucceeds, FlushFails, FlushCrashes, Joined, DrainTimeout, Counters
  <2>3. QED
    BY <2>2, CountStays DEF OrderInv, Types
<1>5. /\ closer' \in {"idle", "joining", "done"}
      /\ closer' = "done" => worker' = "dead"
      /\ closer' # "idle" => closed
  <2>1. CASE FlushSucceeds \/ FlushFails \/ FlushCrashes
    BY <2>1 DEF FlushSucceeds, FlushFails, FlushCrashes, OrderInv, Types, Holds
  <2>2. CASE Joined \/ DrainTimeout
    BY <2>2 DEF Joined, DrainTimeout, CancelWorker, OrderInv, Types, Holds
  <2>3. QED
    BY <2>1, <2>2
<1>6. QED
  BY <1>1, <1>2, <1>3, <1>4, <1>5, DropBatchKeepsOrder

LEMMA NextOrderInv == OrderInv /\ [Next]_vars => OrderInv'
<1> SUFFICES ASSUME OrderInv, [Next]_vars
             PROVE  OrderInv'
  OBVIOUS
<1>1. CASE GetFirst \/ GetMore
  BY <1>1, TakeKeepsOrder DEF GetFirst, GetMore
<1>2. CASE Close
  <2>1. Types' /\ Ordered'
    BY <1>2 DEF Close, OrderInv, Types, Ordered
  <2>2. Holds'
    BY <1>2 DEF Close, OrderInv, Holds
  <2>3. QED
    BY <2>1, <2>2 DEF OrderInv
<1>3. CASE UNCHANGED vars
  BY <1>3 DEF OrderInv, Types, Ordered, Holds, vars
<1>4. QED
  BY <1>1, <1>2, <1>3, SubmitKeepsOrder, StartFlushKeepsOrder, BatchEndsKeepsOrder DEF Next

\* flush() sees each event at most once and in the order of submission, under
\* both overflow policies and however workers die and are replaced.
THEOREM FlushedInOrder == Spec => []HandedInOrder
<1>1. OrderInv => HandedInOrder
  <2>1. SUFFICES ASSUME OrderInv
                 PROVE  \A i, j \in DOMAIN handed : i < j => handed[i] < handed[j]
    BY DEF HandedInOrder
  <2>2. DOMAIN handed = 1 .. Len(handed)
    BY <2>1 DEF OrderInv, Types
  <2>3. Increasing(handed)
    BY <2>1 DEF OrderInv, Ordered
  <2>4. QED
    BY <2>2, <2>3 DEF Increasing
<1>2. QED
  BY <1>1, InitOrderInv, NextOrderInv, PTL DEF Spec

-----------------------------------------------------------------------------
\* What the counters count.

Items(s) == {s[i] : i \in 1 .. Len(s)}
N(f) == Cardinality(With(f))

Queued == N("queued")
Batched == N("batched")
Rejected == N("rejected")
Cancelled == N("cancelled")
Crashed == N("crashed")

\* Events that a metric counts, and events that none does.
Counts == metric["flushed"] + metric["flush_failed"] + metric["dropped"]
Lost == Rejected + Cancelled + Crashed

\* What is in the worker's hands or waits for it has the fate that says so.
Placed ==
  /\ Items(batch) \subseteq With("batched")
  /\ closer # "done" => Items(queue) \subseteq With("queued")

\* aclose() waits for what is queued and held, and for what died with a worker.
JoinCount == unfinished = Len(queue) + Len(batch) + Crashed + Cancelled

FateCount ==
  Len(fate) = Queued + Batched + Counts + Lost

CountInv == OrderInv /\ Placed /\ JoinCount /\ FateCount

LEMMA WithFinite ==
  ASSUME OrderInv, NEW f
  PROVE  IsFiniteSet(With(f)) /\ N(f) \in Nat /\ With(f) \subseteq 1 .. Len(fate)
<1>1. With(f) \subseteq 1 .. Len(fate) /\ Len(fate) \in Nat
  BY FateIsFunction DEF OrderInv, With
<1>2. IsFiniteSet(1 .. Len(fate))
  BY <1>1, FS_Interval
<1>3. QED
  BY <1>1, <1>2, FS_Subset, FS_CardinalityType DEF N

\* As many events as places: none is in a sequence twice.
LEMMA ItemsCounted ==
  ASSUME NEW s \in Seq(Nat), Increasing(s)
  PROVE  IsFiniteSet(Items(s)) /\ Cardinality(Items(s)) = Len(s)
<1>1. Len(s) \in Nat /\ s \in [1 .. Len(s) -> Items(s)]
  BY DEF Items
<1>2. \A i, j \in 1 .. Len(s) : s[i] = s[j] => i = j
  <2>1. SUFFICES ASSUME NEW i \in 1 .. Len(s), NEW j \in 1 .. Len(s), s[i] = s[j], i # j
                 PROVE  FALSE
    OBVIOUS
  <2>2. s[i] \in Nat /\ s[j] \in Nat
    OBVIOUS
  <2>3. CASE i < j
    BY <2>1, <2>2, <2>3 DEF Increasing
  <2>4. CASE j < i
    BY <2>1, <2>2, <2>4 DEF Increasing
  <2>5. QED
    BY <1>1, <2>1, <2>3, <2>4
<1>3. \A e \in Items(s) : \E i \in 1 .. Len(s) : s[i] = e
  BY DEF Items
<1>4. s \in Bijection(1 .. Len(s), Items(s))
  BY <1>1, <1>2, <1>3 DEF Bijection, Injection, Surjection, IsInjective
<1>5. ExistsBijection(1 .. Len(s), Items(s))
  BY <1>4 DEF ExistsBijection
<1>6. IsFiniteSet(1 .. Len(s)) /\ Cardinality(1 .. Len(s)) = Len(s)
  <2>1. 1 \in Int /\ Len(s) \in Int
    BY <1>1
  <2>2. /\ IsFiniteSet(1 .. Len(s))
        /\ Cardinality(1 .. Len(s)) = IF 1 > Len(s) THEN 0 ELSE Len(s) - 1 + 1
    BY <2>1, FS_Interval
  <2>3. QED
    BY <1>1, <2>2
<1>7. QED
  BY <1>5, <1>6, FS_Bijection

\* Items after an append, and after the head is taken.
LEMMA ItemsAppend ==
  ASSUME NEW s \in Seq(Nat), NEW e \in Nat
  PROVE  /\ Len(Append(s, e)) = Len(s) + 1
         /\ Items(Append(s, e)) \subseteq Items(s) \cup {e}
<1> DEFINE t == Append(s, e)
<1>1. /\ Len(t) = Len(s) + 1
      /\ \A i \in 1 .. Len(t) : i \in 1 .. Len(s) \/ i = Len(s) + 1
      /\ \A i \in 1 .. Len(s) : t[i] = s[i]
      /\ t[Len(s) + 1] = e
  OBVIOUS
<1>2. QED
  BY <1>1 DEF Items

LEMMA ItemsTail ==
  ASSUME NEW s \in Seq(Nat), s # <<>>, Increasing(s)
  PROVE  /\ Len(Tail(s)) = Len(s) - 1 /\ Head(s) \in Items(s)
         /\ Items(Tail(s)) \subseteq Items(s) \ {Head(s)}
<1>1. /\ Len(s) \in Nat \ {0} /\ Head(s) = s[1] /\ 1 \in 1 .. Len(s)
      /\ Len(Tail(s)) = Len(s) - 1
      /\ \A i \in 1 .. Len(Tail(s)) : Tail(s)[i] = s[i + 1] /\ i + 1 \in 1 .. Len(s)
  OBVIOUS
<1>2. \A i \in 1 .. Len(s) : s[i] \in Nat /\ (1 < i => s[1] < s[i])
  BY <1>1 DEF Increasing
<1>3. \A i \in 1 .. Len(Tail(s)) : Tail(s)[i] \in Items(s) /\ Tail(s)[i] # s[1]
  <2>1. TAKE i \in 1 .. Len(Tail(s))
  <2>2. Tail(s)[i] = s[i + 1] /\ i + 1 \in 1 .. Len(s) /\ 1 < i + 1
    BY <1>1
  <2>3. s[1] < s[i + 1] /\ s[1] \in Nat /\ s[i + 1] \in Nat
    BY <1>1, <1>2, <2>2
  <2>4. QED
    BY <2>2, <2>3 DEF Items
<1>4. QED
  BY <1>1, <1>3 DEF Items

\* What leaves a set, and what joins one it was not in.
LEMMA Removed ==
  ASSUME NEW S, IsFiniteSet(S), NEW X, X \subseteq S
  PROVE  Cardinality(S \ X) = Cardinality(S) - Cardinality(X)
<1> DEFINE R == S \ X
<1>1. IsFiniteSet(R) /\ IsFiniteSet(X)
  BY FS_Subset
<1>2. S = R \cup X /\ R \cap X = {}
  OBVIOUS
<1>3. R = S \ X
  OBVIOUS
<1> HIDE DEF R
<1>4. Cardinality(R \cup X) = Cardinality(R) + Cardinality(X) - Cardinality(R \cap X)
  BY <1>1, FS_Union
<1>5. Cardinality(R \cap X) = 0
  BY <1>2, FS_EmptySet
<1>6. Cardinality(R) \in Nat /\ Cardinality(X) \in Nat
  BY <1>1, FS_CardinalityType
<1>7. Cardinality(R) = Cardinality(S) - Cardinality(X)
  BY <1>2, <1>4, <1>5, <1>6
<1>8. QED
  BY <1>3, <1>7

LEMMA Added ==
  ASSUME NEW T, IsFiniteSet(T), NEW X, IsFiniteSet(X), X \cap T = {}
  PROVE  Cardinality(T \cup X) = Cardinality(T) + Cardinality(X)
<1>1. Cardinality(T \cup X) = Cardinality(T) + Cardinality(X) - Cardinality(T \cap X)
  BY FS_Union
<1>2. T \cap X = {}
  OBVIOUS
<1>3. Cardinality(T \cap X) = 0
  BY <1>2, FS_EmptySet
<1>4. Cardinality(T) \in Nat /\ Cardinality(X) \in Nat
  BY FS_CardinalityType
<1>5. QED
  BY <1>1, <1>3, <1>4

\* A new event.
LEMMA EventGetsFate ==
  ASSUME OrderInv, NEW f, fate' = Append(fate, f)
  PROVE  /\ With(f)' = With(f) \cup {Event} /\ N(f)' = N(f) + 1
         /\ \A g : g # f => With(g)' = With(g) /\ N(g)' = N(g)
         /\ Len(fate') = Len(fate) + 1
<1>1. /\ fate \in Seq(Fates) /\ Len(fate) \in Nat /\ DOMAIN fate = 1 .. Len(fate)
      /\ Event = Len(fate) + 1
  BY FateIsFunction, EventIsLast DEF OrderInv, Types
<1>2. /\ DOMAIN fate' = 1 .. Len(fate) + 1 /\ Len(fate') = Len(fate) + 1
      /\ \A e \in 1 .. Len(fate) : fate'[e] = fate[e]
      /\ fate'[Len(fate) + 1] = f
  BY <1>1
<1>3. With(f)' = With(f) \cup {Event}
  BY <1>1, <1>2 DEF With
<1>4. \A g : g # f => With(g)' = With(g)
  BY <1>1, <1>2 DEF With
<1>5. Event \notin With(f)
  BY <1>1 DEF With
<1>6. N(f)' = N(f) + 1
  BY <1>3, <1>5, WithFinite, FS_AddElement DEF N
<1>7. QED
  BY <1>2, <1>3, <1>4, <1>6 DEF N

\* Events that are in one place get another fate.
LEMMA EventsMove ==
  ASSUME OrderInv, NEW f, NEW g, f # g, NEW X, X \subseteq With(f),
         DOMAIN fate' = DOMAIN fate, \A e \in DOMAIN fate : fate'[e] = IF e \in X THEN g ELSE fate[e]
  PROVE  /\ N(f)' = N(f) - Cardinality(X)
         /\ N(g)' = N(g) + Cardinality(X)
         /\ With(f)' = With(f) \ X /\ With(g)' = With(g) \cup X
         /\ \A h : h \notin {f, g} => With(h)' = With(h) /\ N(h)' = N(h)
<1>1. With(f)' = With(f) \ X
  BY DEF With
<1>2. With(g)' = With(g) \cup X
  BY DEF With
<1>3. X \cap With(g) = {}
  BY DEF With
<1>4. \A h : h \notin {f, g} => With(h)' = With(h)
  BY DEF With
<1>5. IsFiniteSet(With(f)) /\ IsFiniteSet(With(g)) /\ IsFiniteSet(X)
  BY WithFinite, FS_Subset
<1>6. N(f)' = N(f) - Cardinality(X) /\ N(g)' = N(g) + Cardinality(X)
  <2>1. Cardinality(With(f) \ X) = Cardinality(With(f)) - Cardinality(X)
    BY <1>5, Removed
  <2>2. Cardinality(With(g) \cup X) = Cardinality(With(g)) + Cardinality(X)
    BY <1>3, <1>5, Added
  <2>3. QED
    BY <1>1, <1>2, <2>1, <2>2 DEF N
<1>7. QED
  BY <1>1, <1>2, <1>4, <1>6 DEF N

LEMMA FatesDiffer ==
  ASSUME NEW f, NEW g, f # g
  PROVE  With(f) \cap With(g) = {}
BY DEF With

-----------------------------------------------------------------------------
\* Every action keeps the counts.

LEMMA InitCountInv == Init => CountInv
<1> SUFFICES ASSUME Init PROVE CountInv
  OBVIOUS
<1>1. \A f : With(f) = {}
  BY DEF Init, With
<1>2. \A f : N(f) = 0
  BY <1>1, FS_EmptySet DEF N
<1>3. Items(<<>>) = {}
  BY DEF Items
<1>4. Placed
  BY <1>3 DEF Init, Placed
<1>5. JoinCount /\ FateCount
  BY <1>2 DEF Init, JoinCount, FateCount, Counters,
       Queued, Batched, Rejected, Cancelled, Crashed, Counts, Lost
<1>6. QED
  BY <1>4, <1>5, InitOrderInv DEF CountInv

\* What the actions need of the invariant.
NumberTypes ==
  /\ Len(queue) \in Nat /\ Len(batch) \in Nat /\ unfinished \in Int
  /\ Len(fate) \in Nat /\ Counts \in Nat /\ Lost \in Nat
  /\ Queued \in Nat /\ Batched \in Nat /\ Rejected \in Nat
  /\ Cancelled \in Nat /\ Crashed \in Nat

LEMMA Numbers ==
  ASSUME OrderInv
  PROVE  NumberTypes
<1>1. \A f : N(f) \in Nat
  BY WithFinite
<1>2. /\ Queued \in Nat /\ Batched \in Nat /\ Rejected \in Nat
      /\ Cancelled \in Nat /\ Crashed \in Nat
  BY <1>1 DEF Queued, Batched, Rejected, Cancelled, Crashed
<1>3. Lost \in Nat
  BY <1>2 DEF Lost
<1>4. Counts \in Nat
  BY DEF OrderInv, Types, Counters, Counts
<1>5. /\ Len(queue) \in Nat /\ Len(batch) \in Nat /\ unfinished \in Int
      /\ Len(fate) \in Nat
  BY DEF OrderInv, Types
<1>6. QED
  BY <1>2, <1>3, <1>4, <1>5 DEF NumberTypes

\* Increments of a counter that is one of Counts, and of the one that is not.
LEMMA Counted ==
  ASSUME OrderInv, NEW name \in Counters \ {"submitted"}, NEW n \in Nat, Count(name, n)
  PROVE  Counts' = Counts + n
<1>1. /\ metric'[name] = metric[name] + n
      /\ \A other \in Counters : other # name => metric'[other] = metric[other]
      /\ \A other \in Counters : metric[other] \in Nat
  BY DEF OrderInv, Types, Count
<1>2. CASE name = "flushed"
  BY <1>1, <1>2 DEF Counts, Counters
<1>3. CASE name = "flush_failed"
  BY <1>1, <1>3 DEF Counts, Counters
<1>4. CASE name = "dropped"
  BY <1>1, <1>4 DEF Counts, Counters
<1>5. QED
  BY <1>2, <1>3, <1>4 DEF Counters

LEMMA SubmittedIsNotCounted ==
  ASSUME OrderInv, Count("submitted", 1)
  PROVE  Counts' = Counts
BY DEF OrderInv, Types, Count, Counts, Counters

LEMMA AcceptCounts ==
  ASSUME CountInv, Accept
  PROVE  Placed' /\ JoinCount' /\ FateCount'
<1>1. /\ queue' = Append(queue, Event) /\ unfinished' = unfinished + 1
      /\ fate' = Append(fate, "queued") /\ Count("submitted", 1) /\ ~closed
      /\ UNCHANGED <<batch, closed, closer>>
  BY DEF Accept
<1>2. OrderInv /\ closer # "done"
  BY <1>1 DEF CountInv, OrderInv, Holds
<1>3. /\ With("queued")' = With("queued") \cup {Event} /\ N("queued")' = N("queued") + 1
      /\ \A g : g # "queued" => With(g)' = With(g) /\ N(g)' = N(g)
      /\ Len(fate') = Len(fate) + 1
  BY <1>1, <1>2, EventGetsFate
<1>4. Items(queue') \subseteq Items(queue) \cup {Event}
  BY <1>1, <1>2, EventIsLast, ItemsAppend DEF OrderInv, Types
<1>12. Len(queue') = Len(queue) + 1
  BY <1>1, <1>2, EventIsLast, ItemsAppend DEF OrderInv, Types
<1>13. unfinished' = unfinished + 1 /\ Len(batch') = Len(batch)
  BY <1>1
<1>5. Counts' = Counts
  BY <1>1, <1>2, SubmittedIsNotCounted
<1>6. Placed'
  BY <1>1, <1>2, <1>3, <1>4 DEF CountInv, Placed, Items
<1>7. /\ Queued' = Queued + 1 /\ Batched' = Batched /\ Lost' = Lost
      /\ Cancelled' = Cancelled /\ Crashed' = Crashed
  BY <1>3 DEF Queued, Batched, Rejected, Cancelled, Crashed, Lost
<1>8. Len(fate') = Len(fate) + 1
  BY <1>3
<1>9. JoinCount'
  <2>1. unfinished = Len(queue) + Len(batch) + Crashed + Cancelled
    BY DEF CountInv, JoinCount
  <2>2. unfinished + 1 = (Len(queue) + 1) + Len(batch) + Crashed + Cancelled
    <3>1. NumberTypes
      BY <1>2, Numbers
    <3>2. QED
      BY <2>1, <3>1 DEF NumberTypes
  <2>3. QED
    BY <1>7, <1>12, <1>13, <2>2 DEF JoinCount
<1>10. FateCount'
  <2>1. Len(fate) = Queued + Batched + Counts + Lost
    BY DEF CountInv, FateCount
  <2>2. Len(fate) + 1 = (Queued + 1) + Batched + Counts + Lost
    <3>1. NumberTypes
      BY <1>2, Numbers
    <3>2. QED
      BY <2>1, <3>1 DEF NumberTypes
  <2>3. QED
    BY <1>5, <1>7, <1>8, <2>2 DEF FateCount
<1>11. QED
  BY <1>6, <1>9, <1>10

\* An event that is not let in.
LEMMA RefuseCounts ==
  ASSUME CountInv, DropNewest
  PROVE  Placed' /\ JoinCount' /\ FateCount'
<1>1. /\ OrderInv /\ UNCHANGED <<queue, batch, unfinished, closer>>
      /\ fate' = Append(fate, "refused") /\ Count("dropped", 1)
  BY DEF CountInv, DropNewest
<1>2. /\ \A g : g # "refused" => With(g)' = With(g) /\ N(g)' = N(g)
      /\ Len(fate') = Len(fate) + 1
  BY <1>1, EventGetsFate
<1>3. Len(fate') = Len(fate) + 1
  BY <1>2
<1>4. Counts' = Counts + 1
  BY <1>1, Counted DEF Counters
<1>5. /\ Queued' = Queued /\ Batched' = Batched /\ Lost' = Lost
      /\ Cancelled' = Cancelled /\ Crashed' = Crashed
  BY <1>2 DEF Queued, Batched, Rejected, Cancelled, Crashed, Lost
<1>6. Placed'
  BY <1>1, <1>2 DEF CountInv, Placed, Items
<1>7. JoinCount'
  BY <1>1, <1>5 DEF CountInv, JoinCount
<1>8. FateCount'
  <2>1. Len(fate) = Queued + Batched + Counts + Lost
    BY DEF CountInv, FateCount
  <2>2. Len(fate) + 1 = Queued + Batched + (Counts + 1) + Lost
    <3>1. NumberTypes
      BY <1>1, Numbers
    <3>2. QED
      BY <2>1, <3>1 DEF NumberTypes
  <2>3. QED
    BY <1>3, <1>4, <1>5, <2>2 DEF FateCount
<1>9. QED
  BY <1>6, <1>7, <1>8

LEMMA RejectCounts ==
  ASSUME CountInv, Reject
  PROVE  Placed' /\ JoinCount' /\ FateCount'
<1>1. /\ OrderInv /\ UNCHANGED <<queue, batch, unfinished, closer, metric>>
      /\ fate' = Append(fate, "rejected")
  BY DEF CountInv, Reject
<1>2. /\ \A g : g # "rejected" => With(g)' = With(g) /\ N(g)' = N(g)
      /\ N("rejected")' = N("rejected") + 1
      /\ Len(fate') = Len(fate) + 1
  BY <1>1, EventGetsFate
<1>3. Len(fate') = Len(fate) + 1
  BY <1>2
<1>9. Rejected' = Rejected + 1
  BY <1>2 DEF Rejected
<1>10. /\ Queued' = Queued /\ Batched' = Batched
       /\ Cancelled' = Cancelled /\ Crashed' = Crashed
  BY <1>2 DEF Queued, Batched, Cancelled, Crashed
<1>11. Lost' = Lost + 1 /\ Counts' = Counts
  <2>1. NumberTypes
    BY <1>1, Numbers
  <2>2. Lost' = Lost + 1
    BY <1>9, <1>10, <2>1 DEF Lost, NumberTypes
  <2>3. Counts' = Counts
    BY <1>1 DEF Counts
  <2>4. QED
    BY <2>2, <2>3
<1>5. Placed'
  BY <1>1, <1>2 DEF CountInv, Placed, Items
<1>6. JoinCount'
  BY <1>1, <1>10 DEF CountInv, JoinCount
<1>7. FateCount'
  <2>1. Len(fate) = Queued + Batched + Counts + Lost
    BY DEF CountInv, FateCount
  <2>2. Len(fate) + 1 = Queued + Batched + Counts + (Lost + 1)
    <3>1. NumberTypes
      BY <1>1, Numbers
    <3>2. QED
      BY <2>1, <3>1 DEF NumberTypes
  <2>3. QED
    BY <1>3, <1>10, <1>11, <2>2 DEF FateCount
<1>8. QED
  BY <1>5, <1>6, <1>7

\* drop_oldest: one event leaves the queue and is counted, one enters.
LEMMA DisplaceCounts ==
  ASSUME CountInv, DropOldest
  PROVE  Placed' /\ JoinCount' /\ FateCount'
<1>1. /\ queue' = Append(Tail(queue), Event) /\ Count("dropped", 1) /\ ~closed
      /\ fate' = Append([fate EXCEPT ![Head(queue)] = "evicted"], "queued")
      /\ Len(queue) >= QueueSize
      /\ UNCHANGED <<batch, unfinished, closed, closer>>
  BY DEF DropOldest, Displace
<1>2. OrderInv /\ closer # "done"
  BY <1>1 DEF CountInv, OrderInv, Holds
<1>3. queue \in Seq(Nat) /\ queue # <<>> /\ Increasing(queue)
  BY <1>1, <1>2, FireAndForgetAssumption DEF OrderInv, Types, Ordered
<1>4. /\ Head(queue) \in Items(queue) /\ Len(Tail(queue)) = Len(queue) - 1
      /\ Items(Tail(queue)) \subseteq Items(queue) \ {Head(queue)}
      /\ Len(queue) \in Nat
  BY <1>3, ItemsTail
<1>5. Head(queue) \in With("queued")
  BY <1>2, <1>4 DEF CountInv, Placed
<1>6. /\ fate \in [1 .. Len(fate) -> Fates] /\ Len(fate) \in Nat
      /\ Event = Len(fate) + 1 /\ fate \in Seq(Fates)
  BY <1>2, FateIsFunction, EventIsLast DEF OrderInv, Types
<1>7. /\ DOMAIN fate' = 1 .. Len(fate) + 1 /\ Len(fate') = Len(fate) + 1
      /\ \A e \in 1 .. Len(fate) : fate'[e] = IF e = Head(queue) THEN "evicted" ELSE fate[e]
      /\ fate'[Len(fate) + 1] = "queued"
  <2> DEFINE t == [fate EXCEPT ![Head(queue)] = "evicted"]
  <2>1. /\ t \in Seq(Fates) /\ Len(t) = Len(fate)
        /\ \A e \in 1 .. Len(fate) : t[e] = IF e = Head(queue) THEN "evicted" ELSE fate[e]
    <3>1. Head(queue) \in 1 .. Len(fate) /\ "evicted" \in Fates
      BY <1>5, <1>6 DEF With, Fates
    <3>2. t \in [1 .. Len(fate) -> Fates]
      BY <1>6, <3>1
    <3>3. t \in Seq(Fates) /\ Len(t) = Len(fate)
      BY <1>6, <3>2
    <3>4. QED
      BY <1>6, <3>1, <3>3
  <2>2. fate' = Append(t, "queued")
    BY <1>1
  <2> HIDE DEF t
  <2>3. QED
    BY <1>6, <2>1, <2>2
<1>8. /\ With("queued")' = (With("queued") \ {Head(queue)}) \cup {Event}
      /\ \A g : g \notin {"queued", "evicted"} => With(g)' = With(g)
  BY <1>5, <1>6, <1>7 DEF With
<1>9. Queued' = Queued
  <2>1. /\ IsFiniteSet(With("queued")) /\ Event \notin With("queued")
        /\ N("queued") \in Nat
    BY <1>2, <1>6, WithFinite DEF With
  <2> DEFINE R == With("queued") \ {Head(queue)}
  <2>2. IsFiniteSet(R) /\ Cardinality(R) = N("queued") - 1
    BY <1>5, <2>1, FS_RemoveElement DEF N
  <2>3. Event \notin R
    BY <2>1
  <2>5. With("queued")' = R \cup {Event}
    BY <1>8
  <2> HIDE DEF R
  <2>4. Cardinality(R \cup {Event}) = Cardinality(R) + 1
    BY <2>2, <2>3, FS_AddElement
  <2>6. Cardinality(R \cup {Event}) = N("queued")
    BY <2>1, <2>2, <2>4
  <2>7. N("queued")' = Cardinality(R \cup {Event})
    BY <2>5 DEF N
  <2>8. QED
    BY <2>6, <2>7 DEF Queued
<1>10. /\ Batched' = Batched /\ Lost' = Lost
       /\ Cancelled' = Cancelled /\ Crashed' = Crashed
  BY <1>8 DEF Batched, Rejected, Cancelled, Crashed, Lost, N
<1>11. Len(queue') = Len(queue)
  <2>1. Tail(queue) \in Seq(Nat) /\ Event \in Nat
    BY <1>3, <1>6
  <2>2. Len(queue') = Len(Tail(queue)) + 1
    BY <1>1, <2>1, ItemsAppend
  <2>3. QED
    BY <1>4, <2>2
<1>12. Items(queue') \subseteq (Items(queue) \ {Head(queue)}) \cup {Event}
  <2>1. Tail(queue) \in Seq(Nat) /\ Event \in Nat
    BY <1>3, <1>6
  <2>2. Items(queue') \subseteq Items(Tail(queue)) \cup {Event}
    BY <1>1, <2>1, ItemsAppend
  <2>3. QED
    BY <1>4, <2>2
<1>13. Placed'
  BY <1>1, <1>2, <1>8, <1>12 DEF CountInv, Placed, Items
<1>14. JoinCount'
  BY <1>1, <1>10, <1>11 DEF CountInv, JoinCount
<1>15. Counts' = Counts + 1 /\ Len(fate') = Len(fate) + 1
  BY <1>1, <1>2, <1>7, Counted DEF Counters
<1>16. FateCount'
  <2>1. Len(fate) = Queued + Batched + Counts + Lost
    BY DEF CountInv, FateCount
  <2>2. Len(fate) + 1 = Queued + Batched + (Counts + 1) + Lost
    <3>1. NumberTypes
      BY <1>2, Numbers
    <3>2. QED
      BY <2>1, <3>1 DEF NumberTypes
  <2>3. QED
    BY <1>9, <1>10, <1>15, <2>2 DEF FateCount
<1>17. QED
  BY <1>13, <1>14, <1>16

LEMMA TakeCounts ==
  ASSUME CountInv, closer # "done", Take
  PROVE  Placed' /\ JoinCount' /\ FateCount'
<1>1. /\ queue # <<>> /\ batch' = Append(batch, Head(queue)) /\ queue' = Tail(queue)
      /\ fate' = [fate EXCEPT ![Head(queue)] = "batched"]
      /\ UNCHANGED <<unfinished, closed, closer, metric>>
  BY DEF Take
<1>2. OrderInv
  BY DEF CountInv
<1>3. /\ queue \in Seq(Nat) /\ Increasing(queue) /\ batch \in Seq(Nat)
      /\ Head(queue) \in Nat
  BY <1>1, <1>2 DEF OrderInv, Types, Ordered
<1>4. /\ Head(queue) \in Items(queue) /\ Len(Tail(queue)) = Len(queue) - 1
      /\ Items(Tail(queue)) \subseteq Items(queue) \ {Head(queue)}
  BY <1>1, <1>3, ItemsTail
<1>5. Items(queue) \subseteq With("queued") /\ Items(batch) \subseteq With("batched")
  BY DEF CountInv, Placed
<1>6. /\ Items(batch') \subseteq Items(batch) \cup {Head(queue)}
      /\ Len(batch') = Len(batch) + 1
  BY <1>1, <1>3, ItemsAppend
<1> DEFINE X == {Head(queue)}
<1>7. X \subseteq With("queued") /\ Cardinality(X) = 1
  BY <1>4, <1>5, FS_Singleton
<1>8. /\ DOMAIN fate' = DOMAIN fate
      /\ \A e \in DOMAIN fate : fate'[e] = IF e \in X THEN "batched" ELSE fate[e]
  BY <1>1, <1>2, FateIsFunction DEF OrderInv
<1> HIDE DEF X
<1>9. /\ N("queued")' = N("queued") - Cardinality(X)
      /\ N("batched")' = N("batched") + Cardinality(X)
      /\ With("queued")' = With("queued") \ X /\ With("batched")' = With("batched") \cup X
      /\ \A h : h \notin {"queued", "batched"} => With(h)' = With(h) /\ N(h)' = N(h)
  BY <1>2, <1>7, <1>8, EventsMove
<1>10. Queued' = Queued - 1 /\ Batched' = Batched + 1
  BY <1>7, <1>9 DEF Queued, Batched
<1>11. /\ Lost' = Lost /\ Cancelled' = Cancelled /\ Crashed' = Crashed
  BY <1>9 DEF Rejected, Cancelled, Crashed, Lost
<1>12. Placed'
  BY <1>1, <1>4, <1>5, <1>6, <1>9 DEF Placed, X, Items
<1>13. Len(queue') = Len(queue) - 1 /\ Len(batch') = Len(batch) + 1
  BY <1>1, <1>4, <1>6
<1>14. JoinCount'
  <2>1. unfinished = Len(queue) + Len(batch) + Crashed + Cancelled
    BY DEF CountInv, JoinCount
  <2>2. unfinished = (Len(queue) - 1) + (Len(batch) + 1) + Crashed + Cancelled
    <3>1. NumberTypes
      BY <1>2, Numbers
    <3>2. QED
      BY <2>1, <3>1 DEF NumberTypes
  <2>3. QED
    BY <1>1, <1>11, <1>13, <2>2 DEF JoinCount
<1>15. Counts' = Counts /\ Len(fate') = Len(fate)
  BY <1>1, <1>2, FateIsFunction DEF Counts, OrderInv, Types
<1>16. FateCount'
  <2>1. Len(fate) = Queued + Batched + Counts + Lost
    BY DEF CountInv, FateCount
  <2>2. Len(fate) = (Queued - 1) + (Batched + 1) + Counts + Lost
    <3>1. NumberTypes
      BY <1>2, Numbers
    <3>2. QED
      BY <2>1, <3>1 DEF NumberTypes
  <2>3. QED
    BY <1>10, <1>11, <1>15, <2>2 DEF FateCount
<1>17. QED
  BY <1>12, <1>14, <1>16

LEMMA BatchInFates ==
  ASSUME CountInv
  PROVE  /\ Items(batch) \subseteq With("batched") /\ IsFiniteSet(Items(batch))
         /\ Cardinality(Items(batch)) = Len(batch)
BY ItemsCounted DEF CountInv, OrderInv, Types, Ordered, Placed

\* The batch leaves the worker's hands for one fate.
LEMMA BatchSettles ==
  ASSUME CountInv, NEW g, g \notin {"queued", "batched"}, Settle(batch, g),
         UNCHANGED <<queue, closer>>, batch' = <<>>
  PROVE  /\ N(g)' = N(g) + Len(batch) /\ Batched' = Batched - Len(batch)
         /\ \A h : h \notin {"batched", g} => N(h)' = N(h)
         /\ Placed' /\ Len(fate') = Len(fate) /\ Len(batch') = 0
<1> DEFINE X == Items(batch)
<1>1. /\ DOMAIN fate' = DOMAIN fate
      /\ \A e \in DOMAIN fate : fate'[e] = IF e \in X THEN g ELSE fate[e]
  BY DEF Settle, Contains, Items
<1>2. X \subseteq With("batched") /\ Cardinality(X) = Len(batch) /\ OrderInv
  BY BatchInFates DEF CountInv
<1> HIDE DEF X
<1>3. /\ N("batched")' = N("batched") - Len(batch)
      /\ N(g)' = N(g) + Len(batch)
      /\ \A h : h \notin {"batched", g} => With(h)' = With(h) /\ N(h)' = N(h)
  <2>1. /\ With("batched")' = With("batched") \ X /\ With(g)' = With(g) \cup X
        /\ \A h : h \notin {"batched", g} => With(h)' = With(h)
        /\ X \cap With(g) = {}
    BY <1>1, <1>2 DEF With
  <2>2. /\ IsFiniteSet(With("batched")) /\ IsFiniteSet(With(g)) /\ IsFiniteSet(X)
    BY <1>2, WithFinite, FS_Subset
  <2>3. /\ Cardinality(With("batched") \ X) = Cardinality(With("batched")) - Len(batch)
        /\ Cardinality(With(g) \cup X) = Cardinality(With(g)) + Len(batch)
    <3>1. Cardinality(With("batched") \ X) = Cardinality(With("batched")) - Cardinality(X)
      BY <1>2, <2>2, Removed
    <3>2. Cardinality(With(g) \cup X) = Cardinality(With(g)) + Cardinality(X)
      BY <2>1, <2>2, Added
    <3>3. QED
      BY <1>2, <3>1, <3>2
  <2>4. QED
    BY <2>1, <2>3 DEF N
<1>4. Placed'
  <2>1. Items(batch)' = {}
    BY DEF Items
  <2>2. With("queued")' = With("queued")
    BY <1>3
  <2>3. QED
    BY <2>1, <2>2 DEF CountInv, Placed, Items
<1>5. Len(fate') = Len(fate)
  BY <1>2, FateIsFunction DEF Settle, OrderInv, Types
<1>6. QED
  BY <1>2, <1>3, <1>4, <1>5 DEF Batched

LEMMA FlushCounts ==
  ASSUME CountInv, FlushSucceeds \/ FlushFails
  PROVE  Placed' /\ JoinCount' /\ FateCount'
<1>1. PICK g \in {"flushed", "failed"} :
        /\ Settle(batch, g)
        /\ g = "flushed" => Count("flushed", Len(batch))
        /\ g = "failed" => Count("flush_failed", Len(batch))
        /\ BatchDone
        /\ UNCHANGED <<queue, closer>>
  BY DEF FlushSucceeds, FlushFails
<1>2. OrderInv /\ Len(batch) \in Nat
  BY Numbers DEF NumberTypes, CountInv
<1>3. batch' = <<>> /\ unfinished' = unfinished - Len(batch) /\ UNCHANGED queue
  BY <1>1 DEF BatchDone
<1>4. /\ Batched' = Batched - Len(batch) /\ Len(batch') = 0
      /\ \A h : h \notin {"batched", g} => N(h)' = N(h)
      /\ Placed' /\ Len(fate') = Len(fate)
  BY <1>1, <1>3, BatchSettles
<1>5. /\ Queued' = Queued /\ Lost' = Lost /\ Cancelled' = Cancelled /\ Crashed' = Crashed
  BY <1>4 DEF Queued, Rejected, Cancelled, Crashed, Lost
<1>6. Counts' = Counts + Len(batch)
  BY <1>1, <1>2, Counted DEF Counters
<1>7. JoinCount'
  <2>1. unfinished = Len(queue) + Len(batch) + Crashed + Cancelled
    BY DEF CountInv, JoinCount
  <2>2. Len(queue') = Len(queue) /\ Len(batch') = 0
    BY <1>3, <1>4
  <2>3. unfinished - Len(batch) = Len(queue) + 0 + Crashed + Cancelled
    <3>1. NumberTypes
      BY <1>2, Numbers
    <3>2. QED
      BY <2>1, <3>1 DEF NumberTypes
  <2>4. QED
    BY <1>3, <1>5, <2>2, <2>3 DEF JoinCount
<1>8. Len(fate') = Len(fate) /\ Batched' = Batched - Len(batch)
  BY <1>4
<1>9. FateCount'
  <2>1. Len(fate) = Queued + Batched + Counts + Lost
    BY DEF CountInv, FateCount
  <2>2. Len(fate) = Queued + (Batched - Len(batch)) + (Counts + Len(batch)) + Lost
    <3>1. NumberTypes
      BY <1>2, Numbers
    <3>2. QED
      BY <2>1, <3>1 DEF NumberTypes
  <2>3. QED
    BY <1>5, <1>6, <1>8, <2>2 DEF FateCount
<1>10. QED
  BY <1>4, <1>7, <1>9

LEMMA CrashCounts ==
  ASSUME CountInv, FlushCrashes
  PROVE  Placed' /\ JoinCount' /\ FateCount'
<1>1. /\ Settle(batch, "crashed") /\ batch' = <<>>
      /\ UNCHANGED <<queue, unfinished, closer, metric>>
  BY DEF FlushCrashes
<1>2. OrderInv /\ Len(batch) \in Nat
  BY Numbers DEF NumberTypes, CountInv
<1>3. /\ N("crashed")' = N("crashed") + Len(batch)
      /\ Batched' = Batched - Len(batch) /\ Len(batch') = 0
      /\ \A h : h \notin {"batched", "crashed"} => N(h)' = N(h)
      /\ Placed' /\ Len(fate') = Len(fate)
  BY <1>1, BatchSettles
<1>4. Crashed' = Crashed + Len(batch)
  BY <1>3 DEF Crashed
<1>5. Queued' = Queued /\ Rejected' = Rejected /\ Cancelled' = Cancelled
  BY <1>3 DEF Queued, Rejected, Cancelled
<1>6. Lost' = Lost + Len(batch) /\ Counts' = Counts
  <2>1. NumberTypes
    BY <1>2, Numbers
  <2>2. Lost' = Lost + Len(batch)
    BY <1>4, <1>5, <2>1 DEF Lost, NumberTypes
  <2>3. Counts' = Counts
    BY <1>1 DEF Counts
  <2>4. QED
    BY <2>2, <2>3
<1>7. JoinCount'
  <2>1. unfinished = Len(queue) + Len(batch) + Crashed + Cancelled
    BY DEF CountInv, JoinCount
  <2>2. Len(queue') = Len(queue) /\ Len(batch') = 0 /\ unfinished' = unfinished
    BY <1>1, <1>3
  <2>3. unfinished = Len(queue) + 0 + (Crashed + Len(batch)) + Cancelled
    <3>1. NumberTypes
      BY <1>2, Numbers
    <3>2. QED
      BY <2>1, <3>1 DEF NumberTypes
  <2>4. QED
    BY <1>4, <1>5, <2>2, <2>3 DEF JoinCount
<1>8. Len(fate') = Len(fate) /\ Batched' = Batched - Len(batch)
  BY <1>3
<1>9. FateCount'
  <2>1. Len(fate) = Queued + Batched + Counts + Lost
    BY DEF CountInv, FateCount
  <2>2. Len(fate) = Queued + (Batched - Len(batch)) + Counts + (Lost + Len(batch))
    <3>1. NumberTypes
      BY <1>2, Numbers
    <3>2. QED
      BY <2>1, <3>1 DEF NumberTypes
  <2>3. QED
    BY <1>5, <1>6, <1>8, <2>2 DEF FateCount
<1>10. QED
  BY <1>3, <1>7, <1>9

\* aclose() that has waited for all the work finds nothing left to wait for.
LEMMA JoinedCounts ==
  ASSUME CountInv, Joined
  PROVE  Placed' /\ JoinCount' /\ FateCount'
<1>1. /\ unfinished = 0 /\ batch' = <<>> /\ closer' = "done"
      /\ UNCHANGED <<queue, unfinished, metric, fate>>
  BY DEF Joined, CancelWorker
<1>2. OrderInv /\ Len(batch) = 0 /\ batch \in Seq(Nat)
  <2>1. NumberTypes
    BY Numbers DEF CountInv
  <2>2. 0 = Len(queue) + Len(batch) + Crashed + Cancelled
    BY <1>1 DEF CountInv, JoinCount
  <2>3. Len(batch) = 0
    BY <2>1, <2>2 DEF NumberTypes
  <2>4. QED
    BY <2>3 DEF CountInv, OrderInv, Types
<1>3. UNCHANGED batch
  BY <1>1, <1>2
<1>4. QED
  BY <1>1, <1>3 DEF CountInv, Placed, JoinCount, FateCount, Items, N, With,
     Queued, Batched, Rejected, Cancelled, Crashed, Counts, Lost

\* What is queued is counted, what is held is not.
LEMMA DrainTimeoutCounts ==
  ASSUME CountInv, DrainTimeout
  PROVE  Placed' /\ JoinCount' /\ FateCount'
<1> DEFINE B == Items(batch)
           Q == Items(queue)
<1>1. /\ closer = "joining" /\ closer' = "done" /\ Count("dropped", Len(queue))
      /\ batch' = <<>> /\ UNCHANGED <<queue, unfinished>>
      /\ fate' = [e \in DOMAIN fate |-> CASE e \in B -> "cancelled"
                                           [] e \in Q -> "expired"
                                           [] OTHER -> fate[e]]
  BY DEF DrainTimeout, CancelWorker, Contains, Items
<1>2. OrderInv /\ Len(batch) \in Nat /\ Len(queue) \in Nat
  BY Numbers DEF NumberTypes, CountInv
<1>3. B \subseteq With("batched") /\ IsFiniteSet(B) /\ Cardinality(B) = Len(batch)
  BY BatchInFates
<1>4. Q \subseteq With("queued") /\ IsFiniteSet(Q) /\ Cardinality(Q) = Len(queue)
  BY <1>1, ItemsCounted DEF CountInv, OrderInv, Types, Ordered, Placed
<1> HIDE DEF B, Q
<1>5. /\ With("batched")' = With("batched") \ B
      /\ With("queued")' = With("queued") \ Q
      /\ With("cancelled")' = With("cancelled") \cup B
      /\ With("crashed")' = With("crashed") /\ With("rejected")' = With("rejected")
  <2>1. \A e \in DOMAIN fate :
          /\ e \in B => fate[e] = "batched"
          /\ e \in Q => fate[e] = "queued"
    BY <1>3, <1>4 DEF With
  <2>2. \A e \in DOMAIN fate :
          fate'[e] = IF e \in B THEN "cancelled" ELSE IF e \in Q THEN "expired" ELSE fate[e]
    BY <1>1, <2>1
  <2>3. DOMAIN fate' = DOMAIN fate
    BY <1>1
  <2>4. B \subseteq DOMAIN fate /\ Q \subseteq DOMAIN fate
    BY <1>3, <1>4 DEF With
  <2>5. QED
    BY <2>1, <2>2, <2>3, <2>4 DEF With
<1>6. /\ IsFiniteSet(With("batched")) /\ IsFiniteSet(With("queued"))
      /\ IsFiniteSet(With("cancelled"))
      /\ B \cap With("cancelled") = {} /\ Q \cap With("cancelled") = {}
  BY <1>2, <1>3, <1>4, WithFinite, FatesDiffer
<1>7. /\ Cardinality(With("batched") \ B) = N("batched") - Len(batch)
      /\ Cardinality(With("cancelled") \cup B) = N("cancelled") + Len(batch)
  <2>1. Cardinality(With("batched") \ B) = N("batched") - Cardinality(B)
    BY <1>3, <1>6, Removed DEF N
  <2>2. Cardinality(With("cancelled") \cup B) = N("cancelled") + Cardinality(B)
    BY <1>3, <1>6, Added DEF N
  <2>3. QED
    BY <1>3, <2>1, <2>2
<1>8. Cardinality(With("queued") \ Q) = N("queued") - Len(queue)
  <2>1. Cardinality(With("queued") \ Q) = N("queued") - Cardinality(Q)
    BY <1>4, <1>6, Removed DEF N
  <2>2. QED
    BY <1>4, <2>1
<1>9. /\ Batched' = Batched - Len(batch) /\ Queued' = Queued - Len(queue)
      /\ Cancelled' = Cancelled + Len(batch)
      /\ Crashed' = Crashed /\ Rejected' = Rejected
  <2>1. Batched' = Batched - Len(batch)
    BY <1>5, <1>7 DEF Batched, N
  <2>2. Queued' = Queued - Len(queue)
    BY <1>5, <1>8 DEF Queued, N
  <2>3. Cancelled' = Cancelled + Len(batch)
    BY <1>5, <1>7 DEF Cancelled, N
  <2>4. Crashed' = Crashed
    BY <1>5 DEF Crashed, N
  <2>5. Rejected' = Rejected
    BY <1>5 DEF Rejected, N
  <2>6. QED
    BY <2>1, <2>2, <2>3, <2>4, <2>5
<1>10. Lost' = Lost + Len(batch)
  <2>1. Rejected + (Cancelled + Len(batch)) + Crashed = Lost + Len(batch)
    <3>1. NumberTypes
      BY <1>2, Numbers
    <3>2. QED
      BY <3>1 DEF Lost, NumberTypes
  <2>2. QED
    BY <1>9, <2>1 DEF Lost
<1>11. Counts' = Counts + Len(queue)
  BY <1>1, <1>2, Counted DEF Counters
<1>12. Len(fate') = Len(fate)
  BY <1>1, <1>2, FateIsFunction DEF OrderInv, Types
<1>13. FateCount'
  <2>1. Len(fate) = Queued + Batched + Counts + Lost
    BY DEF CountInv, FateCount
  <2>2. Len(fate) = (Queued - Len(queue)) + (Batched - Len(batch))
                      + (Counts + Len(queue)) + (Lost + Len(batch))
    <3>1. NumberTypes
      BY <1>2, Numbers
    <3>2. QED
      BY <2>1, <3>1 DEF NumberTypes
  <2>3. QED
    BY <1>9, <1>10, <1>11, <1>12, <2>2 DEF FateCount
<1>14. JoinCount'
  <2>1. unfinished = Len(queue) + Len(batch) + Crashed + Cancelled
    BY DEF CountInv, JoinCount
  <2>2. Len(queue') = Len(queue) /\ Len(batch') = 0 /\ unfinished' = unfinished
    BY <1>1
  <2>3. unfinished = Len(queue) + 0 + Crashed + (Cancelled + Len(batch))
    <3>1. NumberTypes
      BY <1>2, Numbers
    <3>2. QED
      BY <2>1, <3>1 DEF NumberTypes
  <2>4. QED
    BY <1>9, <2>2, <2>3 DEF JoinCount
<1>15. Placed'
  <2>1. Items(batch)' = {}
    BY <1>1 DEF Items
  <2>2. QED
    BY <1>1, <2>1 DEF Placed
<1>16. QED
  BY <1>13, <1>14, <1>15

LEMMA NextCountInv == CountInv /\ [Next]_vars => CountInv'
<1> SUFFICES ASSUME CountInv, [Next]_vars PROVE CountInv'
  OBVIOUS
<1>1. OrderInv /\ OrderInv'
  BY NextOrderInv DEF CountInv
<1>2. SUFFICES Placed' /\ JoinCount' /\ FateCount'
  BY <1>1 DEF CountInv
<1>3. CASE Accept
  BY <1>3, AcceptCounts
<1>4. CASE DropNewest
  BY <1>4, RefuseCounts
<1>5. CASE DropOldest
  BY <1>5, DisplaceCounts
<1>6. CASE Reject
  BY <1>6, RejectCounts
<1>7. CASE GetFirst \/ GetMore
  <2>1. Take /\ closer # "done"
    BY <1>1, <1>7 DEF GetFirst, GetMore, OrderInv, Holds
  <2>2. QED
    BY <2>1, TakeCounts
<1>8. CASE FlushSucceeds \/ FlushFails
  BY <1>8, FlushCounts
<1>9. CASE FlushCrashes
  BY <1>9, CrashCounts
<1>10. CASE Joined
  BY <1>10, JoinedCounts
<1>11. CASE DrainTimeout
  BY <1>11, DrainTimeoutCounts
<1>12. CASE StartFlush \/ Close \/ UNCHANGED vars
  <2>1. /\ UNCHANGED <<queue, batch, unfinished, metric, fate>>
        /\ closer' # "done" => closer # "done"
    BY <1>1, <1>12 DEF StartFlush, Close, vars, OrderInv, Holds
  <2>2. QED
    BY <2>1 DEF CountInv, Placed, JoinCount, FateCount, Items, N, With,
       Queued, Batched, Rejected, Cancelled, Crashed, Counts, Lost
<1>13. QED
  BY <1>3, <1>4, <1>5, <1>6, <1>7, <1>8, <1>9, <1>10, <1>11, <1>12 DEF Next

LEMMA AlwaysCountInv == Spec => []CountInv
BY InitCountInv, NextCountInv, PTL DEF Spec

\* aclose() waits for every event that is queued or held, and only for those,
\* unless a worker died with a batch: submit(), displacement, the worker and the
\* shutdown path keep unfinished, the queue and the batch in step.
THEOREM WaitIsForTheWork == Spec => []JoinWaitsForTheWork
<1>1. CountInv => JoinWaitsForTheWork
  <2>1. SUFFICES ASSUME CountInv PROVE JoinWaitsForTheWork
    OBVIOUS
  <2>2. unfinished = Len(queue) + Len(batch) + Crashed + Cancelled
    BY <2>1 DEF CountInv, JoinCount
  <2>3. Len(queue) \in Nat /\ Len(batch) \in Nat /\ Crashed \in Nat /\ Cancelled \in Nat
    BY <2>1, Numbers DEF NumberTypes, CountInv
  <2>4. unfinished = Len(queue) + Len(batch) + Cancelled + Crashed
    BY <2>2, <2>3
  <2>5. unfinished = Len(queue) + Len(batch) + Crashed + Cancelled
    BY <2>2
  <2>6. QED
    BY <2>5 DEF JoinWaitsForTheWork, Crashed, Cancelled, N
<1>2. QED
  BY <1>1, AlwaysCountInv, PTL

\* No event disappears: whatever the overflow policy, failing flushes and the
\* shutdown do, it is waiting, or held, or counted by one metric, or was refused
\* with an error or taken by a worker that ended.
THEOREM AllAccounted == Spec => []EveryEventAccounted
<1>1. CountInv => EveryEventAccounted
  <2>1. SUFFICES ASSUME CountInv PROVE EveryEventAccounted
    OBVIOUS
  <2> DEFINE A == With("rejected")
             B == With("cancelled")
             C == With("crashed")
  <2>2. /\ IsFiniteSet(A) /\ IsFiniteSet(B) /\ IsFiniteSet(C)
        /\ A \cap B = {} /\ (A \cup B) \cap C = {}
    BY <2>1, WithFinite, FatesDiffer DEF CountInv
  <2>3. Cardinality(A) = Rejected /\ Cardinality(B) = Cancelled /\ Cardinality(C) = Crashed
    BY DEF Rejected, Cancelled, Crashed, N
  <2> HIDE DEF A, B, C
  <2>4. IsFiniteSet(A \cup B) /\ Cardinality(A \cup B) = Cardinality(A) + Cardinality(B)
    <3>1. Cardinality(A \cap B) = 0
      BY <2>2, FS_EmptySet
    <3>2. /\ IsFiniteSet(A \cup B)
          /\ Cardinality(A \cup B) = Cardinality(A) + Cardinality(B) - Cardinality(A \cap B)
      BY <2>2, FS_Union
    <3>3. Cardinality(A) \in Nat /\ Cardinality(B) \in Nat
      BY <2>2, FS_CardinalityType
    <3>4. QED
      BY <3>1, <3>2, <3>3
  <2>5. Cardinality((A \cup B) \cup C) = Cardinality(A) + Cardinality(B) + Cardinality(C)
    <3>1. Cardinality((A \cup B) \cap C) = 0
      BY <2>2, FS_EmptySet
    <3>2. Cardinality((A \cup B) \cup C) =
            Cardinality(A \cup B) + Cardinality(C) - Cardinality((A \cup B) \cap C)
      BY <2>2, <2>4, FS_Union
    <3>3. Cardinality(A) \in Nat /\ Cardinality(B) \in Nat /\ Cardinality(C) \in Nat
      BY <2>2, FS_CardinalityType
    <3>4. QED
      BY <2>4, <3>1, <3>2, <3>3
  <2>6. Cardinality(A \cup B \cup C) = Lost
    BY <2>3, <2>5 DEF Lost
  <2>7. Len(fate) = Queued + Batched + Counts + Lost
    BY <2>1 DEF CountInv, FateCount
  <2>8. /\ metric["flushed"] \in Nat /\ metric["flush_failed"] \in Nat
        /\ metric["dropped"] \in Nat /\ Queued \in Nat /\ Batched \in Nat /\ Lost \in Nat
    BY <2>1, Numbers DEF NumberTypes, CountInv, OrderInv, Types, Counters
  <2>9. Len(fate) = Queued + Batched + metric["flushed"] + metric["flush_failed"]
                      + metric["dropped"] + Lost
    BY <2>7, <2>8 DEF Counts
  <2>10. QED
    BY <2>6, <2>9 DEF EveryEventAccounted, Queued, Batched, N, A, B, C
<1>2. QED
  BY <1>1, AlwaysCountInv, PTL

-----------------------------------------------------------------------------
\* The bounds.

Bounds ==
  /\ Len(fate) <= MaxEvents
  /\ Len(queue) <= QueueSize
  /\ Len(batch) <= BatchMax
  /\ metric["submitted"] <= Len(fate)
  /\ unfinished <= Len(fate)

BoundInv == CountInv /\ Bounds

LEMMA SubmitKeepsBounds ==
  ASSUME BoundInv, Accept \/ DropNewest \/ DropOldest \/ Reject
  PROVE  Bounds'
<1>1. /\ OrderInv /\ Len(fate) \in Nat /\ Len(queue) \in Nat /\ MaxEvents \in Nat
      /\ QueueSize \in Nat \ {0} /\ metric \in [Counters -> Nat]
      /\ queue \in Seq(Nat) /\ Event \in Nat /\ fate \in Seq(Fates)
  BY Numbers, EventIsLast, FireAndForgetAssumption DEF NumberTypes, BoundInv, CountInv, OrderInv, Types
<1>2. Len(fate) < MaxEvents /\ UNCHANGED batch
  BY DEF Accept, DropNewest, DropOldest, Reject, MaySubmit
<1>3. Len(fate') = Len(fate) + 1
  <2>1. CASE Accept \/ DropNewest \/ Reject
    BY <1>1, <2>1 DEF Accept, DropNewest, Reject
  <2>2. CASE DropOldest
    <3>1. fate' = Append([fate EXCEPT ![Head(queue)] = "evicted"], "queued")
      BY <2>2 DEF DropOldest, Displace
    <3>2. fate \in [1 .. Len(fate) -> Fates] /\ "evicted" \in Fates
      BY <1>1, FateIsFunction DEF OrderInv, Fates
    <3>3. [fate EXCEPT ![Head(queue)] = "evicted"] \in [1 .. Len(fate) -> Fates]
      BY <3>2
    <3>4. /\ [fate EXCEPT ![Head(queue)] = "evicted"] \in Seq(Fates)
          /\ Len([fate EXCEPT ![Head(queue)] = "evicted"]) = Len(fate)
      BY <1>1, <3>3, NewFates
    <3>5. QED
      BY <3>1, <3>4
  <2>3. QED
    BY <2>1, <2>2
<1>4. Len(queue') <= QueueSize
  <2>1. CASE Accept
    BY <1>1, <2>1 DEF Accept
  <2>2. CASE DropOldest
    <3>1. queue' = Append(Tail(queue), Event) /\ Len(queue) >= QueueSize
      BY <2>2 DEF DropOldest, Displace
    <3>2. Len(queue) <= QueueSize /\ queue # <<>>
      BY <1>1, <3>1 DEF BoundInv, Bounds
    <3>3. Tail(queue) \in Seq(Nat) /\ Len(Tail(queue)) = Len(queue) - 1
      BY <1>1, <3>2
    <3>4. QED
      BY <1>1, <3>1, <3>2, <3>3
  <2>3. CASE DropNewest \/ Reject
    BY <2>3 DEF DropNewest, Reject, BoundInv, Bounds
  <2>4. QED
    BY <2>1, <2>2, <2>3
<1>5. metric'["submitted"] \in {metric["submitted"], metric["submitted"] + 1}
  BY <1>1 DEF Accept, DropNewest, DropOldest, Reject, Count, Counters
<1>6. metric["submitted"] \in Nat /\ metric["submitted"] <= Len(fate)
  BY <1>1 DEF BoundInv, Bounds, Counters
<1>7. metric'["submitted"] <= Len(fate')
  BY <1>1, <1>3, <1>5, <1>6
<1>8. Len(batch') <= BatchMax /\ Len(fate') <= MaxEvents
  BY <1>1, <1>2, <1>3 DEF BoundInv, Bounds
<1>9. unfinished' \in {unfinished, unfinished + 1} /\ unfinished \in Int
  BY <1>1 DEF Accept, DropNewest, DropOldest, Displace, Reject, OrderInv, Types
<1>10. unfinished' <= Len(fate')
  BY <1>1, <1>3, <1>9 DEF BoundInv, Bounds
<1>11. QED
  BY <1>4, <1>7, <1>8, <1>10 DEF Bounds

LEMMA WorkKeepsBounds ==
  ASSUME BoundInv, [Next]_vars, ~(Accept \/ DropNewest \/ DropOldest \/ Reject)
  PROVE  Bounds'
<1>1. /\ OrderInv /\ Len(fate) \in Nat /\ metric \in [Counters -> Nat]
      /\ queue \in Seq(Nat) /\ batch \in Seq(Nat) /\ fate \in [1 .. Len(fate) -> Fates]
      /\ BatchMax \in Nat \ {0}
  BY FateIsFunction, FireAndForgetAssumption, Numbers
     DEF NumberTypes, BoundInv, CountInv, OrderInv, Types
<1>2. metric'["submitted"] = metric["submitted"]
  BY <1>1 DEF Next, GetFirst, GetMore, Take, StartFlush, FlushSucceeds, FlushFails, FlushCrashes,
     Close, Joined, DrainTimeout, Count, Counters, vars
<1>3. Len(fate') = Len(fate)
  BY <1>1 DEF Next, GetFirst, GetMore, Take, StartFlush, FlushSucceeds, FlushFails, FlushCrashes,
     Close, Joined, DrainTimeout, Settle, vars
<1>4. Len(queue') <= Len(queue)
  <2>1. CASE GetFirst \/ GetMore
    BY <1>1, <2>1 DEF GetFirst, GetMore, Take
  <2>2. CASE UNCHANGED queue
    BY <1>1, <2>2
  <2>3. QED
    BY <2>1, <2>2 DEF Next, StartFlush, FlushSucceeds, FlushFails, FlushCrashes,
       Close, Joined, DrainTimeout, vars
<1>5. Len(batch') <= BatchMax
  <2>1. CASE GetFirst
    <3>1. batch = <<>> /\ batch' = Append(batch, Head(queue))
      BY <1>1, <2>1 DEF GetFirst, Take, OrderInv, Holds
    <3>2. QED
      BY <1>1, <3>1
  <2>2. CASE GetMore
    <3>1. Len(batch) < BatchMax /\ batch' = Append(batch, Head(queue))
      BY <2>2 DEF GetMore, Take
    <3>2. QED
      BY <1>1, <3>1
  <2>3. CASE batch' = <<>> \/ UNCHANGED batch
    BY <1>1, <2>3 DEF BoundInv, Bounds
  <2>4. QED
    BY <2>1, <2>2, <2>3 DEF Next, StartFlush, FlushSucceeds, FlushFails, FlushCrashes, BatchDone,
       CancelWorker, Close, Joined, DrainTimeout, vars
<1>6. Len(queue) \in Nat /\ Len(queue') \in Nat /\ QueueSize \in Nat
  <2>1. OrderInv'
    BY <1>1, NextOrderInv
  <2>2. QED
    BY <1>1, <2>1, FireAndForgetAssumption DEF OrderInv, Types
<1>7. unfinished' <= unfinished /\ unfinished \in Int /\ unfinished' \in Int
  <2>1. unfinished \in Int /\ Len(batch) \in Nat
    BY <1>1 DEF OrderInv, Types
  <2>2. unfinished' = unfinished \/ unfinished' = unfinished - Len(batch)
    BY DEF Next, GetFirst, GetMore, Take, StartFlush, FlushSucceeds, FlushFails, FlushCrashes,
       BatchDone, Close, Joined, DrainTimeout, vars
  <2>3. QED
    BY <2>1, <2>2
<1>8. QED
  BY <1>1, <1>2, <1>3, <1>4, <1>5, <1>6, <1>7 DEF BoundInv, Bounds

LEMMA InitBounds == Init => Bounds
BY FireAndForgetAssumption DEF Init, Bounds, Counters

LEMMA NextBoundInv == BoundInv /\ [Next]_vars => BoundInv'
BY NextCountInv, SubmitKeepsBounds, WorkKeepsBounds DEF BoundInv

LEMMA InBounds ==
  ASSUME NEW s \in Seq(Nat), NEW n \in Nat, n <= MaxEvents, Within(s, n)
  PROVE  s \in Seq(1 .. MaxEvents)
<1>1. \A i \in 1 .. Len(s) : s[i] \in 1 .. MaxEvents
  BY FireAndForgetAssumption DEF Within
<1>2. Len(s) \in Nat /\ s \in [1 .. Len(s) -> 1 .. MaxEvents]
  BY <1>1
<1>3. ASSUME NEW S, NEW k \in Nat, NEW t \in [1 .. k -> S] PROVE t \in Seq(S)
  OBVIOUS
<1>4. QED
  BY <1>2, <1>3

LEMMA BoundInvIsTypeOK == BoundInv => TypeOK
<1> SUFFICES ASSUME BoundInv PROVE TypeOK
  OBVIOUS
<1>1. /\ OrderInv /\ Bounds /\ Len(fate) \in Nat /\ MaxEvents \in Nat
      /\ fate \in Seq(Fates) /\ metric \in [Counters -> Nat]
      /\ queue \in Seq(Nat) /\ batch \in Seq(Nat) /\ handed \in Seq(Nat)
  BY Numbers, FireAndForgetAssumption DEF NumberTypes, BoundInv, CountInv, OrderInv, Types
<1>2. /\ queue \in Seq(1 .. MaxEvents) /\ batch \in Seq(1 .. MaxEvents)
      /\ handed \in Seq(1 .. MaxEvents)
  BY <1>1, InBounds DEF OrderInv, Ordered, Bounds
<1>3. Counts <= Len(fate) /\ Counts \in Nat
  <2>1. Len(fate) = Queued + Batched + Counts + Lost
    BY DEF BoundInv, CountInv, FateCount
  <2>2. QED
    <3>1. NumberTypes
      BY <1>1, Numbers
    <3>2. QED
      BY <2>1, <3>1 DEF NumberTypes
<1>4. metric["submitted"] \in 0 .. MaxEvents
  BY <1>1 DEF Bounds, Counters
<1>5. /\ metric["flushed"] \in Nat /\ metric["flush_failed"] \in Nat /\ metric["dropped"] \in Nat
      /\ metric["flushed"] <= Counts /\ metric["flush_failed"] <= Counts
      /\ metric["dropped"] <= Counts
  BY <1>1 DEF Counts, Counters
<1>6. metric \in [Counters -> 0 .. MaxEvents]
  <2>1. Counts <= MaxEvents
    BY <1>1, <1>3 DEF Bounds
  <2>2. \A name \in Counters : metric[name] \in 0 .. MaxEvents
    BY <1>1, <1>3, <1>4, <1>5, <2>1 DEF Counters
  <2>3. QED
    BY <1>1, <2>2
<1>7. unfinished \in 0 .. MaxEvents
  <2>1. unfinished = Len(queue) + Len(batch) + Crashed + Cancelled
    BY DEF BoundInv, CountInv, JoinCount
  <2>2. 0 <= unfinished /\ unfinished \in Int
    <3>1. NumberTypes
      BY <1>1, Numbers
    <3>2. QED
      BY <2>1, <3>1 DEF NumberTypes
  <2>3. QED
    BY <1>1, <2>2 DEF Bounds
<1>8. QED
  BY <1>1, <1>2, <1>6, <1>7 DEF TypeOK, OrderInv, Types, Bounds

\* Every field keeps its type and its bound: the queue never exceeds queue_size,
\* a batch batch_max, and task_done() is never called more often than put().
THEOREM TypeCorrect == Spec => []TypeOK
<1>1. Init => BoundInv
  BY InitCountInv, InitBounds DEF BoundInv
<1>2. QED
  BY <1>1, NextBoundInv, BoundInvIsTypeOK, PTL DEF Spec

-----------------------------------------------------------------------------
\* The audit dispatcher and the task queue.

LEMMA StepMaps == DispatchNext => [Next]_vars
<1>1. Queue => Next
  BY DEF Queue, Submit, Next
<1>2. Flush => Next
  BY DEF Flush, Next
<1>3. Stop => Next
  BY DEF Stop, Next
<1>4. FlushStep => [Next]_vars
  BY DEF FlushStep, PlainFlush, Crash, Sanitize, SanitizeFails, WriteSucceeds, WriteFails,
     Wake, Fallback, CallNext, CallsEnd, Next
<1>5. QED
  BY <1>1, <1>2, <1>3, <1>4 DEF DispatchNext

LEMMA AnyStepMaps == [DispatchNext]_dispatch_vars => [Next]_vars
BY StepMaps DEF dispatch_vars

\* Whatever the flush of the audit dispatcher and of the task queue do, and
\* wherever a submit or the drain timeout falls between their steps, what the
\* worker sees is a flush() of FireAndForget.
THEOREM DispatchImplements == DispatchSpec => Spec
<1>1. DispatchInit => Init
  BY DEF DispatchInit
<1>2. QED
  BY <1>1, AnyStepMaps, PTL DEF DispatchSpec, Spec

\* The promises of FireAndForget hold for its users in the kit.
THEOREM UsersInherit ==
  DispatchSpec => [](TypeOK /\ JoinWaitsForTheWork /\ EveryEventAccounted /\ HandedInOrder)
BY DispatchImplements, TypeCorrect, WaitIsForTheWork, AllAccounted, FlushedInOrder, PTL

-----------------------------------------------------------------------------
\* Tasks.

Below(S, T) == \A a \in S, b \in T : a < b

\* What has been called is before everything that has not, and is what the
\* running flush has been through.
TaskOrder ==
  use = "tasks" =>
    /\ Increasing(called)
    /\ Below(Items(called), Items(queue))
    /\ worker = "filling" => Below(Items(called), Items(batch))
    /\ worker # "flushing" => phase = "none"
    /\ worker = "flushing" =>
         /\ phase = "call" /\ attempt <= Len(batch)
         /\ \A i \in 1 .. attempt : batch[i] \in Items(called)
         /\ \A c \in Items(called) : \A j \in attempt + 1 .. Len(batch) : c < batch[j]
    /\ With("flushed") \subseteq Items(called)

TaskTypes ==
  /\ use \in {"plain", "audit", "tasks"}
  /\ called \in Seq(Nat) /\ attempt \in Nat
  /\ Items(called) \subseteq 1 .. Len(fate)

TaskInv == OrderInv /\ TaskTypes /\ TaskOrder

LEMMA InitTaskInv == DispatchInit => TaskInv
<1> SUFFICES ASSUME DispatchInit PROVE TaskInv
  OBVIOUS
<1>1. Items(<<>>) = {} /\ Increasing(<<>>) /\ <<>> \in Seq(Nat)
  BY DEF Items, Increasing
<1>2. OrderInv
  BY InitOrderInv DEF DispatchInit
<1>3. TaskTypes
  BY <1>1 DEF DispatchInit, TaskTypes
<1>4. With("flushed") = {}
  BY DEF DispatchInit, Init, With
<1>5. TaskOrder
  BY <1>1, <1>4 DEF DispatchInit, Init, TaskOrder, Below
<1>6. QED
  BY <1>2, <1>3, <1>5 DEF TaskInv

\* A submit adds at most one event, behind all others, and flushes none.
LEMMA SubmitAdds ==
  ASSUME OrderInv, Submit
  PROVE  /\ UNCHANGED batch /\ Len(fate') = Len(fate) + 1
         /\ Items(queue') \subseteq Items(queue) \cup {Event}
         /\ With("flushed")' \subseteq With("flushed")
         /\ worker' = worker \/ (worker \in {"none", "dead"} /\ worker' = "waiting")
<1>1. /\ fate \in [1 .. Len(fate) -> Fates] /\ Len(fate) \in Nat /\ fate \in Seq(Fates)
      /\ queue \in Seq(Nat) /\ Event \in Nat /\ Event = Len(fate) + 1 /\ Increasing(queue)
      /\ Within(queue, Len(fate))
  BY FateIsFunction, EventIsLast DEF OrderInv, Types, Ordered
<1>2. UNCHANGED batch
  BY DEF Submit, Accept, DropNewest, DropOldest, Reject
<1>3. worker' = worker \/ (worker \in {"none", "dead"} /\ worker' = "waiting")
  BY DEF Submit, Accept, DropNewest, DropOldest, Reject, EnsureStarted
<1>4. CASE Accept \/ DropNewest \/ Reject
  <2>1. PICK f \in {"queued", "refused", "rejected"} : fate' = Append(fate, f)
    BY <1>4 DEF Accept, DropNewest, Reject
  <2>2. queue' = queue \/ queue' = Append(queue, Event)
    BY <1>4 DEF Accept, DropNewest, Reject
  <2>3. Items(queue') \subseteq Items(queue) \cup {Event}
    BY <1>1, <2>2, ItemsAppend
  <2>4. /\ DOMAIN fate' = 1 .. Len(fate) + 1 /\ Len(fate') = Len(fate) + 1
        /\ \A e \in 1 .. Len(fate) : fate'[e] = fate[e]
        /\ fate'[Len(fate) + 1] = f
    BY <1>1, <2>1
  <2>5. With("flushed")' \subseteq With("flushed")
    BY <1>1, <2>4 DEF With
  <2>6. QED
    BY <1>2, <1>3, <2>3, <2>4, <2>5
<1>5. CASE DropOldest
  <2> DEFINE t == [fate EXCEPT ![Head(queue)] = "evicted"]
  <2>1. /\ queue' = Append(Tail(queue), Event) /\ fate' = Append(t, "queued")
        /\ queue # <<>>
    BY <1>1, <1>5, FireAndForgetAssumption DEF DropOldest, Displace
  <2>2. /\ Items(Tail(queue)) \subseteq Items(queue) /\ Tail(queue) \in Seq(Nat)
        /\ Head(queue) \in 1 .. Len(fate)
    BY <1>1, <2>1, ItemsTail DEF Within
  <2>3. Items(queue') \subseteq Items(queue) \cup {Event}
    <3>1. /\ Tail(queue) \in Seq(Nat) /\ Event \in Nat
          /\ Items(Tail(queue)) \subseteq Items(queue)
      BY <1>1, <2>2
    <3>2. Items(Append(Tail(queue), Event)) \subseteq Items(Tail(queue)) \cup {Event}
      BY <3>1, ItemsAppend
    <3>3. QED
      BY <2>1, <3>1, <3>2
  <2>4. t \in Seq(Fates) /\ Len(t) = Len(fate)
    <3>1. t \in [1 .. Len(fate) -> Fates]
      BY <1>1, <2>2 DEF Fates
    <3>2. QED
      BY <1>1, <3>1, NewFates
  <2>5. \A e \in 1 .. Len(fate) : t[e] = "flushed" => fate[e] = "flushed"
    BY <1>1, <2>2
  <2> HIDE DEF t
  <2>6. /\ DOMAIN fate' = 1 .. Len(fate) + 1 /\ Len(fate') = Len(fate) + 1
        /\ \A e \in 1 .. Len(fate) : fate'[e] = t[e]
        /\ fate'[Len(fate) + 1] = "queued"
    BY <1>1, <2>1, <2>4
  <2>7. With("flushed")' \subseteq With("flushed")
    BY <1>1, <2>5, <2>6 DEF With
  <2>8. QED
    BY <1>2, <1>3, <2>3, <2>6, <2>7
<1>6. QED
  BY <1>4, <1>5 DEF Submit

\* What a step other than a submit or a successful flush does to the fates.
LEMMA FatesStay ==
  ASSUME OrderInv, Take \/ FlushFails \/ FlushCrashes \/ Joined \/ DrainTimeout
  PROVE  Len(fate') = Len(fate) /\ With("flushed")' \subseteq With("flushed")
<1>1. fate \in [1 .. Len(fate) -> Fates] /\ Len(fate) \in Nat
  BY FateIsFunction DEF OrderInv
<1>2. CASE Take
  BY <1>1, <1>2 DEF Take, With
<1>3. CASE FlushFails \/ FlushCrashes
  <2>1. PICK g \in {"failed", "crashed"} : Settle(batch, g)
    BY <1>3 DEF FlushFails, FlushCrashes
  <2>2. QED
    BY <1>1, <2>1 DEF Settle, With
<1>4. CASE Joined
  BY <1>1, <1>4 DEF Joined, With
<1>5. CASE DrainTimeout
  <2>1. fate' = [e \in DOMAIN fate |-> CASE Contains(batch, e) -> "cancelled"
                                      [] Contains(queue, e) -> "expired"
                                      [] OTHER -> fate[e]]
    BY <1>5 DEF DrainTimeout
  <2> HIDE DEF Contains
  <2>2. \A e \in DOMAIN fate : fate'[e] \in {"cancelled", "expired", fate[e]}
    BY <2>1
  <2>3. DOMAIN fate' = DOMAIN fate /\ Len(fate') = Len(fate)
    BY <1>1, <2>1
  <2>4. QED
    BY <2>2, <2>3 DEF With
<1>6. QED
  BY <1>2, <1>3, <1>4, <1>5

LEMMA QueueKeepsTasks ==
  ASSUME TaskInv, Queue
  PROVE  TaskTypes' /\ TaskOrder'
<1>1. /\ OrderInv /\ TaskTypes /\ TaskOrder
      /\ UNCHANGED <<use, phase, attempt, called>>
      /\ Items(called)' = Items(called)
  BY DEF TaskInv, Queue, flush_vars, kept_vars, Items
<1>2. CASE Submit
  <2>1. /\ UNCHANGED batch /\ Len(fate') = Len(fate) + 1
        /\ Items(queue)' \subseteq Items(queue) \cup {Event}
        /\ With("flushed")' \subseteq With("flushed")
        /\ worker' = worker \/ (worker \in {"none", "dead"} /\ worker' = "waiting")
        /\ Items(batch)' = Items(batch)
    BY <1>1, <1>2, SubmitAdds DEF Items
  <2>2. Event = Len(fate) + 1 /\ Len(fate) \in Nat
    BY <1>1, EventIsLast, FateIsFunction DEF OrderInv
  <2>3. \A c \in Items(called) : c \in Nat /\ c < Event
    BY <1>1, <2>2 DEF TaskTypes
  <2>4. TaskTypes'
    BY <1>1, <2>1, <2>2 DEF TaskTypes
  <2>5. TaskOrder'
    BY <1>1, <2>1, <2>3 DEF TaskOrder, Below
  <2>6. QED
    BY <2>4, <2>5
<1>3. CASE GetFirst \/ GetMore
  <2>1. /\ Take /\ worker' = "filling" /\ worker \in {"waiting", "filling"}
    BY <1>3 DEF GetFirst, GetMore
  <2>2. Len(fate') = Len(fate) /\ With("flushed")' \subseteq With("flushed")
    BY <1>1, <2>1, FatesStay
  <2>3. /\ queue # <<>> /\ queue \in Seq(Nat) /\ Increasing(queue) /\ batch \in Seq(Nat)
        /\ Head(queue) \in Nat
        /\ queue' = Tail(queue) /\ batch' = Append(batch, Head(queue))
        /\ worker = "waiting" => batch = <<>>
    BY <1>1, <2>1 DEF Take, OrderInv, Types, Ordered, Holds
  <2>4. Head(queue) \in Items(queue) /\ Items(queue)' \subseteq Items(queue)
    <3>1. Head(queue) \in Items(queue) /\ Items(Tail(queue)) \subseteq Items(queue)
      BY <2>3, ItemsTail
    <3>2. QED
      BY <2>3, <3>1 DEF Items
  <2>5. Items(batch)' \subseteq Items(batch) \cup {Head(queue)}
    <3>1. Items(Append(batch, Head(queue))) \subseteq Items(batch) \cup {Head(queue)}
      BY <2>3, ItemsAppend
    <3>2. QED
      BY <2>3, <3>1 DEF Items
  <2>6. worker = "waiting" => Items(batch) = {}
    BY <2>3 DEF Items
  <2>7. TaskTypes'
    BY <1>1, <2>2 DEF TaskTypes
  <2>8. TaskOrder'
    BY <1>1, <2>1, <2>2, <2>4, <2>5, <2>6 DEF TaskOrder, Below
  <2>9. QED
    BY <2>7, <2>8
<1>4. CASE Close
  <2>1. UNCHANGED <<queue, batch, worker, fate>>
    BY <1>4 DEF Close
  <2>2. QED
    BY <1>1, <2>1 DEF TaskTypes, TaskOrder, Items, With
<1>5. QED
  BY <1>2, <1>3, <1>4 DEF Queue

LEMMA FlushKeepsTasks ==
  ASSUME TaskInv, Flush
  PROVE  TaskTypes' /\ TaskOrder'
<1>1. /\ OrderInv /\ TaskTypes /\ TaskOrder
      /\ worker = "filling" /\ worker' = "flushing"
      /\ UNCHANGED <<queue, batch, fate, use, called>>
      /\ attempt' = 0 /\ (use = "tasks" => phase' = "call")
  BY DEF TaskInv, Flush, StartFlush, Begin, kept_vars, TaskTypes
<1>2. batch \in Seq(Nat) /\ \A j \in 1 .. Len(batch) : batch[j] \in Items(batch)
  BY <1>1 DEF OrderInv, Types, Items
<1>3. TaskTypes'
  BY <1>1 DEF TaskTypes, Items
<1>4. ASSUME use = "tasks" PROVE TaskOrder'
  <2>1. \A c \in Items(called) : \A j \in 0 + 1 .. Len(batch) : c < batch[j]
    BY <1>1, <1>2, <1>4 DEF TaskOrder, Below
  <2>2. 0 <= Len(batch) /\ \A i \in 1 .. 0 : batch[i] \in Items(called)
    BY <1>2
  <2>3. /\ Increasing(called') /\ Below(Items(called'), Items(queue'))
        /\ With("flushed")' \subseteq Items(called')
    BY <1>1, <1>4 DEF TaskOrder, With
  <2>4. QED
    BY <1>1, <2>1, <2>2, <2>3 DEF TaskOrder, Items
<1>5. QED
  BY <1>1, <1>3, <1>4 DEF TaskOrder

\* The worker ends without its batch, and its flush with it.
LEMMA EndKeepsTasks ==
  ASSUME TaskInv, Stop \/ Crash
  PROVE  TaskTypes' /\ TaskOrder'
<1>1. /\ OrderInv /\ TaskTypes /\ TaskOrder
      /\ worker' = "dead" /\ phase' = "none" /\ attempt' = 0
      /\ UNCHANGED <<queue, use, called>>
      /\ Joined \/ DrainTimeout \/ FlushCrashes
  BY DEF TaskInv, Stop, Crash, Joined, DrainTimeout, FlushCrashes, CancelWorker,
     EndFlush, Begin, kept_vars
<1>2. Len(fate') = Len(fate) /\ With("flushed")' \subseteq With("flushed")
  BY <1>1, FatesStay
<1>3. Items(called)' = Items(called) /\ Items(queue)' = Items(queue)
  BY <1>1 DEF Items
<1>4. TaskTypes'
  BY <1>1, <1>2, <1>3 DEF TaskTypes
<1>5. TaskOrder'
  BY <1>1, <1>2, <1>3 DEF TaskOrder, Below
<1>6. QED
  BY <1>4, <1>5

LEMMA CallNextKeepsTasks ==
  ASSUME TaskInv, CallNext
  PROVE  TaskTypes' /\ TaskOrder'
<1> DEFINE k == attempt + 1
           e == batch[k]
<1>1. /\ OrderInv /\ TaskTypes /\ TaskOrder
      /\ phase = "call" /\ attempt < Len(batch)
      /\ called' = Append(called, e) /\ attempt' = k
      /\ UNCHANGED <<queue, batch, worker, fate, use, phase>>
  BY DEF TaskInv, CallNext, vars
<1>2. /\ batch \in Seq(Nat) /\ k \in 1 .. Len(batch) /\ e \in Nat /\ e \in 1 .. Len(fate)
      /\ attempt \in Nat /\ called \in Seq(Nat) /\ queue \in Seq(Nat)
      /\ Increasing(batch) /\ Before(batch, queue)
  BY <1>1 DEF OrderInv, Types, TaskTypes, Ordered, Within
<1>3. Items(called)' = Items(called) \cup {e}
  <2>1. /\ Len(called') = Len(called) + 1
        /\ \A i \in 1 .. Len(called') : i \in 1 .. Len(called) \/ i = Len(called) + 1
        /\ \A i \in 1 .. Len(called) : called'[i] = called[i] /\ i \in 1 .. Len(called')
        /\ called'[Len(called) + 1] = e /\ Len(called) + 1 \in 1 .. Len(called')
    BY <1>1, <1>2
  <2>2. QED
    BY <2>1 DEF Items
<1>4. TaskTypes'
  <2>1. called' \in Seq(Nat)
    BY <1>1, <1>2
  <2>2. QED
    BY <1>1, <1>2, <1>3, <2>1 DEF TaskTypes
<1>5. ASSUME use = "tasks" PROVE TaskOrder'
  <2>1. worker = "flushing"
    BY <1>1, <1>5 DEF TaskOrder
  <2>2. \A c \in Items(called) : c < e /\ \A j \in k + 1 .. Len(batch) : c < batch[j]
    BY <1>1, <1>2, <1>5, <2>1 DEF TaskOrder
  <2>3. Increasing(called')
    BY <1>1, <1>2, <1>5, <2>2, AppendLater DEF TaskOrder, Items
  <2>4. Below(Items(called)', Items(queue)')
    <3>1. \A b \in Items(queue) : e < b
      BY <1>2 DEF Before, Items
    <3>2. Items(queue)' = Items(queue)
      BY <1>1 DEF Items
    <3>3. QED
      BY <1>1, <1>3, <1>5, <3>1, <3>2 DEF TaskOrder, Below
  <2>5. \A i \in 1 .. k : batch[i] \in Items(called)'
    <3>1. \A i \in 1 .. k : i \in 1 .. attempt \/ i = k
      BY <1>2
    <3>2. QED
      BY <1>1, <1>3, <1>5, <2>1, <3>1 DEF TaskOrder
  <2>6. \A j \in k + 1 .. Len(batch) : e < batch[j]
    BY <1>2 DEF Increasing
  <2>7. With("flushed")' \subseteq Items(called)'
    BY <1>1, <1>3, <1>5 DEF TaskOrder, With
  <2>8. k <= Len(batch)
    BY <1>2
  <2>9. \A c \in Items(called)' : \A j \in k + 1 .. Len(batch) : c < batch[j]
    BY <1>3, <2>2, <2>6
  <2> HIDE DEF k, e
  <2>10. QED
    BY <1>1, <2>1, <2>3, <2>4, <2>5, <2>7, <2>8, <2>9 DEF TaskOrder
<1>6. QED
  BY <1>1, <1>4, <1>5 DEF TaskOrder

LEMMA CallsEndKeepsTasks ==
  ASSUME TaskInv, CallsEnd
  PROVE  TaskTypes' /\ TaskOrder'
<1>1. /\ OrderInv /\ TaskTypes /\ TaskOrder
      /\ phase = "call" /\ attempt = Len(batch) /\ Settle(batch, "flushed")
      /\ worker = "flushing" /\ worker' = "waiting" /\ phase' = "none" /\ attempt' = 0
      /\ UNCHANGED <<queue, use, called>>
  BY DEF TaskInv, CallsEnd, FlushSucceeds, BatchDone, EndFlush, Begin, kept_vars
<1>2. Items(called)' = Items(called) /\ Items(queue)' = Items(queue)
  BY <1>1 DEF Items
<1>3. Len(fate') = Len(fate) /\ With("flushed")' \subseteq With("flushed") \cup Items(batch)
  <2>1. fate \in [1 .. Len(fate) -> Fates] /\ Len(fate) \in Nat
    BY <1>1, FateIsFunction DEF OrderInv
  <2>2. QED
    BY <1>1, <2>1 DEF Settle, With, Contains, Items
<1>4. TaskTypes'
  BY <1>1, <1>2, <1>3 DEF TaskTypes
<1>5. use = "tasks" => Items(batch) \subseteq Items(called)
  BY <1>1 DEF TaskOrder, Items
<1>6. TaskOrder'
  BY <1>1, <1>2, <1>3, <1>5 DEF TaskOrder
<1>7. QED
  BY <1>4, <1>6

\* The steps of the other uses.
LEMMA OthersKeepTasks ==
  ASSUME TaskInv, PlainFlush \/ Sanitize \/ SanitizeFails \/ WriteSucceeds \/ WriteFails
                    \/ Wake \/ Fallback
  PROVE  TaskTypes' /\ TaskOrder'
<1>1. /\ OrderInv /\ TaskTypes /\ TaskOrder /\ UNCHANGED <<use, called>> /\ use # "tasks"
  BY DEF TaskInv, TaskOrder, PlainFlush, Sanitize, SanitizeFails, WriteSucceeds, WriteFails,
     Wake, Fallback, EndFlush, kept_vars
<1>2. Len(fate') = Len(fate)
  <2>1. fate \in [1 .. Len(fate) -> Fates] /\ Len(fate) \in Nat
    BY <1>1, FateIsFunction DEF OrderInv
  <2>2. fate' = fate \/ \E g : Settle(batch, g)
    BY DEF PlainFlush, Sanitize, SanitizeFails, WriteSucceeds, WriteFails, Wake, Fallback,
       FlushSucceeds, FlushFails, vars
  <2>3. QED
    BY <2>1, <2>2 DEF Settle
<1>3. attempt' \in Nat
  BY <1>1 DEF TaskTypes, PlainFlush, Sanitize, SanitizeFails, WriteSucceeds, WriteFails,
     Wake, Fallback, EndFlush, Begin, kept_vars
<1>4. QED
  BY <1>1, <1>2, <1>3 DEF TaskTypes, TaskOrder, Items

LEMMA NextTaskInv == TaskInv /\ [DispatchNext]_dispatch_vars => TaskInv'
<1> SUFFICES ASSUME TaskInv, [DispatchNext]_dispatch_vars PROVE TaskInv'
  OBVIOUS
<1>1. OrderInv'
  BY AnyStepMaps, NextOrderInv DEF TaskInv
<1>2. SUFFICES TaskTypes' /\ TaskOrder'
  BY <1>1 DEF TaskInv
<1>3. CASE Queue \/ Flush \/ Stop
  BY <1>3, QueueKeepsTasks, FlushKeepsTasks, EndKeepsTasks
<1>4. CASE FlushStep
  BY <1>4, EndKeepsTasks, OthersKeepTasks, CallNextKeepsTasks, CallsEndKeepsTasks DEF FlushStep
<1>5. CASE UNCHANGED dispatch_vars
  BY <1>5 DEF dispatch_vars, vars, flush_vars, kept_vars, TaskInv, TaskTypes, TaskOrder,
     Items, With
<1>6. QED
  BY <1>3, <1>4, <1>5 DEF DispatchNext

\* No task runs twice or before one submitted earlier, and a task that is counted
\* as flushed has run, whichever tasks fail and whenever the worker is cut off.
THEOREM TasksOnceInOrder == DispatchSpec => []TasksRunOnce
<1>1. TaskInv => TasksRunOnce
  <2>1. SUFFICES ASSUME TaskInv, use = "tasks"
                 PROVE  /\ \A i, j \in DOMAIN called : i < j => called[i] < called[j]
                        /\ With("flushed") \subseteq {called[i] : i \in DOMAIN called}
    BY DEF TasksRunOnce
  <2>2. DOMAIN called = 1 .. Len(called)
    BY <2>1 DEF TaskInv, TaskTypes
  <2>3. Increasing(called) /\ With("flushed") \subseteq Items(called)
    BY <2>1 DEF TaskInv, TaskOrder
  <2>4. QED
    BY <2>2, <2>3 DEF Increasing, Items
<1>2. QED
  BY <1>1, InitTaskInv, NextTaskInv, PTL DEF DispatchSpec

-----------------------------------------------------------------------------
\* Audit events.

Unstored == With("flushed") \ stored

\* The batch that the fallback is about to log has been counted already.
FailedAhead == IF phase = "fallback" THEN Len(batch) ELSE 0

AuditOrder ==
  use = "audit" =>
    /\ worker # "flushing" => phase = "none"
    /\ phase # "call"
    /\ Cardinality(Unstored) + FailedAhead <= write_failed

AuditInv == OrderInv /\ write_failed \in Nat /\ AuditOrder

LEMMA UnstoredFinite ==
  ASSUME OrderInv
  PROVE  IsFiniteSet(Unstored) /\ Cardinality(Unstored) \in Nat
<1>1. IsFiniteSet(With("flushed"))
  BY WithFinite
<1>2. IsFiniteSet(Unstored)
  BY <1>1, FS_Subset DEF Unstored
<1>3. QED
  BY <1>2, FS_CardinalityType

LEMMA FewerUnstored ==
  ASSUME OrderInv, NEW S, S \subseteq Unstored
  PROVE  Cardinality(S) \in Nat /\ Cardinality(S) <= Cardinality(Unstored)
<1>1. IsFiniteSet(Unstored)
  BY UnstoredFinite
<1>2. QED
  BY <1>1, FS_Subset, FS_CardinalityType

LEMMA InitAuditInv == DispatchInit => AuditInv
<1> SUFFICES ASSUME DispatchInit PROVE AuditInv
  OBVIOUS
<1>1. OrderInv
  BY InitOrderInv DEF DispatchInit
<1>2. Unstored = {}
  BY DEF DispatchInit, Init, With, Unstored
<1>3. Cardinality(Unstored) = 0
  BY <1>2, FS_EmptySet
<1>4. QED
  BY <1>1, <1>3 DEF DispatchInit, AuditInv, AuditOrder, FailedAhead

\* Steps after which fewer events, or the same, are flushed and not stored.
LEMMA NoneUnstored ==
  ASSUME AuditInv, UNCHANGED <<use, write_failed>>, Unstored' \subseteq Unstored,
         use = "audit" =>
           /\ worker' # "flushing" => phase' = "none"
           /\ phase' # "call"
           /\ phase' = "fallback" => phase = "fallback" /\ UNCHANGED batch
  PROVE  write_failed' \in Nat /\ AuditOrder'
<1>1. /\ Cardinality(Unstored') \in Nat /\ Cardinality(Unstored) \in Nat
      /\ Cardinality(Unstored') <= Cardinality(Unstored)
      /\ Len(batch) \in Nat
  BY FewerUnstored, UnstoredFinite, Numbers DEF AuditInv
<1>2. ASSUME use = "audit" PROVE FailedAhead' <= FailedAhead /\ FailedAhead' \in Nat
                                 /\ FailedAhead \in Nat
  BY <1>1, <1>2 DEF FailedAhead
<1>3. ASSUME use = "audit" PROVE Cardinality(Unstored') + FailedAhead' <= write_failed
  BY <1>1, <1>2, <1>3 DEF AuditInv, AuditOrder
<1>4. QED
  BY <1>3 DEF AuditInv, AuditOrder

LEMMA FlushedGrows ==
  ASSUME OrderInv, FlushSucceeds
  PROVE  With("flushed")' = With("flushed") \cup Items(batch)
<1>1. fate \in [1 .. Len(fate) -> Fates] /\ \A i \in 1 .. Len(batch) : batch[i] \in 1 .. Len(fate)
  BY FateIsFunction DEF OrderInv, Ordered, Within
<1>2. QED
  BY <1>1 DEF FlushSucceeds, Settle, With, Contains, Items

LEMMA FallbackCounts ==
  ASSUME AuditInv, Fallback
  PROVE  write_failed' \in Nat /\ AuditOrder'
<1>1. /\ OrderInv /\ phase = "fallback" /\ phase' = "none" /\ FlushSucceeds
      /\ UNCHANGED <<use, write_failed, stored>>
  BY DEF AuditInv, Fallback, EndFlush, Begin
<1>2. Unstored' \subseteq Unstored \cup Items(batch)
  BY <1>1, FlushedGrows DEF Unstored
<1>3. /\ IsFiniteSet(Items(batch)) /\ Cardinality(Items(batch)) = Len(batch)
      /\ Len(batch) \in Nat
  BY <1>1, ItemsCounted, Numbers DEF OrderInv, Types, Ordered
<1>4. /\ IsFiniteSet(Unstored) /\ Cardinality(Unstored) \in Nat
  BY <1>1, UnstoredFinite
<1>5. /\ IsFiniteSet(Unstored \cup Items(batch))
      /\ Cardinality(Unstored \cup Items(batch)) <= Cardinality(Unstored) + Len(batch)
  <2>1. /\ IsFiniteSet(Unstored \cup Items(batch))
        /\ Cardinality(Unstored \cup Items(batch)) =
              Cardinality(Unstored) + Len(batch) - Cardinality(Unstored \cap Items(batch))
    BY <1>3, <1>4, FS_Union
  <2>2. IsFiniteSet(Unstored \cap Items(batch))
    BY <1>4, FS_Subset
  <2>3. Cardinality(Unstored \cap Items(batch)) \in Nat
    BY <2>2, FS_CardinalityType
  <2>4. QED
    BY <1>3, <1>4, <2>1, <2>3
<1>6. /\ Cardinality(Unstored') \in Nat
      /\ Cardinality(Unstored') <= Cardinality(Unstored \cup Items(batch))
      /\ Cardinality(Unstored \cup Items(batch)) \in Nat
  BY <1>2, <1>5, FS_Subset, FS_CardinalityType
<1>7. use = "audit" => Cardinality(Unstored) + Len(batch) <= write_failed
  BY <1>1 DEF AuditInv, AuditOrder, FailedAhead
<1>8. use = "audit" => Cardinality(Unstored') <= write_failed
  BY <1>3, <1>4, <1>5, <1>6, <1>7 DEF AuditInv
<1>9. FailedAhead' = 0
  BY <1>1 DEF FailedAhead
<1>10. QED
  BY <1>1, <1>6, <1>8, <1>9 DEF AuditInv, AuditOrder

LEMMA WriteFailsCounts ==
  ASSUME AuditInv, WriteFails
  PROVE  write_failed' \in Nat /\ AuditOrder'
<1>1. /\ OrderInv /\ phase = "write" /\ UNCHANGED <<batch, fate, worker, use, stored>>
  BY DEF AuditInv, WriteFails, vars
<1>2. Unstored' = Unstored /\ Cardinality(Unstored) \in Nat /\ Len(batch) \in Nat
  BY <1>1, UnstoredFinite, Numbers DEF Unstored, With
<1>3. CASE attempt < MaxAttempts
  <2>1. phase' = "sleep" /\ UNCHANGED write_failed
    BY <1>3 DEF WriteFails
  <2>2. QED
    BY <1>1, <1>2, <2>1 DEF AuditInv, AuditOrder, FailedAhead
<1>4. CASE ~(attempt < MaxAttempts)
  <2>1. phase' = "fallback" /\ write_failed' = write_failed + Len(batch)
    BY <1>4 DEF WriteFails
  <2>2. FailedAhead' = Len(batch) /\ FailedAhead = 0
    BY <1>1, <2>1 DEF FailedAhead
  <2>3. use = "audit" => Cardinality(Unstored) + 0 <= write_failed
    BY <2>2 DEF AuditInv, AuditOrder
  <2>4. write_failed \in Nat
    BY DEF AuditInv
  <2>5. use = "audit" => Cardinality(Unstored) + Len(batch) <= write_failed + Len(batch)
    BY <1>2, <2>3, <2>4
  <2>6. write_failed' \in Nat
    BY <1>2, <2>1, <2>4
  <2>7. use' = "audit" => Cardinality(Unstored') + FailedAhead' <= write_failed'
    BY <1>1, <1>2, <2>1, <2>2, <2>5
  <2>8. QED
    BY <1>1, <2>1, <2>6, <2>7 DEF AuditInv, AuditOrder
<1>5. QED
  BY <1>3, <1>4

LEMMA NextAuditInv == AuditInv /\ [DispatchNext]_dispatch_vars => AuditInv'
<1> SUFFICES ASSUME AuditInv, [DispatchNext]_dispatch_vars PROVE AuditInv'
  OBVIOUS
<1>1. OrderInv /\ OrderInv'
  BY AnyStepMaps, NextOrderInv DEF AuditInv
<1>2. SUFFICES write_failed' \in Nat /\ AuditOrder'
  BY <1>1 DEF AuditInv
<1>3. CASE Queue
  <2>1. UNCHANGED <<use, phase, write_failed, stored>>
    BY <1>3 DEF Queue, flush_vars, kept_vars
  <2>2. With("flushed")' \subseteq With("flushed")
    <3>1. CASE Submit
      BY <1>1, <3>1, SubmitAdds
    <3>2. CASE GetFirst \/ GetMore
      BY <1>1, <3>2, FatesStay DEF GetFirst, GetMore
    <3>3. CASE Close
      BY <3>3 DEF Close, With
    <3>4. QED
      BY <1>3, <3>1, <3>2, <3>3 DEF Queue
  <2>3. \/ UNCHANGED batch /\ (worker' = worker \/ worker # "flushing")
        \/ worker # "flushing"
    <3>1. CASE Submit
      BY <1>1, <3>1, SubmitAdds
    <3>2. CASE GetFirst \/ GetMore
      BY <3>2 DEF GetFirst, GetMore
    <3>3. CASE Close
      BY <3>3 DEF Close
    <3>4. QED
      BY <1>3, <3>1, <3>2, <3>3 DEF Queue
  <2>4. QED
    BY <2>1, <2>2, <2>3, NoneUnstored DEF AuditInv, AuditOrder, Unstored
<1>4. CASE Flush
  <2>1. /\ UNCHANGED <<use, write_failed, stored, fate>> /\ worker' = "flushing"
        /\ use = "audit" => phase' = "sanitize"
    BY <1>4 DEF Flush, StartFlush, Begin, kept_vars
  <2>2. QED
    BY <2>1, NoneUnstored DEF Unstored, With
<1>5. CASE Stop \/ Crash \/ SanitizeFails
  <2>1. /\ UNCHANGED <<use, write_failed, stored>> /\ phase' = "none"
        /\ Joined \/ DrainTimeout \/ FlushCrashes \/ FlushFails
    BY <1>5 DEF Stop, Crash, SanitizeFails, EndFlush, Begin, kept_vars
  <2>2. With("flushed")' \subseteq With("flushed")
    BY <1>1, <2>1, FatesStay
  <2>3. QED
    BY <2>1, <2>2, NoneUnstored DEF Unstored
<1>6. CASE Sanitize \/ Wake
  <2>1. /\ UNCHANGED <<use, write_failed, stored, fate, worker, batch>>
        /\ phase \in {"sanitize", "sleep"} /\ phase' = "write"
    BY <1>6 DEF Sanitize, Wake, vars, kept_vars
  <2>2. QED
    BY <2>1, NoneUnstored DEF Unstored, With, AuditInv, AuditOrder
<1>7. CASE WriteSucceeds
  <2>1. /\ UNCHANGED <<use, write_failed>> /\ phase' = "none" /\ FlushSucceeds
        /\ stored' = stored \cup InBatch
    BY <1>7 DEF WriteSucceeds, EndFlush, Begin
  <2>2. InBatch = Items(batch)
    BY <1>1 DEF OrderInv, Types, InBatch, Items
  <2>3. Unstored' \subseteq Unstored
    BY <1>1, <2>1, <2>2, FlushedGrows DEF Unstored
  <2>4. QED
    BY <2>1, <2>3, NoneUnstored
<1>8. CASE WriteFails
  BY <1>8, WriteFailsCounts
<1>9. CASE Fallback
  BY <1>9, FallbackCounts
<1>10. CASE PlainFlush \/ CallNext \/ CallsEnd
  <2>1. UNCHANGED <<use, write_failed>> /\ use # "audit"
    BY <1>10 DEF PlainFlush, CallNext, CallsEnd, EndFlush, kept_vars, AuditInv, AuditOrder
  <2>2. QED
    BY <2>1 DEF AuditInv, AuditOrder
<1>11. CASE UNCHANGED dispatch_vars
  BY <1>11 DEF dispatch_vars, vars, flush_vars, kept_vars, AuditInv, AuditOrder, Unstored,
     FailedAhead, With
<1>12. QED
  BY <1>3, <1>4, <1>5, <1>6, <1>7, <1>8, <1>9, <1>10, <1>11 DEF DispatchNext, FlushStep

\* An audit event that counts as flushed is stored, or audit.write_failed counts
\* it, whatever attempts fail and wherever the drain timeout cuts the flush.
THEOREM FlushedAreKept == DispatchSpec => []FlushedIsStoredOrCounted
<1>1. AuditInv => FlushedIsStoredOrCounted
  <2>1. SUFFICES ASSUME AuditInv, use = "audit"
                 PROVE  Cardinality(Unstored) <= write_failed
    BY DEF FlushedIsStoredOrCounted, Unstored
  <2>2. Cardinality(Unstored) \in Nat /\ Len(batch) \in Nat /\ write_failed \in Nat
    BY <2>1, UnstoredFinite, Numbers DEF AuditInv
  <2>3. FailedAhead \in Nat
    BY <2>2 DEF FailedAhead
  <2>4. QED
    BY <2>1, <2>2, <2>3 DEF AuditInv, AuditOrder
<1>2. QED
  BY <1>1, InitAuditInv, NextAuditInv, PTL DEF DispatchSpec
=============================================================================
