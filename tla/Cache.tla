------------------------------- MODULE Cache -------------------------------
(***************************************************************************)
(* RedisAsyncCache (cache/redis_impl.py) of several pods with the          *)
(* InMemoryAsyncCache (cache/memory_impl.py) each of them falls back to,   *)
(* or InMemoryAsyncCache by itself, for one item and one counter.          *)
(*                                                                         *)
(* Of the item only its presence and the rest of its ttl are kept, of the  *)
(* counter also its value.                                                 *)
(* The probe interval is modelled in Throttle; here a degraded call probes *)
(* or does not.  Steps end where the code awaits Redis, and incr() awaits  *)
(* it twice.                                                               *)
(***************************************************************************)
EXTENDS Integers, FiniteSets

CONSTANTS Pods, Calls, PodOf, Exposed,
          Uses,        \* per call: the operations it is used for
          Ttls,        \* ttl arguments of set() and add()
          CounterTtl,  \* ttl argument of incr()
          MaxCount     \* the counter is counted up to here

Never == -1

ASSUME PodAssumption ==
  /\ PodOf \in [Calls -> Pods] /\ Exposed \subseteq Pods
  /\ IsFiniteSet(Calls)
  /\ "redis" \notin Pods
ASSUME TtlAssumption ==
  /\ Ttls \subseteq 0 .. CounterTtl
  /\ CounterTtl \in Nat \ {0}
ASSUME CountAssumption == MaxCount \in Nat \ {0}

VARIABLES backend,    \* which class get_cache() has built
          items,      \* per store: the entry of the item, or Absent
          counters,   \* per store: the entry of the counter, or Absent
          healthy,    \* per pod: _healthy
          stage,      \* per call: where it awaits
          request,    \* per call: its operation and arguments
          answer,     \* per call: what Redis has answered
          reachable,  \* per pod: Redis answers
          acked,      \* history: per store, increments acknowledged so far
          quiet,      \* history: ticks since the item was last written anywhere
          cut         \* history: a creator of the counter never set its expiry

calls_vars == <<stage, request, answer>>
pods_vars == <<healthy, reachable>>
store_vars == <<items, counters, acked, quiet, cut>>
vars == <<backend, store_vars, pods_vars, calls_vars>>

Shared == "redis"
Stores == Pods \cup {Shared}
Absent == [value |-> 0, left |-> 0]
Nothing == 0

Requests ==
  [op : {"get", "delete"}, ttl : {Never}]
    \cup [op : {"set", "add"}, ttl : Ttls]
    \cup [op : {"incr"}, ttl : {CounterTtl}]

RequestsOf(c) == {r \in Requests : r.op \in Uses[c]}

None == [op |-> "none", ttl |-> Never]

Capped(n) == IF n < MaxCount THEN n ELSE MaxCount

Init ==
  /\ backend \in {"redis", "memory"}
  /\ items = [s \in Stores |-> Absent]
  /\ counters = [s \in Stores |-> Absent]
  /\ healthy = [p \in Pods |-> TRUE]
  /\ stage = [c \in Calls |-> "idle"]
  /\ request = [c \in Calls |-> None]
  /\ answer = [c \in Calls |-> Nothing]
  /\ reachable = [p \in Pods |-> TRUE]
  /\ acked = [s \in Stores |-> 0]
  /\ quiet = CounterTtl
  /\ cut = FALSE

-----------------------------------------------------------------------------
\* One operation on one store, which nothing interrupts.

\* Fault: an entry can still be read at the very moment it expires, which
\* lasts until the clock moves on.
Live_AtExpiry(e) == e.value # 0

Live(e) == e.value # 0 /\ e.left # 0

\* _expires(ttl), or the EX option of SET.
Stored(n, ttl) == [value |-> n, left |-> ttl]

Put(s, e) == items' = [items EXCEPT ![s] = e]

\* get, set, add, delete on the item of a store.  An expired entry is removed
\* by the get that finds it and overwritten by add.
Apply(s, r) ==
  /\ \/ /\ r.op = "get"
        /\ Put(s, IF Live(items[s]) THEN items[s] ELSE Absent)
        /\ UNCHANGED quiet
     \/ /\ r.op = "set" \/ (r.op = "add" /\ ~Live(items[s]))
        /\ Put(s, Stored(1, r.ttl))
        /\ quiet' = 0
     \/ /\ r.op = "add" /\ Live(items[s])
        /\ UNCHANGED <<items, quiet>>
     \/ /\ r.op = "delete"
        /\ Put(s, Absent)
        /\ UNCHANGED quiet
  /\ UNCHANGED <<counters, acked, cut>>

\* InMemoryAsyncCache.incr: one step, and the ttl counts from the creation.
LocalIncr(p, r) ==
  /\ IF Live(counters[p])
     THEN /\ counters' = [counters EXCEPT ![p].value = Capped(@ + 1)]
          /\ acked' = [acked EXCEPT ![p] = Capped(@ + 1)]
     ELSE /\ counters' = [counters EXCEPT ![p] = Stored(1, r.ttl)]
          /\ acked' = [acked EXCEPT ![p] = 1]
  /\ UNCHANGED <<items, quiet, cut>>

Local(p, r) == IF r.op = "incr" THEN LocalIncr(p, r) ELSE Apply(p, r)

-----------------------------------------------------------------------------
\* A call.

Go(c, s, r) ==
  /\ stage' = [stage EXCEPT ![c] = s]
  /\ request' = [request EXCEPT ![c] = r]

MarkDegraded(p) == healthy' = [healthy EXCEPT ![p] = FALSE]

Finish(c) ==
  /\ Go(c, "idle", None)
  /\ answer' = [answer EXCEPT ![c] = Nothing]

\* InMemoryAsyncCache as the cache itself.
CallMemory(c) ==
  /\ backend = "memory"
  /\ \E r \in RequestsOf(c) : Local(PodOf[c], r)
  /\ UNCHANGED <<backend, pods_vars, calls_vars>>

\* RedisAsyncCache: incr() asks Redis in any case.
Ask(c) ==
  /\ backend = "redis"
  /\ stage[c] = "idle"
  /\ \E r \in RequestsOf(c) : (healthy[PodOf[c]] \/ r.op = "incr") /\ Go(c, "asking", r)
  /\ UNCHANGED <<backend, store_vars, pods_vars, answer>>

AskDegraded(c) ==
  /\ backend = "redis"
  /\ stage[c] = "idle"
  /\ ~healthy[PodOf[c]]
  /\ \E r \in RequestsOf(c) :
       /\ r.op # "incr"
       /\ \/ Go(c, "probing", r) /\ UNCHANGED store_vars
          \/ Local(PodOf[c], r) /\ UNCHANGED <<stage, request>>
  /\ UNCHANGED <<backend, pods_vars, answer>>

ProbeAnswered(c) ==
  /\ stage[c] = "probing"
  /\ reachable[PodOf[c]]
  /\ Go(c, "probed", request[c])
  /\ UNCHANGED <<backend, store_vars, pods_vars, answer>>

ProbeFails(c) ==
  /\ stage[c] = "probing"
  /\ ~reachable[PodOf[c]]
  /\ Local(PodOf[c], request[c])
  /\ Finish(c)
  /\ UNCHANGED <<backend, pods_vars>>

ProbeRecovers(c) ==
  /\ stage[c] = "probed"
  /\ healthy' = [healthy EXCEPT ![PodOf[c]] = TRUE]
  /\ Go(c, "asking", request[c])
  /\ UNCHANGED <<backend, store_vars, reachable, answer>>

\* Redis refuses a SET with EX 0.
Refused(r) == r.op \in {"set", "add"} /\ r.ttl = 0

\* Redis executes get, set, add or delete.
Execute(c) ==
  /\ stage[c] = "asking"
  /\ request[c].op # "incr"
  /\ reachable[PodOf[c]]
  /\ ~Refused(request[c])
  /\ Apply(Shared, request[c])
  /\ Go(c, "answered", request[c])
  /\ UNCHANGED <<backend, pods_vars, answer>>

\* Fault: the value before the increment is compared.
Created_Before(n) == n = 0

\* incr(): new_value == amount, for an increment by 1.
Created(n) == n = 1

\* INCRBY, which keeps the expiry of a key and creates one without expiry.
Incr(c) ==
  LET old == counters[Shared]
      n == Capped((IF Live(old) THEN old.value ELSE 0) + 1)
  IN /\ stage[c] = "asking"
     /\ request[c].op = "incr"
     /\ reachable[PodOf[c]]
     /\ counters' = [counters EXCEPT ![Shared] = Stored(n, IF Live(old) THEN old.left ELSE Never)]
     /\ cut' = IF Live(old) THEN cut ELSE FALSE
     /\ answer' = [answer EXCEPT ![c] = 1]
     /\ Go(c, IF Created(n) THEN "created" ELSE "answered", request[c])
     /\ UNCHANGED <<backend, items, acked, quiet, pods_vars>>

\* The second command of incr().
SetExpiry(c) ==
  /\ stage[c] = "created"
  /\ reachable[PodOf[c]]
  /\ counters' = [counters EXCEPT ![Shared] =
       IF Live(@) THEN Stored(@.value, request[c].ttl) ELSE @]
  /\ Go(c, "answered", request[c])
  /\ UNCHANGED <<backend, items, acked, quiet, cut, pods_vars, answer>>

\* The caller gets its answer.
Deliver(c) ==
  /\ stage[c] = "answered"
  /\ acked' = [acked EXCEPT ![Shared] = Capped(@ + answer[c])]
  /\ Finish(c)
  /\ UNCHANGED <<backend, items, counters, quiet, cut, pods_vars>>

\* A RedisError: the request is refused, or it or its answer is lost.  Every
\* operation but incr marks the pod degraded and is repeated locally.
Lose(c) ==
  LET p == PodOf[c]
  IN /\ \/ stage[c] \in {"asking", "answered"} /\ ~reachable[p]
        \/ stage[c] = "asking" /\ Refused(request[c])
     /\ request[c].op # "incr"
     /\ MarkDegraded(p)
     /\ Local(p, request[c])
     /\ Finish(c)
     /\ UNCHANGED <<backend, reachable>>

\* Fault: a failing increment is answered like the other operations.
IncrRaises_Acks(c) ==
  /\ acked' = [acked EXCEPT ![Shared] = Capped(@ + 1)]
  /\ cut' = (cut \/ stage[c] = "created")
  /\ Finish(c)

\* incr() raises; a creator may leave the counter without an expiry.
IncrRaises(c) ==
  /\ cut' = (cut \/ stage[c] = "created")
  /\ UNCHANGED acked
  /\ Finish(c)

LoseIncr(c) ==
  /\ request[c].op = "incr"
  /\ ~reachable[PodOf[c]]
  /\ IncrRaises(c)
  /\ UNCHANGED <<backend, items, counters, quiet, pods_vars>>

\* The caller is cancelled at an await.
Cancel(c) ==
  /\ stage[c] # "idle"
  /\ cut' = (cut \/ stage[c] = "created")
  /\ Finish(c)
  /\ UNCHANGED <<backend, items, counters, acked, quiet, pods_vars>>

-----------------------------------------------------------------------------
\* Health and time.

HealthCheck(p) ==
  /\ backend = "redis"
  /\ healthy[p]
  /\ ~reachable[p]
  /\ MarkDegraded(p)
  /\ UNCHANGED <<backend, store_vars, reachable, calls_vars>>

\* try_recover() by the monitor.
Recover(p) ==
  /\ ~healthy[p]
  /\ reachable[p]
  /\ healthy' = [healthy EXCEPT ![p] = TRUE]
  /\ UNCHANGED <<backend, store_vars, reachable, calls_vars>>

Outage(p) ==
  /\ backend = "redis"
  /\ p \in Exposed
  /\ reachable' = [reachable EXCEPT ![p] = ~@]
  /\ UNCHANGED <<backend, store_vars, healthy, calls_vars>>

Less(n) == IF n > 0 THEN n - 1 ELSE n
Aged(e) == Stored(e.value, Less(e.left))

\* Redis forgets a key that expires; answers under way belong to the past.
Expired == Aged(counters[Shared]).left = 0

Tick ==
  /\ items' = [s \in Stores |-> Aged(items[s])]
  /\ counters' = [s \in Stores |-> IF s = Shared /\ Expired THEN Absent ELSE Aged(counters[s])]
  /\ acked' = IF Expired THEN [acked EXCEPT ![Shared] = 0] ELSE acked
  /\ quiet' = IF quiet < CounterTtl THEN quiet + 1 ELSE quiet
  /\ answer' = IF Expired THEN [c \in Calls |-> Nothing] ELSE answer
  /\ UNCHANGED <<backend, cut, pods_vars, stage, request>>

CallNext(c) ==
  \/ CallMemory(c) \/ Ask(c) \/ AskDegraded(c)
  \/ ProbeAnswered(c) \/ ProbeFails(c) \/ ProbeRecovers(c)
  \/ Execute(c) \/ Incr(c) \/ SetExpiry(c) \/ Deliver(c)
  \/ Lose(c) \/ LoseIncr(c) \/ Cancel(c)

Next ==
  \/ \E c \in Calls : CallNext(c)
  \/ \E p \in Pods : HealthCheck(p) \/ Recover(p) \/ Outage(p)
  \/ Tick

Spec == Init /\ [][Next]_vars

-----------------------------------------------------------------------------
\* Properties.

\* The entries of an earlier outage stay in a fallback, and what Redis held
\* before an outage is back after it, deleted or not.  How stale an answer
\* can be is bounded by the ttl: nobody reads a value, from whichever store
\* and through however many outages, when the last write is longer ago.
StaleOnlyUntilTtl ==
  quiet = CounterTtl => \A s \in Stores : ~Live(items[s])

\* incr() has no fallback so that a counter does not diverge: an increment
\* that was acknowledged has been counted, in this life of the counter.
AcknowledgedIsCounted ==
  \A s \in Stores : Live(counters[s]) => acked[s] <= counters[s].value

\* incr() sets the expiry with a second command.  A counter is without one
\* only while its creator is on the way, or if the creator was cut off.
CounterExpires ==
  Live(counters[Shared]) /\ counters[Shared].left = Never =>
    cut \/ \E c \in Calls : stage[c] = "created"
=============================================================================
