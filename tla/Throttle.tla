------------------------------ MODULE Throttle ------------------------------
(***************************************************************************)
(* RedisAsyncThrottle (throttle/redis_impl.py) of several pods, its Lua    *)
(* script (throttle/lua_scripts.py) and the InMemoryAsyncThrottle          *)
(* (throttle/memory_impl.py) each pod falls back to, for one key and one   *)
(* rate.                                                                   *)
(*                                                                         *)
(* A window is the sequence of the ages of its admissions, newest first:   *)
(* both implementations compare a timestamp only with now - per_seconds.   *)
(* Redis drops an admission of age Window, the memory throttle one that is *)
(* older than Window; ages saturate where neither can tell them apart.     *)
(* Tick is the passing of one second for everybody: the script reads the   *)
(* clock of the server, so the clocks of the pods play no part.            *)
(*                                                                         *)
(* Steps end where the code awaits Redis.  A ping or a script that the     *)
(* server has answered may find the pod in another state than the one that *)
(* sent it, and an answer may be lost after the server has counted.        *)
(***************************************************************************)
EXTENDS Integers, Sequences, FiniteSetsExt

CONSTANTS Pods, Calls,
          PodOf,          \* the pod a call runs in
          Exposed,        \* the pods whose connection to Redis may fail
          Limit,          \* Rate.count
          Window,         \* Rate.per_seconds
          ProbeInterval   \* recovery_probe_interval_seconds

ASSUME RateAssumption == Limit \in Nat \ {0} /\ Window \in Nat \ {0}
ASSUME ProbeAssumption == ProbeInterval \in Nat

VARIABLES fail_mode,    \* _fail_mode, the same setting in every pod
          zset,         \* the sorted set in Redis
          windows,      \* per pod: _windows[key] of the fallback
          healthy,      \* per pod: _healthy
          since_probe,  \* per pod: age of _last_probe_at
          pc,           \* per call of check(): where it awaits
          monitor,      \* per pod: try_recover() of the recovery monitor
          reachable,    \* per pod: Redis answers
          granted       \* history: ages of the admissions by each window

pod_vars == <<healthy, since_probe, monitor>>
vars == <<fail_mode, zset, windows, pod_vars, pc, reachable, granted>>

Shared == "redis"
Sources == Pods \cup {Shared}

ASSUME PodAssumption ==
  /\ PodOf \in [Calls -> Pods] /\ Exposed \subseteq Pods
  /\ Shared \notin Pods

Older(age) == IF age <= Window THEN age + 1 ELSE age
Aged(w) == [i \in DOMAIN w |-> Older(w[i])]
Admitted(w) == <<0>> \o w
Record(source) == [granted EXCEPT ![source] = Admitted(@)]

Init ==
  /\ fail_mode \in {"open", "closed"}
  /\ zset = <<>>
  /\ windows = [p \in Pods |-> <<>>]
  /\ healthy = [p \in Pods |-> TRUE]
  /\ since_probe = [p \in Pods |-> ProbeInterval]
  /\ pc = [c \in Calls |-> "idle"]
  /\ monitor = [p \in Pods |-> "idle"]
  /\ reachable = [p \in Pods |-> TRUE]
  /\ granted = [s \in Sources |-> <<>>]

-----------------------------------------------------------------------------
\* The two windows.

\* Admissions are dropped from the old end, up to the first one that counts.
Kept(w, limit) == Max({0} \cup {i \in DOMAIN w : w[i] <= limit})

\* ZREMRANGEBYSCORE key 0 cutoff.
PruneShared(w) == SubSeq(w, 1, Kept(w, Window - 1))

\* while window[0] < cutoff: popleft.
PruneLocal(w) == SubSeq(w, 1, Kept(w, Window))

\* Fault: the new admission is counted before it is compared.
Free_OffByOne(w) == Len(w) + 1 < Limit

Free(w) == Len(w) < Limit

\* reset_after of a denial: TTL of the key, which every admission renews.
SharedResetAfter(w) == Window - w[1]

\* Fault: the age of the admission instead of what is left of it.
LocalResetAfter_Age(w) == w[Len(w)]

\* In the fallback: the time until the oldest admission expires.
LocalResetAfter(w) == Window - w[Len(w)]

-----------------------------------------------------------------------------
\* check().

\* InMemoryAsyncThrottle.check: nothing is awaited under its lock.
LocalCheck(p) ==
  LET kept == PruneLocal(windows[p])
      allowed == Free(kept)
  IN /\ windows' = [windows EXCEPT ![p] = IF allowed THEN Admitted(kept) ELSE kept]
     /\ granted' = IF allowed THEN Record(p) ELSE granted

\* Fault: an unreachable Redis always means the local window.
DegradedDecision_IgnoresMode(p) == LocalCheck(p)

DegradedDecision(p) ==
  \/ /\ fail_mode = "closed"
     /\ UNCHANGED <<windows, granted>>
  \/ /\ fail_mode = "open"
     /\ LocalCheck(p)

MarkDegraded(p) == healthy' = [healthy EXCEPT ![p] = FALSE]

\* Fault: a call that finds the probe not yet due postpones it.
ProbeTime_Postponed(p) == since_probe' = [since_probe EXCEPT ![p] = 0]

\* _maybe_probe: the time of the probe is written before the ping is sent.
ProbeDue(p) == since_probe[p] >= ProbeInterval
ProbeTime(p) ==
  since_probe' = IF ProbeDue(p) THEN [since_probe EXCEPT ![p] = 0] ELSE since_probe

\* check() of a healthy throttle, up to the await of the script.
Ask(c) ==
  /\ pc[c] = "idle"
  /\ healthy[PodOf[c]]
  /\ pc' = [pc EXCEPT ![c] = "asking"]
  /\ UNCHANGED <<fail_mode, zset, windows, pod_vars, reachable, granted>>

\* check() of a degraded throttle: a ping if one is due, else an answer.
AskDegraded(c) ==
  LET p == PodOf[c]
  IN /\ pc[c] = "idle"
     /\ ~healthy[p]
     /\ ProbeTime(p)
     /\ \/ /\ ProbeDue(p)
           /\ pc' = [pc EXCEPT ![c] = "probing"]
           /\ UNCHANGED <<windows, granted>>
        \/ /\ ~ProbeDue(p)
           /\ DegradedDecision(p)
           /\ UNCHANGED pc
     /\ UNCHANGED <<fail_mode, zset, healthy, monitor, reachable>>

\* The ping is answered; the pod learns of it in the next step.
ProbeAnswered(c) ==
  /\ pc[c] = "probing"
  /\ reachable[PodOf[c]]
  /\ pc' = [pc EXCEPT ![c] = "probed"]
  /\ UNCHANGED <<fail_mode, zset, windows, pod_vars, reachable, granted>>

ProbeFails(c) ==
  /\ pc[c] = "probing"
  /\ ~reachable[PodOf[c]]
  /\ DegradedDecision(PodOf[c])
  /\ pc' = [pc EXCEPT ![c] = "idle"]
  /\ UNCHANGED <<fail_mode, zset, pod_vars, reachable>>

ProbeRecovers(c) ==
  /\ pc[c] = "probed"
  /\ healthy' = [healthy EXCEPT ![PodOf[c]] = TRUE]
  /\ pc' = [pc EXCEPT ![c] = "asking"]
  /\ UNCHANGED <<fail_mode, zset, windows, since_probe, monitor, reachable, granted>>

\* The server runs the sliding-window script.
Evaluate(c) ==
  LET kept == PruneShared(zset)
      allowed == Free(kept)
  IN /\ pc[c] = "asking"
     /\ reachable[PodOf[c]]
     /\ zset' = IF allowed THEN Admitted(kept) ELSE kept
     /\ granted' = IF allowed THEN Record(Shared) ELSE granted
     /\ pc' = [pc EXCEPT ![c] = IF allowed THEN "allowed" ELSE "denied"]
     /\ UNCHANGED <<fail_mode, windows, pod_vars, reachable>>

Deliver(c) ==
  /\ pc[c] \in {"allowed", "denied"}
  /\ pc' = [pc EXCEPT ![c] = "idle"]
  /\ UNCHANGED <<fail_mode, zset, windows, pod_vars, reachable, granted>>

\* RedisError: the request or its reply is lost.
Lose(c) ==
  LET p == PodOf[c]
  IN /\ pc[c] \in {"asking", "allowed", "denied"}
     /\ ~reachable[p]
     /\ MarkDegraded(p)
     /\ DegradedDecision(p)
     /\ pc' = [pc EXCEPT ![c] = "idle"]
     /\ UNCHANGED <<fail_mode, zset, since_probe, monitor, reachable>>

-----------------------------------------------------------------------------
\* The other operations.

\* reset(): the key in Redis if it can be reached, and always the fallback.
Reset(p) ==
  /\ \/ /\ reachable[p]
        /\ zset' = <<>>
        /\ granted' = [granted EXCEPT ![Shared] = <<>>, ![p] = <<>>]
        /\ UNCHANGED healthy
     \/ /\ ~reachable[p]
        /\ MarkDegraded(p)
        /\ granted' = [granted EXCEPT ![p] = <<>>]
        /\ UNCHANGED zset
  /\ windows' = [windows EXCEPT ![p] = <<>>]
  /\ UNCHANGED <<fail_mode, since_probe, pc, monitor, reachable>>

HealthCheck(p) ==
  /\ healthy[p]
  /\ ~reachable[p]
  /\ MarkDegraded(p)
  /\ UNCHANGED <<fail_mode, zset, windows, since_probe, pc, monitor, reachable, granted>>

\* try_recover() by the recovery monitor: the ping is answered, and then
\* the flag is set whatever has happened in between.
Ping(p) ==
  /\ monitor[p] = "idle"
  /\ ~healthy[p]
  /\ reachable[p]
  /\ monitor' = [monitor EXCEPT ![p] = "pinged"]
  /\ UNCHANGED <<fail_mode, zset, windows, healthy, since_probe, pc, reachable, granted>>

Recover(p) ==
  /\ monitor[p] = "pinged"
  /\ monitor' = [monitor EXCEPT ![p] = "idle"]
  /\ healthy' = [healthy EXCEPT ![p] = TRUE]
  /\ UNCHANGED <<fail_mode, zset, windows, since_probe, pc, reachable, granted>>

Outage(p) ==
  /\ p \in Exposed
  /\ reachable' = [reachable EXCEPT ![p] = ~@]
  /\ UNCHANGED <<fail_mode, zset, windows, pod_vars, pc, granted>>

\* One second; EXPIRE removes the key when its newest admission is outdated.
Expire(w) == IF w # <<>> /\ w[1] >= Window THEN <<>> ELSE w

Tick ==
  /\ zset' = Expire(Aged(zset))
  /\ windows' = [p \in Pods |-> Aged(windows[p])]
  /\ granted' = [s \in Sources |-> PruneLocal(Aged(granted[s]))]
  /\ since_probe' = [p \in Pods |->
       IF since_probe[p] < ProbeInterval THEN since_probe[p] + 1 ELSE since_probe[p]]
  /\ UNCHANGED <<fail_mode, healthy, pc, monitor, reachable>>

CallNext(c) ==
  \/ Ask(c) \/ AskDegraded(c)
  \/ ProbeAnswered(c) \/ ProbeFails(c) \/ ProbeRecovers(c)
  \/ Evaluate(c) \/ Deliver(c) \/ Lose(c)

PodNext(p) == Reset(p) \/ HealthCheck(p) \/ Ping(p) \/ Recover(p)

Next ==
  \/ \E c \in Calls : CallNext(c)
  \/ \E p \in Pods : PodNext(p) \/ Outage(p)
  \/ Tick

Spec == Init /\ [][Next]_vars

\* Time passes and calls go on.  The monitor is given no fairness: the
\* throttle must find back through the probes of its own calls.
FairSpec ==
  /\ Spec
  /\ WF_vars(Tick)
  /\ \A c \in Calls : WF_vars(CallNext(c))

-----------------------------------------------------------------------------
\* Properties.

Within(w) == Cardinality({i \in DOMAIN w : w[i] < Window})

\* The limit a caller configures (Rate: count events per per_seconds).  No
\* span of Window seconds holds more than Limit admissions by Redis, through
\* outages, lost replies and late recoveries; a fallback admits as many for
\* its pod when fail_mode is open (ADR-0013), and none when it is closed.
LimitHolds ==
  /\ Within(granted[Shared]) <= Limit
  /\ \A p \in Pods :
       Within(granted[p]) <= IF fail_mode = "open" THEN Limit ELSE 0

\* Nobody is denied without need: Redis denies, and so does the window of a
\* fallback, only while Limit admissions of theirs are at most Window old.
DeniesOnlyWhenFull ==
  [][\A c \in Calls :
       /\ pc[c] = "asking" /\ pc'[c] = "denied" => Within(granted[Shared]) = Limit
       /\ fail_mode = "open" /\ AskDegraded(c) /\ ~ProbeDue(PodOf[c]) /\ granted' = granted
            => Len(granted[PodOf[c]]) = Limit]_vars

\* What the denial tells the caller (reset_after, the Retry-After header):
\* once that time is over, and nobody else was admitted, a slot is free.
RetryAfterSuffices ==
  LET Later(w, n) == [i \in DOMAIN w |-> w[i] + n]
  IN /\ ~Free(PruneShared(zset)) =>
          Free(PruneShared(Later(zset, SharedResetAfter(PruneShared(zset)))))
     /\ \A p \in Pods : ~Free(PruneLocal(windows[p])) =>
          LET w == PruneLocal(windows[p])
          IN Free(PruneLocal(Later(w, LocalResetAfter(w) + 1)))

\* _maybe_probe alone brings a pod that is used back to Redis after the last
\* outage, for good, however failures and late recoveries overlapped.
RecoversInCall ==
  \A c \in Calls :
    <>[]reachable[PodOf[c]] => <>[]healthy[PodOf[c]]
=============================================================================
