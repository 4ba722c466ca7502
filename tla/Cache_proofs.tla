------------------------------ MODULE Cache_proofs ------------------------------
(***************************************************************************)
(* Proofs about Cache, for any number of pods, calls and increments, any   *)
(* ttls, and every pattern of outages, recoveries and cancellations.       *)
(***************************************************************************)
EXTENDS Cache, FiniteSetTheorems, TLAPS

Entries == [value : Nat, left : Int]

CacheTypes ==
  /\ items \in [Stores -> Entries]
  /\ counters \in [Stores -> Entries]
  /\ acked \in [Stores -> Nat]
  /\ quiet \in 0 .. CounterTtl
  /\ cut \in BOOLEAN

\* A call under way knows what for; only an incr() creates the counter.
CallsKnown ==
  /\ stage \in [Calls -> {"idle", "asking", "probing", "probed", "created", "answered"}]
  /\ request \in [Calls -> Requests \cup {None}]
  /\ answer \in [Calls -> {0, 1}]
  /\ \A c \in Calls :
       /\ stage[c] # "idle" => request[c] \in Requests
       /\ stage[c] = "created" => request[c].op = "incr"

\* No entry outlives the time since the last write.
EntriesAge == \A s \in Stores : items[s].left \in 0 .. CounterTtl - quiet

\* The increments that Redis has counted and whose callers do not know yet.
Answers == {c \in Calls : answer[c] = 1}

\* The counter in Redis holds what is acknowledged and what is on the way; a
\* counter that has expired takes both with it.
SharedCounted ==
  LET shared == counters[Shared]
  IN IF Live(shared)
     THEN /\ shared.value <= MaxCount
          /\ acked[Shared] + Cardinality(Answers) <= shared.value
               \/ (acked[Shared] <= MaxCount /\ shared.value = MaxCount)
     ELSE shared = Absent /\ acked[Shared] = 0 /\ Answers = {}

LocalCounted == \A p \in Pods : Live(counters[p]) => acked[p] <= counters[p].value

CacheInv ==
  CacheTypes /\ CallsKnown /\ EntriesAge /\ SharedCounted /\ LocalCounted /\ CounterExpires

LEMMA AnswersFinite == IsFiniteSet(Answers) /\ Cardinality(Answers) \in Nat
BY PodAssumption, FS_Subset, FS_CardinalityType DEF Answers

LEMMA InitCacheInv == Init => CacheInv
<1> SUFFICES ASSUME Init PROVE CacheInv
  OBVIOUS
<1>1. Absent \in Entries /\ Absent.left = 0
  BY DEF Absent, Entries
<1>4. CacheTypes /\ CallsKnown
  <2>1. quiet \in 0 .. CounterTtl /\ answer \in [Calls -> {0, 1}] /\ acked \in [Stores -> Nat]
    BY TtlAssumption DEF Init, Nothing
  <2>2. QED
    BY <1>1, <2>1 DEF Init, CacheTypes, CallsKnown
<1>5. EntriesAge
  BY <1>1, TtlAssumption DEF Init, EntriesAge
<1>2. SharedCounted /\ LocalCounted /\ CounterExpires
  BY DEF Init, SharedCounted, LocalCounted, CounterExpires, Live, Absent, Answers, Nothing,
         Stores, Never
<1>3. QED
  BY <1>2, <1>4, <1>5 DEF CacheInv

-----------------------------------------------------------------------------
\* Steps on one store.

\* get, set, add and delete touch no counter.
LEMMA ApplyKeeps ==
  ASSUME CacheTypes, EntriesAge, NEW s \in Stores, NEW r \in Requests, Apply(s, r)
  PROVE  /\ items' \in [Stores -> Entries]
         /\ quiet' \in 0 .. CounterTtl
         /\ EntriesAge'
<1>1. r.op = "set" \/ r.op = "add" => r.ttl \in 0 .. CounterTtl
  BY TtlAssumption DEF Requests
<1>2. CASE Put(s, Absent) /\ UNCHANGED quiet
  BY <1>2, TtlAssumption DEF CacheTypes, EntriesAge, Put, Absent, Entries
<1>3. CASE r.op \in {"set", "add"} /\ Put(s, Stored(1, r.ttl)) /\ quiet' = 0
  BY <1>1, <1>3, TtlAssumption DEF CacheTypes, EntriesAge, Put, Stored, Entries
<1>4. CASE Put(s, items[s]) /\ UNCHANGED quiet
  BY <1>4 DEF CacheTypes, EntriesAge, Put
<1>5. CASE UNCHANGED <<items, quiet>>
  BY <1>5 DEF CacheTypes, EntriesAge
<1>6. QED
  BY <1>2, <1>3, <1>4, <1>5 DEF Apply

LEMMA LocalIncrKeeps ==
  ASSUME CacheTypes, SharedCounted, LocalCounted, NEW p \in Pods,
         NEW r \in Requests, r.op = "incr", LocalIncr(p, r), Answers' \subseteq Answers
  PROVE  /\ counters' \in [Stores -> Entries] /\ acked' \in [Stores -> Nat]
         /\ counters'[Shared] = counters[Shared] /\ acked'[Shared] = acked[Shared]
         /\ LocalCounted'
<1>1. p \in Stores /\ Shared \in Stores /\ p # Shared
  BY PodAssumption DEF Stores, Shared
<1>2. r.ttl = CounterTtl
  BY DEF Requests
<1>3. counters[p] \in Entries /\ acked[p] \in Nat
  BY <1>1 DEF CacheTypes
<1>4. CASE Live(counters[p])
  <2>1. Capped(acked[p] + 1) \in Nat /\ Capped(counters[p].value + 1) \in Nat
    BY <1>3, CountAssumption DEF Capped, Entries
  <2>2. Capped(acked[p] + 1) <= Capped(counters[p].value + 1)
    BY <1>1, <1>3, <1>4, CountAssumption DEF Capped, Entries, LocalCounted
  <2>3. /\ counters' = [counters EXCEPT ![p] =
                          [value |-> Capped(counters[p].value + 1), left |-> counters[p].left]]
        /\ acked' = [acked EXCEPT ![p] = Capped(acked[p] + 1)]
    BY <1>3, <1>4 DEF LocalIncr, Entries
  <2>4. QED
    BY <1>1, <1>3, <2>1, <2>2, <2>3 DEF CacheTypes, Entries, LocalCounted, Live, Stores
<1>5. CASE ~Live(counters[p])
  <2>1. /\ counters' = [counters EXCEPT ![p] = [value |-> 1, left |-> CounterTtl]]
        /\ acked' = [acked EXCEPT ![p] = 1]
    BY <1>1, <1>2, <1>5, CountAssumption DEF LocalIncr, CacheTypes, Capped, Stored
  <2>2. QED
    BY <1>1, <2>1, TtlAssumption DEF CacheTypes, Entries, LocalCounted, Live, Stores
<1>6. QED
  BY <1>4, <1>5

-----------------------------------------------------------------------------
\* Steps of calls.

\* The calls that were creating the counter still are.
CreatorsStay == \A c \in Calls : stage[c] = "created" => stage'[c] = "created"

LEMMA GoKeeps ==
  ASSUME CallsKnown, NEW c \in Calls,
         NEW s \in {"asking", "probing", "probed", "answered"}, NEW r \in Requests,
         Go(c, s, r), stage[c] # "created", UNCHANGED answer
  PROVE  CallsKnown' /\ CreatorsStay
BY DEF CallsKnown, CreatorsStay, Go

LEMMA FinishKeeps ==
  ASSUME CallsKnown, NEW c \in Calls, Finish(c)
  PROVE  /\ CallsKnown'
         /\ Answers' \subseteq Answers
         /\ stage[c] # "created" => CreatorsStay
BY DEF CallsKnown, CreatorsStay, Answers, Finish, Go, Nothing

\* Fewer answers on the way make no difference to the counter.
LEMMA FewerAnswers ==
  ASSUME CacheTypes, SharedCounted, Answers' \subseteq Answers,
         counters'[Shared] = counters[Shared], acked'[Shared] = acked[Shared]
  PROVE  SharedCounted'
<1>1. Cardinality(Answers') <= Cardinality(Answers) /\ Cardinality(Answers') \in Nat
  BY AnswersFinite, FS_Subset, FS_CardinalityType
<1>2. acked[Shared] \in Nat /\ counters[Shared].value \in Nat
  BY DEF CacheTypes, Stores, Entries
<1>3. QED
  BY <1>1, <1>2, AnswersFinite DEF SharedCounted, Live

\* No store changes.
LEMMA StoresStay ==
  ASSUME CacheInv, UNCHANGED store_vars, CallsKnown', CreatorsStay, Answers' \subseteq Answers
  PROVE  CacheInv'
<1>1. CacheTypes' /\ EntriesAge' /\ LocalCounted'
  BY DEF CacheInv, CacheTypes, EntriesAge, LocalCounted, Live, store_vars
<1>2. SharedCounted'
  BY FewerAnswers DEF CacheInv, store_vars
<1>3. CounterExpires'
  BY DEF CacheInv, CounterExpires, CreatorsStay, Live, store_vars
<1>4. QED
  BY <1>1, <1>2, <1>3 DEF CacheInv

\* An operation on the fallback of a pod, or on the memory cache itself.
LEMMA LocalKeeps ==
  ASSUME CacheInv, NEW p \in Pods, NEW r \in Requests, Local(p, r),
         CallsKnown', CreatorsStay, Answers' \subseteq Answers
  PROVE  CacheInv'
<1>1. p \in Stores
  BY DEF Stores
<1>2. CASE r.op = "incr"
  <2>1. LocalIncr(p, r)
    BY <1>2 DEF Local
  <2>2. UNCHANGED <<items, quiet, cut>>
    BY <2>1 DEF LocalIncr
  <2>3. /\ counters' \in [Stores -> Entries] /\ acked' \in [Stores -> Nat]
        /\ counters'[Shared] = counters[Shared] /\ acked'[Shared] = acked[Shared]
        /\ LocalCounted'
    BY <1>2, <2>1, LocalIncrKeeps DEF CacheInv
  <2>4. SharedCounted'
    BY <2>3, FewerAnswers DEF CacheInv
  <2>5. CounterExpires'
    BY <2>2, <2>3 DEF CacheInv, CounterExpires, CreatorsStay, Live
  <2>6. QED
    BY <2>2, <2>3, <2>4, <2>5 DEF CacheInv, CacheTypes, EntriesAge
<1>3. CASE r.op # "incr"
  <2>1. Apply(p, r)
    BY <1>3 DEF Local
  <2>2. UNCHANGED <<counters, acked, cut>>
    BY <2>1 DEF Apply
  <2>3. SharedCounted'
    BY <2>2, FewerAnswers DEF CacheInv
  <2>4. QED
    BY <1>1, <2>1, <2>2, <2>3, ApplyKeeps
    DEF CacheInv, CacheTypes, LocalCounted, CounterExpires, CreatorsStay, Live
<1>4. QED
  BY <1>2, <1>3

-----------------------------------------------------------------------------
\* Steps on the counter in Redis.

\* INCRBY: one more is counted, and one more answer may be on the way.
LEMMA IncrKeeps ==
  ASSUME CacheInv, NEW c \in Calls, Incr(c)
  PROVE  CacheInv'
<1> DEFINE old == counters[Shared]
           n == Capped((IF Live(old) THEN old.value ELSE 0) + 1)
           left == IF Live(old) THEN old.left ELSE Never
<1>1. /\ counters' = [counters EXCEPT ![Shared] = [value |-> n, left |-> left]]
      /\ cut' = IF Live(old) THEN cut ELSE FALSE
      /\ answer' = [answer EXCEPT ![c] = 1]
      /\ stage[c] = "asking" /\ request[c].op = "incr" /\ request' = [request EXCEPT ![c] = @]
      /\ stage' = [stage EXCEPT ![c] = IF Created(n) THEN "created" ELSE "answered"]
      /\ UNCHANGED <<items, acked, quiet>>
  BY DEF Incr, Go, Stored, CacheInv, CallsKnown
<1>2. Shared \in Stores /\ Shared \notin Pods /\ old \in Entries /\ acked[Shared] \in Nat
  BY PodAssumption DEF Stores, Shared, CacheInv, CacheTypes
<1>3. n \in Nat /\ n >= 1 /\ left \in Int /\ left # 0
  BY <1>2, CountAssumption DEF Capped, Entries, Never, Live
<1>4. counters'[Shared] = [value |-> n, left |-> left] /\ \A p \in Pods : counters'[p] = counters[p]
  BY <1>1, <1>2 DEF CacheInv, CacheTypes, Stores
<1>5. CacheTypes'
  BY <1>1, <1>3 DEF CacheInv, CacheTypes, Entries
<1>6. CallsKnown'
  BY <1>1 DEF CacheInv, CallsKnown
<1>7. EntriesAge' /\ LocalCounted'
  BY <1>1, <1>4 DEF CacheInv, EntriesAge, LocalCounted, Live
<1>8. SharedCounted'
  <2>1. Answers' \subseteq Answers \cup {c}
    BY <1>1 DEF Answers, CacheInv, CallsKnown
  <2>2. Cardinality(Answers') <= Cardinality(Answers) + 1 /\ Cardinality(Answers') \in Nat
    <3>1. /\ IsFiniteSet(Answers \cup {c})
          /\ Cardinality(Answers \cup {c}) <= Cardinality(Answers) + 1
      <4>1. /\ IsFiniteSet(Answers \cup {c})
            /\ \/ Cardinality(Answers \cup {c}) = Cardinality(Answers)
               \/ Cardinality(Answers \cup {c}) = Cardinality(Answers) + 1
        BY AnswersFinite, FS_AddElement
      <4>2. Cardinality(Answers) \in Nat
        BY AnswersFinite
      <4>3. QED
        BY <4>1, <4>2
    <3>2. IsFiniteSet(Answers') /\ Cardinality(Answers') <= Cardinality(Answers \cup {c})
      BY <2>1, <3>1, FS_Subset
    <3>3. /\ Cardinality(Answers) \in Nat /\ Cardinality(Answers') \in Nat
          /\ Cardinality(Answers \cup {c}) \in Nat
      BY <3>1, <3>2, AnswersFinite, FS_CardinalityType
    <3>4. QED
      BY <3>1, <3>2, <3>3
  <2>3. Live(counters'[Shared])
    BY <1>3, <1>4 DEF Live
  <2>4. CASE Live(old)
    <3>1. n = Capped(old.value + 1)
      BY <2>4
    <3>2. /\ old.value <= MaxCount
          /\ acked[Shared] + Cardinality(Answers) <= old.value
               \/ (acked[Shared] <= MaxCount /\ old.value = MaxCount)
      BY <2>4 DEF CacheInv, SharedCounted
    <3>3. n \in Nat /\ old.value \in Nat /\ n = IF old.value + 1 < MaxCount THEN old.value + 1 ELSE MaxCount
      BY <1>2, <1>3, <3>1 DEF Capped, Entries
    <3> HIDE DEF n
    <3>4. /\ n <= MaxCount
          /\ acked[Shared] + Cardinality(Answers') <= n
               \/ (acked[Shared] <= MaxCount /\ n = MaxCount)
      BY <1>2, <2>2, <3>2, <3>3, AnswersFinite, CountAssumption
    <3>5. QED
      BY <1>1, <1>4, <2>3, <3>4 DEF SharedCounted
  <2>5. CASE ~Live(old)
    <3>1. acked[Shared] = 0 /\ Answers = {}
      BY <2>5 DEF CacheInv, SharedCounted
    <3>2. acked[Shared] + Cardinality(Answers') <= n
      BY <1>3, <2>2, <3>1, FS_EmptySet
    <3>3. n <= MaxCount
      BY <2>5, CountAssumption DEF Capped
    <3>4. QED
      BY <1>1, <1>4, <2>3, <3>2, <3>3 DEF SharedCounted
  <2>6. QED
    BY <2>4, <2>5
<1>9. CounterExpires'
  <2>1. CASE Live(old)
    BY <1>1, <1>4, <2>1 DEF CacheInv, CallsKnown, CounterExpires
  <2>2. CASE ~Live(old)
    <3>1. n = 1
      BY <2>2, CountAssumption DEF Capped
    <3>2. stage'[c] = "created"
      BY <1>1, <3>1 DEF Created, CacheInv, CallsKnown
    <3>3. QED
      BY <3>2 DEF CounterExpires
  <2>3. QED
    BY <2>1, <2>2
<1>10. QED
  BY <1>5, <1>6, <1>7, <1>8, <1>9 DEF CacheInv

\* The expiry is set, if the counter is still there.
LEMMA SetExpiryKeeps ==
  ASSUME CacheInv, NEW c \in Calls, SetExpiry(c)
  PROVE  CacheInv'
<1>1. request[c] \in Requests /\ request[c].ttl = CounterTtl
  BY DEF SetExpiry, CacheInv, CallsKnown, Requests
<1>2. CallsKnown' /\ UNCHANGED <<items, acked, quiet, cut, answer>>
  BY DEF SetExpiry, CacheInv, CallsKnown, Go
<1>3. Shared \in Stores /\ Shared \notin Pods /\ counters[Shared] \in Entries
  BY PodAssumption DEF Stores, Shared, CacheInv, CacheTypes
<1>4. CASE Live(counters[Shared])
  <2>1. counters' = [counters EXCEPT ![Shared] =
                       [value |-> counters[Shared].value, left |-> CounterTtl]]
    BY <1>1, <1>4 DEF SetExpiry, Stored
  <2>2. /\ counters'[Shared] = [value |-> counters[Shared].value, left |-> CounterTtl]
        /\ \A p \in Pods : counters'[p] = counters[p]
        /\ counters' \in [Stores -> Entries]
    BY <1>3, <2>1, TtlAssumption DEF CacheInv, CacheTypes, Stores, Entries
  <2>3. CacheTypes' /\ EntriesAge' /\ LocalCounted'
    BY <1>2, <2>2 DEF CacheInv, CacheTypes, EntriesAge, LocalCounted, Live
  <2>4. SharedCounted' /\ CounterExpires'
    BY <1>2, <1>4, <2>2, TtlAssumption
    DEF CacheInv, SharedCounted, CounterExpires, Live, Answers, Never
  <2>5. QED
    BY <1>2, <2>3, <2>4 DEF CacheInv
<1>5. CASE ~Live(counters[Shared])
  <2>1. counters' = counters
    BY <1>3, <1>5 DEF SetExpiry, CacheInv, CacheTypes
  <2>2. SharedCounted' /\ CounterExpires'
    BY <1>2, <1>5, <2>1 DEF CacheInv, SharedCounted, CounterExpires, Live, Answers
  <2>3. QED
    BY <1>2, <2>1, <2>2 DEF CacheInv, CacheTypes, EntriesAge, LocalCounted, Live
<1>6. QED
  BY <1>4, <1>5

\* The answer of an increment is acknowledged.
LEMMA DeliverKeeps ==
  ASSUME CacheInv, NEW c \in Calls, Deliver(c)
  PROVE  CacheInv'
<1>1. CallsKnown' /\ CreatorsStay /\ Answers' \subseteq Answers
  BY FinishKeeps DEF Deliver, CacheInv
<1>2. /\ acked' = [acked EXCEPT ![Shared] = Capped(acked[Shared] + answer[c])]
      /\ answer' = [answer EXCEPT ![c] = 0]
      /\ UNCHANGED <<items, counters, quiet, cut>>
  BY DEF Deliver, Finish, Nothing, CacheInv, CacheTypes
<1>3. /\ Shared \in Stores /\ Shared \notin Pods
      /\ acked[Shared] \in Nat /\ counters[Shared].value \in Nat /\ answer[c] \in {0, 1}
  BY PodAssumption DEF Stores, Shared, CacheInv, CacheTypes, CallsKnown, Entries
<1>4. Capped(acked[Shared] + answer[c]) \in Nat
  BY <1>3, CountAssumption DEF Capped
<1>5. CacheTypes' /\ EntriesAge' /\ LocalCounted'
  BY <1>2, <1>3, <1>4 DEF CacheInv, CacheTypes, EntriesAge, LocalCounted, Live, Stores
<1>6. CounterExpires'
  BY <1>1, <1>2 DEF CacheInv, CounterExpires, CreatorsStay, Live
<1>7. SharedCounted'
  <2>1. acked'[Shared] = Capped(acked[Shared] + answer[c])
    BY <1>2, <1>3 DEF CacheInv, CacheTypes
  <2>2. CASE answer[c] = 1
    <3>1. c \in Answers /\ Answers' = Answers \ {c}
      BY <1>2, <2>2 DEF Answers, CacheInv, CallsKnown
    <3>2. Cardinality(Answers') = Cardinality(Answers) - 1
      BY <3>1, AnswersFinite, FS_RemoveElement
    <3>3. Live(counters[Shared])
      BY <3>1 DEF CacheInv, SharedCounted
    <3>4. /\ counters[Shared].value <= MaxCount
          /\ acked'[Shared] + Cardinality(Answers') <= counters[Shared].value
               \/ (acked'[Shared] <= MaxCount /\ counters[Shared].value = MaxCount)
      BY <1>3, <2>1, <2>2, <3>2, <3>3, AnswersFinite, CountAssumption
      DEF CacheInv, SharedCounted, Capped
    <3>5. QED
      BY <1>2, <3>3, <3>4 DEF SharedCounted, Live
  <2>3. CASE answer[c] = 0
    <3>1. Answers' = Answers
      BY <1>2, <2>3 DEF Answers, CacheInv, CallsKnown
    <3>2. acked'[Shared] <= acked[Shared]
      BY <1>3, <2>1, <2>3, CountAssumption DEF Capped
    <3>3. CASE Live(counters[Shared])
      <4>1. /\ counters[Shared].value <= MaxCount
            /\ acked'[Shared] + Cardinality(Answers') <= counters[Shared].value
                 \/ (acked'[Shared] <= MaxCount /\ counters[Shared].value = MaxCount)
        BY <1>3, <1>4, <2>1, <3>1, <3>2, <3>3, AnswersFinite, CountAssumption
        DEF CacheInv, SharedCounted
      <4>2. QED
        BY <1>2, <3>3, <4>1 DEF SharedCounted, Live
    <3>4. CASE ~Live(counters[Shared])
      <4>1. acked'[Shared] = 0
        BY <2>1, <2>3, <3>4, CountAssumption DEF CacheInv, SharedCounted, Capped
      <4>2. QED
        BY <1>2, <3>1, <3>4, <4>1 DEF CacheInv, SharedCounted, Live
    <3>5. QED
      BY <3>3, <3>4
  <2>4. QED
    BY <1>3, <2>2, <2>3
<1>8. QED
  BY <1>1, <1>5, <1>6, <1>7 DEF CacheInv

\* incr() raises, or the caller is cancelled.
LEMMA CutKeeps ==
  ASSUME CacheInv, NEW c \in Calls, cut' = (cut \/ stage[c] = "created"), Finish(c),
         UNCHANGED <<items, counters, acked, quiet>>
  PROVE  CacheInv'
<1>1. CallsKnown' /\ Answers' \subseteq Answers
  BY FinishKeeps DEF CacheInv
<1>2. SharedCounted'
  BY <1>1, FewerAnswers DEF CacheInv
<1>3. CounterExpires'
  BY DEF CacheInv, CacheTypes, CallsKnown, CounterExpires, Live, Finish, Go
<1>4. CacheTypes' /\ EntriesAge' /\ LocalCounted'
  BY DEF CacheInv, CacheTypes, EntriesAge, LocalCounted, Live
<1>5. QED
  BY <1>1, <1>2, <1>3, <1>4 DEF CacheInv

-----------------------------------------------------------------------------
\* One second; an entry that expires takes its history with it.
LEMMA TickKeeps ==
  ASSUME CacheInv, Tick
  PROVE  CacheInv'
<1>1. ASSUME NEW e \in Entries
      PROVE  /\ Aged(e) = [value |-> e.value, left |-> Less(e.left)]
             /\ Aged(e) \in Entries
             /\ Live(Aged(e)) => Live(e)
             /\ Aged(e).left = Never => e.left = Never \/ e.left = 0
  BY DEF Entries, Aged, Stored, Less, Live, Never
<1>2. Shared \in Stores /\ Shared \notin Pods /\ counters[Shared] \in Entries /\ Pods \subseteq Stores
  BY PodAssumption DEF Stores, Shared, CacheInv, CacheTypes
<1>3. Absent \in Entries /\ Absent.left = 0 /\ ~Live(Absent)
  BY DEF Absent, Entries, Live
<1>4. items' \in [Stores -> Entries] /\ counters' \in [Stores -> Entries]
  BY <1>1, <1>3 DEF Tick, CacheInv, CacheTypes
<1>5. CacheTypes'
  <2>1. acked' \in [Stores -> Nat] /\ cut' \in BOOLEAN
    BY DEF Tick, CacheInv, CacheTypes
  <2>2. quiet' \in 0 .. CounterTtl
    BY TtlAssumption DEF Tick, CacheInv, CacheTypes
  <2>3. QED
    BY <1>4, <2>1, <2>2 DEF CacheTypes
<1>6. EntriesAge'
  <2>1. SUFFICES ASSUME NEW s \in Stores
                 PROVE  items'[s].left \in 0 .. CounterTtl - quiet'
    BY DEF EntriesAge
  <2>2. items[s] \in Entries /\ items[s].left \in 0 .. CounterTtl - quiet /\ quiet \in 0 .. CounterTtl
    BY DEF CacheInv, CacheTypes, EntriesAge
  <2>3. items'[s].left = Less(items[s].left)
    BY <1>1, <2>2 DEF Tick
  <2>4. quiet' = IF quiet < CounterTtl THEN quiet + 1 ELSE quiet
    BY DEF Tick
  <2>5. QED
    BY <2>2, <2>3, <2>4, TtlAssumption DEF Less
<1>7. LocalCounted'
  <2>1. SUFFICES ASSUME NEW p \in Pods, Live(counters'[p])
                 PROVE  acked'[p] <= counters'[p].value
    BY DEF LocalCounted
  <2>2. p \in Stores /\ p # Shared /\ counters[p] \in Entries
    BY <1>2 DEF CacheInv, CacheTypes
  <2>3. counters'[p] = Aged(counters[p]) /\ acked'[p] = acked[p]
    BY <2>2 DEF Tick, CacheInv, CacheTypes
  <2>4. QED
    BY <1>1, <2>1, <2>2, <2>3 DEF CacheInv, LocalCounted
<1>8. CASE Expired
  <2>1. counters'[Shared] = Absent /\ acked'[Shared] = 0
    BY <1>2, <1>8 DEF Tick, CacheInv, CacheTypes
  <2>2. Answers' = {} /\ CallsKnown'
    BY <1>8 DEF Tick, Answers, CacheInv, CallsKnown, Nothing
  <2>3. SharedCounted' /\ CounterExpires'
    BY <1>3, <2>1, <2>2 DEF SharedCounted, CounterExpires, Live, Absent
  <2>4. QED
    BY <1>5, <1>6, <1>7, <2>2, <2>3 DEF CacheInv
<1>9. CASE ~Expired
  <2>1. counters'[Shared] = Aged(counters[Shared]) /\ UNCHANGED <<acked, answer, stage, request, cut>>
    BY <1>2, <1>9 DEF Tick
  <2>2. counters[Shared] # Absent
    BY <1>9, <1>1, <1>3 DEF Expired, Less
  <2>3. Live(counters[Shared])
    BY <2>2 DEF CacheInv, SharedCounted
  <2>4. counters'[Shared].value = counters[Shared].value /\ Live(counters'[Shared])
    BY <1>1, <1>2, <1>9, <2>1, <2>3 DEF Live, Expired
  <2>5. SharedCounted' /\ CallsKnown'
    BY <2>1, <2>3, <2>4 DEF CacheInv, SharedCounted, CallsKnown, Answers
  <2>6. CounterExpires'
    BY <1>1, <1>2, <2>1, <2>3 DEF CacheInv, CounterExpires, Live
  <2>7. QED
    BY <1>5, <1>6, <1>7, <2>5, <2>6 DEF CacheInv
<1>10. QED
  BY <1>8, <1>9

\* A step of a call.
LEMMA CallNextKeeps ==
  ASSUME CacheInv, NEW c \in Calls, CallNext(c)
  PROVE  CacheInv'
<1>1. PodOf[c] \in Pods /\ Shared \in Stores
  BY PodAssumption DEF Stores
<1>2. RequestsOf(c) \subseteq Requests
  BY DEF RequestsOf
<1>3. stage[c] # "idle" => request[c] \in Requests
  BY DEF CacheInv, CallsKnown
<1>4. CASE UNCHANGED <<stage, request, answer>> /\ \E r \in Requests : Local(PodOf[c], r)
  BY <1>1, <1>4, LocalKeeps DEF CacheInv, CallsKnown, CreatorsStay, Answers
<1>5. CASE /\ \E s \in {"asking", "probing", "probed"}, r \in Requests : Go(c, s, r)
           /\ stage[c] # "created" /\ UNCHANGED <<answer, store_vars>>
  BY <1>5, GoKeeps, StoresStay DEF CacheInv, Answers
<1>6. CASE /\ stage[c] \in {"probing", "asking", "answered"}
           /\ Local(PodOf[c], request[c])
           /\ Finish(c)
  BY <1>1, <1>3, <1>6, FinishKeeps, LocalKeeps DEF CacheInv
<1>7. CASE Execute(c)
  <2>1. Apply(Shared, request[c]) /\ Go(c, "answered", request[c]) /\ UNCHANGED answer
    BY <1>7 DEF Execute
  <2>2. request[c] \in Requests /\ stage[c] # "created"
    BY <1>3, <1>7 DEF Execute
  <2>3. CallsKnown' /\ CreatorsStay
    BY <2>1, <2>2, GoKeeps DEF CacheInv
  <2>4. UNCHANGED <<counters, acked, cut, answer>>
    BY <2>1 DEF Apply
  <2>5. SharedCounted' /\ LocalCounted' /\ CounterExpires'
    BY <2>3, <2>4
    DEF CacheInv, SharedCounted, LocalCounted, CounterExpires, Live, Answers, CreatorsStay
  <2>6. QED
    BY <1>1, <2>1, <2>2, <2>3, <2>4, <2>5, ApplyKeeps DEF CacheInv, CacheTypes
<1>8. CASE LoseIncr(c) \/ Cancel(c)
  BY <1>8, CutKeeps DEF LoseIncr, IncrRaises, Cancel
<1>9. CallMemory(c) \/ AskDegraded(c) => CacheInv'
  BY <1>2, <1>4, <1>5 DEF CallMemory, AskDegraded, calls_vars
<1>10. Ask(c) \/ ProbeAnswered(c) \/ ProbeRecovers(c) => CacheInv'
  BY <1>2, <1>3, <1>5 DEF Ask, ProbeAnswered, ProbeRecovers
<1>11. ProbeFails(c) \/ Lose(c) => CacheInv'
  BY <1>6 DEF ProbeFails, Lose
<1>12. QED
  BY <1>7, <1>8, <1>9, <1>10, <1>11, IncrKeeps, SetExpiryKeeps, DeliverKeeps DEF CallNext

LEMMA NextCacheInv == CacheInv /\ [Next]_vars => CacheInv'
<1> SUFFICES ASSUME CacheInv, [Next]_vars
             PROVE  CacheInv'
  OBVIOUS
<1>1. CASE UNCHANGED <<store_vars, calls_vars>>
  BY <1>1, StoresStay DEF CacheInv, CallsKnown, CreatorsStay, Answers, calls_vars
<1>2. QED
  BY <1>1, CallNextKeeps, TickKeeps DEF Next, HealthCheck, Recover, Outage, vars

LEMMA AlwaysCacheInv == Spec => []CacheInv
BY InitCacheInv, NextCacheInv, PTL DEF Spec

\* Outages leave old entries in Redis and in the fallbacks, and a recovery
\* brings them back; none of them is read later than its ttl after the last
\* write anywhere (cache/redis_impl.py).
THEOREM StalenessBounded == Spec => []StaleOnlyUntilTtl
<1>1. CacheInv => StaleOnlyUntilTtl
  BY TtlAssumption DEF CacheInv, EntriesAge, StaleOnlyUntilTtl, Live
<1>2. QED
  BY <1>1, AlwaysCacheInv, PTL

\* Redis and each fallback have counted what they have acknowledged; a lost
\* reply or a cancelled caller can only make the counter larger.
THEOREM IncrementsCounted == Spec => []AcknowledgedIsCounted
<1>1. CacheInv => AcknowledgedIsCounted
  <2>1. SUFFICES ASSUME CacheInv, NEW s \in Stores, Live(counters[s])
                 PROVE  acked[s] <= counters[s].value
    BY DEF AcknowledgedIsCounted
  <2>2. acked[s] \in Nat /\ counters[s].value \in Nat
    BY <2>1 DEF CacheInv, CacheTypes, Entries
  <2>3. CASE s = Shared
    BY <2>1, <2>2, <2>3, AnswersFinite DEF CacheInv, SharedCounted
  <2>4. CASE s # Shared
    BY <2>1, <2>4 DEF CacheInv, LocalCounted, Stores
  <2>5. QED
    BY <2>3, <2>4
<1>2. QED
  BY <1>1, AlwaysCacheInv, PTL

\* Between INCRBY and EXPIRE the counter is without an expiry; it stays so
\* only if the creator was cut off there.
THEOREM ExpirySet == Spec => []CounterExpires
<1>1. CacheInv => CounterExpires
  BY DEF CacheInv
<1>2. QED
  BY <1>1, AlwaysCacheInv, PTL
=============================================================================
