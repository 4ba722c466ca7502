--------------------------- MODULE Throttle_proofs ---------------------------
(***************************************************************************)
(* Proofs about Throttle, for every limit and window, any number of pods   *)
(* and calls and any outages: no window admits more than the limit, none   *)
(* denies before it is full, and the time a denial names is enough.        *)
(***************************************************************************)
EXTENDS Throttle, FiniteSetTheorems, SequenceTheorems, TLAPS

LEMMA Rates == /\ Limit \in Nat /\ Limit > 0 /\ Window \in Nat /\ Window > 0
               /\ Window - 1 \in Nat /\ ProbeInterval \in Nat
BY RateAssumption, ProbeAssumption

-----------------------------------------------------------------------------
\* Windows: the admissions that count are the newest ones.

Sorted(w) ==
  /\ w \in Seq(Nat)
  /\ \A i, j \in DOMAIN w : i <= j => w[i] <= w[j]

Young(w, limit) == {i \in DOMAIN w : w[i] <= limit}

PrunedTo(w, limit) == SubSeq(w, 1, Kept(w, limit))

LEMMA SortedTypes ==
  ASSUME NEW w, Sorted(w)
  PROVE  /\ w \in Seq(Nat) /\ Len(w) \in Nat /\ DOMAIN w = 1 .. Len(w)
         /\ \A i \in 1 .. Len(w) : w[i] \in Nat
         /\ \A i, j \in 1 .. Len(w) : i <= j => w[i] <= w[j]
<1>1. w \in Seq(Nat)
  BY DEF Sorted
<1>2. Len(w) \in Nat /\ DOMAIN w = 1 .. Len(w)
  BY <1>1, LenProperties
<1>3. \A i \in 1 .. Len(w) : w[i] \in Nat
  BY <1>1, ElementOfSeq
<1>4. QED
  BY <1>1, <1>2, <1>3 DEF Sorted

LEMMA MaxIs ==
  ASSUME NEW S \in SUBSET Int, NEW m \in S, \A i \in S : m >= i
  PROVE  Max(S) = m
<1>1. \E x \in S : \A y \in S : x >= y
  OBVIOUS
<1>2. Max(S) \in S /\ \A y \in S : Max(S) >= y
  BY <1>1, Zenon DEF Max
<1>3. Max(S) \in Int /\ m \in Int /\ Max(S) >= m /\ m >= Max(S)
  BY <1>2
<1>4. QED
  BY <1>3

\* A set of positions that has every position before one of its own is an
\* interval.
LEMMA PrefixIsInterval ==
  ASSUME NEW n \in Nat, NEW Y \in SUBSET (1 .. n),
         \A i \in Y : \A j \in 1 .. i : j \in Y
  PROVE  /\ Cardinality(Y) \in 0 .. n /\ Y = 1 .. Cardinality(Y)
<1> DEFINE k == Cardinality(Y)
<1>1. IsFiniteSet(1 .. n) /\ Cardinality(1 .. n) = n
  BY FS_Interval
<1>2. IsFiniteSet(Y) /\ k <= n
  <2>1. IsFiniteSet(Y) /\ Cardinality(Y) <= Cardinality(1 .. n)
    BY <1>1, FS_Subset
  <2>2. QED
    BY <1>1, <2>1
<1>3. k \in Nat
  BY <1>2, FS_CardinalityType
<1> HIDE DEF k
<1>4. ASSUME NEW i \in Y PROVE i \in 1 .. k
  <2>1. i \in Int /\ i >= 1
    BY <1>4
  <2>2. (1 .. i) \in SUBSET Y
    BY <1>4
  <2>3. Cardinality(1 .. i) = i
    BY <2>1, FS_Interval
  <2>4. i <= k
    BY <1>2, <2>2, <2>3, FS_Subset DEF k
  <2>5. QED
    BY <1>3, <2>1, <2>4
<1>5. IsFiniteSet(1 .. k) /\ Cardinality(1 .. k) = k
  BY <1>3, FS_Interval
<1>6. Y \in SUBSET (1 .. k)
  BY <1>4
<1>7. 1 .. k = Y
  BY <1>5, <1>6, FS_Subset DEF k
<1>8. QED
  BY <1>2, <1>3, <1>7 DEF k

\* What is left after pruning.
LEMMA KeptCounts ==
  ASSUME NEW w, Sorted(w), NEW limit \in Int
  PROVE  /\ Kept(w, limit) \in 0 .. Len(w)
         /\ Young(w, limit) = 1 .. Kept(w, limit)
         /\ Cardinality(Young(w, limit)) = Kept(w, limit)
<1> DEFINE Y == Young(w, limit)
           k == Cardinality(Y)
<1>1. /\ Len(w) \in Nat /\ DOMAIN w = 1 .. Len(w)
      /\ \A i \in 1 .. Len(w) : w[i] \in Nat
      /\ \A i, j \in 1 .. Len(w) : i <= j => w[i] <= w[j]
  BY SortedTypes
<1>2. Y \in SUBSET (1 .. Len(w))
  BY <1>1 DEF Young
<1>3. ASSUME NEW i \in Y, NEW j \in 1 .. i PROVE j \in Y
  <2>1. i \in 1 .. Len(w) /\ j \in 1 .. Len(w) /\ j <= i /\ w[i] <= limit
    BY <1>1, <1>3 DEF Young
  <2>2. w[j] <= w[i] /\ w[i] \in Nat /\ w[j] \in Nat
    BY <1>1, <2>1
  <2>3. w[j] <= limit
    BY <2>1, <2>2
  <2>4. QED
    BY <1>1, <2>1, <2>3 DEF Young
<1>4. k \in 0 .. Len(w) /\ Y = 1 .. k
  <2> HIDE DEF Y
  <2>1. QED
    BY <1>1, <1>2, <1>3, PrefixIsInterval
<1>5. Kept(w, limit) = Max({0} \cup Y)
  BY DEF Kept, Young
<1> HIDE DEF Y, k
<1>6. Max({0} \cup Y) = k
  <2>1. ({0} \cup Y) \in SUBSET Int /\ k \in {0} \cup Y
    BY <1>4
  <2>2. \A i \in {0} \cup Y : k >= i
    BY <1>4
  <2>3. QED
    BY <2>1, <2>2, MaxIs
<1>7. QED
  BY <1>4, <1>5, <1>6 DEF Y, k

LEMMA PrunedProperties ==
  ASSUME NEW w, Sorted(w), NEW limit \in Int
  PROVE  /\ Sorted(PrunedTo(w, limit))
         /\ Len(PrunedTo(w, limit)) = Kept(w, limit)
         /\ \A i \in 1 .. Kept(w, limit) :
              PrunedTo(w, limit)[i] = w[i] /\ w[i] <= limit
<1> DEFINE v == PrunedTo(w, limit)
           k == Kept(w, limit)
<1>1. k \in 0 .. Len(w) /\ Young(w, limit) = 1 .. k
  BY KeptCounts
<1>2. /\ Len(w) \in Nat /\ DOMAIN w = 1 .. Len(w)
      /\ \A i \in 1 .. Len(w) : w[i] \in Nat
      /\ \A i, j \in 1 .. Len(w) : i <= j => w[i] <= w[j]
  BY SortedTypes
<1>3. \A i \in 1 .. k : w[i] <= limit
  BY <1>1 DEF Young
<1>4. v = SubSeq(w, 1, k)
  BY DEF PrunedTo
<1> HIDE DEF v, k
<1>5. /\ v \in Seq(Nat) /\ Len(v) = k
      /\ \A i \in 1 .. k : v[i] = w[i]
  <2>1. k \in Int /\ \A i \in 1 .. k : w[i] \in Nat
    BY <1>1, <1>2
  <2>2. /\ v \in Seq(Nat) /\ Len(v) = IF 1 <= k THEN k - 1 + 1 ELSE 0
        /\ \A i \in 1 .. k - 1 + 1 : v[i] = w[1 + i - 1]
    BY <1>4, <2>1, SubSeqProperties
  <2>3. QED
    BY <1>1, <2>2
<1>6. DOMAIN v = 1 .. k
  BY <1>5, LenProperties
<1>7. Sorted(v)
  BY <1>1, <1>2, <1>5, <1>6 DEF Sorted
<1>8. QED
  BY <1>3, <1>5, <1>7 DEF v, k

LEMMA AdmittedProperties ==
  ASSUME NEW w, Sorted(w)
  PROVE  /\ Sorted(Admitted(w)) /\ Len(Admitted(w)) = Len(w) + 1
         /\ Admitted(w)[1] = 0
         /\ \A i \in 1 .. Len(w) + 1 : i > 1 => Admitted(w)[i] = w[i - 1]
<1> DEFINE v == Admitted(w)
<1>1. /\ w \in Seq(Nat) /\ Len(w) \in Nat
      /\ \A i \in 1 .. Len(w) : w[i] \in Nat
      /\ \A i, j \in 1 .. Len(w) : i <= j => w[i] <= w[j]
  BY SortedTypes
<1>2. <<0>> \in Seq(Nat) /\ Len(<<0>>) = 1 /\ <<0>>[1] = 0
  OBVIOUS
<1>3. v = <<0>> \o w
  BY DEF Admitted
<1> HIDE DEF v
<1>4. /\ v \in Seq(Nat) /\ Len(v) = 1 + Len(w)
      /\ \A i \in 1 .. 1 + Len(w) : v[i] = IF i <= 1 THEN <<0>>[i] ELSE w[i - 1]
  BY <1>1, <1>2, <1>3, ConcatProperties
<1>5. DOMAIN v = 1 .. 1 + Len(w)
  BY <1>4, LenProperties
<1>6. v[1] = 0 /\ \A i \in 1 .. Len(w) + 1 : i > 1 => v[i] = w[i - 1]
  BY <1>1, <1>2, <1>4
<1>7. ASSUME NEW i \in 1 .. 1 + Len(w), NEW j \in 1 .. 1 + Len(w), i <= j
      PROVE  v[i] <= v[j]
  <2>1. CASE i = 1
    BY <1>4, <1>6, <2>1, <1>5, <1>1
  <2>2. CASE i > 1
    <3>1. /\ i - 1 \in 1 .. Len(w) /\ j - 1 \in 1 .. Len(w) /\ i - 1 <= j - 1
          /\ i \in 1 .. Len(w) + 1 /\ j \in 1 .. Len(w) + 1 /\ j > 1
      BY <1>1, <1>7, <2>2
    <3>2. QED
      BY <1>1, <1>6, <2>2, <3>1
  <2>3. QED
    BY <1>1, <2>1, <2>2
<1>8. Sorted(v)
  BY <1>4, <1>5, <1>7 DEF Sorted
<1>9. QED
  BY <1>1, <1>4, <1>6, <1>8 DEF v

LEMMA OlderProperties ==
  ASSUME NEW a \in Nat, NEW b \in Nat
  PROVE  /\ Older(a) \in Nat /\ a <= Older(a)
         /\ a <= b => Older(a) <= Older(b)
BY Rates DEF Older

LEMMA AgedProperties ==
  ASSUME NEW w, Sorted(w)
  PROVE  /\ Sorted(Aged(w)) /\ Len(Aged(w)) = Len(w)
         /\ \A i \in 1 .. Len(w) : Aged(w)[i] = Older(w[i]) /\ w[i] <= Aged(w)[i]
<1> DEFINE v == Aged(w)
<1>1. /\ w \in Seq(Nat) /\ Len(w) \in Nat /\ DOMAIN w = 1 .. Len(w)
      /\ \A i \in 1 .. Len(w) : w[i] \in Nat
      /\ \A i, j \in 1 .. Len(w) : i <= j => w[i] <= w[j]
  BY SortedTypes
<1>2. v = [i \in 1 .. Len(w) |-> Older(w[i])]
  BY <1>1 DEF Aged
<1> HIDE DEF v
<1>3. \A i \in 1 .. Len(w) : v[i] = Older(w[i]) /\ v[i] \in Nat /\ w[i] <= v[i]
  BY <1>1, <1>2, OlderProperties
<1>4. v \in [1 .. Len(w) -> Nat]
  BY <1>2, <1>3
<1>5. v \in Seq(Nat) /\ Len(v) = Len(w)
  BY <1>1, <1>4
<1>6. DOMAIN v = 1 .. Len(w)
  BY <1>2
<1>7. \A i, j \in 1 .. Len(w) : i <= j => v[i] <= v[j]
  BY <1>1, <1>3, OlderProperties
<1>8. QED
  BY <1>3, <1>5, <1>6, <1>7 DEF Sorted, v

-----------------------------------------------------------------------------
\* A window and the history of its admissions.

\* They agree on the admissions that still count.
Same(w, g, limit) ==
  /\ Young(w, limit) = Young(g, limit)
  /\ \A i \in Young(w, limit) : w[i] = g[i]

Faithful(w, g, limit) ==
  /\ Sorted(w) /\ Sorted(g)
  /\ Same(w, g, limit)
  /\ Young(g, limit) \subseteq 1 .. Limit

LEMMA YoungTypes ==
  ASSUME NEW w, Sorted(w), NEW limit
  PROVE  Young(w, limit) = {i \in 1 .. Len(w) : w[i] <= limit}
BY SortedTypes DEF Young

LEMMA EmptyFaithful == ASSUME NEW limit PROVE Faithful(<<>>, <<>>, limit)
<1>1. <<>> \in Seq(Nat) /\ Len(<<>>) = 0 /\ DOMAIN <<>> = {}
  OBVIOUS
<1>2. Sorted(<<>>) /\ Young(<<>>, limit) = {}
  BY <1>1 DEF Sorted, Young
<1>3. QED
  BY <1>2 DEF Faithful, Same

\* Pruning forgets what no longer counts.
LEMMA PrunedYoung ==
  ASSUME NEW w, Sorted(w), NEW limit \in Int, NEW lower \in Int, lower <= limit
  PROVE  /\ Young(PrunedTo(w, limit), lower) = Young(w, lower)
         /\ \A i \in Young(w, lower) : PrunedTo(w, limit)[i] = w[i]
<1> DEFINE v == PrunedTo(w, limit)
           k == Kept(w, limit)
<1>1. /\ k \in 0 .. Len(w) /\ Young(w, limit) = 1 .. k
      /\ Sorted(v) /\ Len(v) = k
      /\ \A i \in 1 .. k : v[i] = w[i] /\ w[i] <= limit
  BY KeptCounts, PrunedProperties
<1>2. /\ Len(w) \in Nat /\ \A i \in 1 .. Len(w) : w[i] \in Nat
      /\ Young(w, limit) = {i \in 1 .. Len(w) : w[i] <= limit}
      /\ Young(w, lower) = {i \in 1 .. Len(w) : w[i] <= lower}
  BY SortedTypes, YoungTypes
<1>3. Young(v, lower) = {i \in 1 .. k : v[i] <= lower}
  BY <1>1, YoungTypes
<1> HIDE DEF v, k
<1>4. \A i \in Young(w, lower) : i \in 1 .. k
  <2>1. ASSUME NEW i \in Young(w, lower) PROVE i \in Young(w, limit)
    <3>1. i \in 1 .. Len(w) /\ w[i] <= lower /\ w[i] \in Nat
      BY <1>2, <2>1
    <3>2. w[i] <= limit
      BY <3>1
    <3>3. QED
      BY <1>2, <3>1, <3>2
  <2>2. QED
    BY <1>1, <2>1
<1>5. \A i \in 1 .. k : i \in 1 .. Len(w)
  BY <1>1, <1>2
<1>6. Young(v, lower) = Young(w, lower)
  BY <1>1, <1>2, <1>3, <1>4, <1>5
<1>7. QED
  BY <1>1, <1>4, <1>6 DEF v

LEMMA PrunedFaithful ==
  ASSUME NEW w, NEW g, NEW limit \in Int, Faithful(w, g, limit)
  PROVE  Faithful(PrunedTo(w, limit), g, limit)
<1>1. Sorted(PrunedTo(w, limit))
  BY PrunedProperties DEF Faithful
<1>2. /\ Young(PrunedTo(w, limit), limit) = Young(w, limit)
      /\ \A i \in Young(w, limit) : PrunedTo(w, limit)[i] = w[i]
  BY PrunedYoung DEF Faithful
<1>3. QED
  BY <1>1, <1>2 DEF Faithful, Same

\* An admission counts in the window and in the history.
LEMMA AdmittedYoung ==
  ASSUME NEW w, Sorted(w), NEW limit \in Nat, NEW i \in Nat
  PROVE  i \in Young(Admitted(w), limit) <=> i = 1 \/ (i > 1 /\ i - 1 \in Young(w, limit))
<1>1. /\ Sorted(Admitted(w)) /\ Len(Admitted(w)) = Len(w) + 1 /\ Admitted(w)[1] = 0
      /\ \A j \in 1 .. Len(w) + 1 : j > 1 => Admitted(w)[j] = w[j - 1]
      /\ Len(w) \in Nat
  BY AdmittedProperties, SortedTypes
<1>2. Young(Admitted(w), limit) = {j \in 1 .. Len(w) + 1 : Admitted(w)[j] <= limit}
  BY <1>1, YoungTypes
<1>3. Young(w, limit) = {j \in 1 .. Len(w) : w[j] <= limit}
  BY YoungTypes
<1>4. CASE i = 1
  <2>1. 1 \in 1 .. Len(w) + 1 /\ Admitted(w)[1] <= limit
    BY <1>1
  <2>2. QED
    BY <1>2, <1>4, <2>1
<1>5. CASE i > 1
  <2>1. i \in 1 .. Len(w) + 1 <=> i - 1 \in 1 .. Len(w)
    BY <1>1, <1>5
  <2>2. i \in 1 .. Len(w) + 1 => Admitted(w)[i] = w[i - 1]
    BY <1>1, <1>5
  <2>3. i \in Young(Admitted(w), limit) <=> i - 1 \in Young(w, limit)
    BY <1>2, <1>3, <2>1, <2>2
  <2>4. QED
    BY <1>5, <2>3
<1>6. CASE i = 0
  BY <1>1, <1>2, <1>6
<1>7. QED
  BY <1>4, <1>5, <1>6

LEMMA AdmittedFaithful ==
  ASSUME NEW w, NEW g, NEW limit \in Nat, Faithful(w, g, limit), Len(w) < Limit,
         Young(w, limit) = 1 .. Len(w)
  PROVE  Faithful(Admitted(w), Admitted(g), limit)
<1>1. /\ Sorted(w) /\ Sorted(g) /\ Young(w, limit) = Young(g, limit)
      /\ \A i \in Young(w, limit) : w[i] = g[i]
      /\ Len(w) \in Nat /\ Len(g) \in Nat
  BY SortedTypes DEF Faithful, Same
<1>2. /\ Sorted(Admitted(w)) /\ Sorted(Admitted(g))
      /\ Admitted(w)[1] = 0 /\ Admitted(g)[1] = 0
      /\ Len(Admitted(w)) = Len(w) + 1 /\ Len(Admitted(g)) = Len(g) + 1
      /\ \A i \in 1 .. Len(w) + 1 : i > 1 => Admitted(w)[i] = w[i - 1]
      /\ \A i \in 1 .. Len(g) + 1 : i > 1 => Admitted(g)[i] = g[i - 1]
  BY <1>1, AdmittedProperties
<1>3. /\ Young(Admitted(w), limit) \subseteq Nat /\ Young(Admitted(g), limit) \subseteq Nat
      /\ Young(Admitted(w), limit) \subseteq 1 .. Len(w) + 1
      /\ Young(Admitted(g), limit) \subseteq 1 .. Len(g) + 1
  BY <1>1, <1>2, YoungTypes
<1>4. Young(Admitted(w), limit) = Young(Admitted(g), limit)
  <2>1. \A i \in Nat : i \in Young(Admitted(w), limit) <=> i \in Young(Admitted(g), limit)
    BY <1>1, AdmittedYoung
  <2>2. QED
    BY <1>3, <2>1
<1>5. ASSUME NEW i \in Young(Admitted(w), limit)
      PROVE  Admitted(w)[i] = Admitted(g)[i]
  <2>1. i \in 1 .. Len(w) + 1 /\ i \in 1 .. Len(g) + 1 /\ i \in Nat
    BY <1>3, <1>4, <1>5
  <2>2. CASE i = 1
    BY <1>2, <2>2
  <2>3. CASE i > 1
    <3>1. i - 1 \in Young(w, limit)
      BY <1>1, <1>5, <2>1, <2>3, AdmittedYoung
    <3>2. QED
      BY <1>1, <1>2, <2>1, <2>3, <3>1
  <2>4. QED
    BY <1>1, <2>1, <2>2, <2>3
<1>6. Young(Admitted(g), limit) \subseteq 1 .. Limit
  <2>1. \A i \in 1 .. Len(w) + 1 : i \in 1 .. Limit
    BY <1>1, Rates
  <2>2. QED
    BY <1>3, <1>4, <2>1
<1>7. QED
  BY <1>2, <1>4, <1>5, <1>6 DEF Faithful, Same

\* Nothing becomes younger.
LEMMA AgedYoung ==
  ASSUME NEW w, Sorted(w), NEW limit \in Nat
  PROVE  /\ Young(Aged(w), limit) = {i \in Young(w, limit) : Older(w[i]) <= limit}
         /\ \A i \in Young(w, limit) : Aged(w)[i] = Older(w[i])
<1>1. /\ Sorted(Aged(w)) /\ Len(Aged(w)) = Len(w) /\ Len(w) \in Nat
      /\ \A i \in 1 .. Len(w) : Aged(w)[i] = Older(w[i]) /\ w[i] \in Nat
  BY AgedProperties, SortedTypes
<1>2. /\ Young(Aged(w), limit) = {i \in 1 .. Len(w) : Aged(w)[i] <= limit}
      /\ Young(w, limit) = {i \in 1 .. Len(w) : w[i] <= limit}
  BY <1>1, YoungTypes
<1>3. ASSUME NEW i \in 1 .. Len(w), Older(w[i]) <= limit PROVE w[i] <= limit
  <2>1. w[i] \in Nat /\ Older(w[i]) \in Nat /\ w[i] <= Older(w[i])
    BY <1>1, OlderProperties
  <2>2. QED
    BY <1>3, <2>1
<1>4. QED
  BY <1>1, <1>2, <1>3

LEMMA AgedFaithful ==
  ASSUME NEW w, NEW g, NEW limit \in Nat, Faithful(w, g, limit)
  PROVE  Faithful(Aged(w), Aged(g), limit)
<1>1. /\ Sorted(w) /\ Sorted(g) /\ Young(w, limit) = Young(g, limit)
      /\ \A i \in Young(w, limit) : w[i] = g[i]
      /\ Young(g, limit) \subseteq 1 .. Limit
  BY DEF Faithful, Same
<1>2. Sorted(Aged(w)) /\ Sorted(Aged(g))
  BY <1>1, AgedProperties
<1>3. /\ Young(Aged(w), limit) = {i \in Young(w, limit) : Older(w[i]) <= limit}
      /\ Young(Aged(g), limit) = {i \in Young(g, limit) : Older(g[i]) <= limit}
      /\ \A i \in Young(w, limit) : Aged(w)[i] = Older(w[i])
      /\ \A i \in Young(g, limit) : Aged(g)[i] = Older(g[i])
  BY <1>1, AgedYoung
<1>4. Young(Aged(w), limit) = Young(Aged(g), limit)
  BY <1>1, <1>3
<1>5. \A i \in Young(Aged(w), limit) : Aged(w)[i] = Aged(g)[i]
  BY <1>1, <1>3
<1>6. Young(Aged(g), limit) \subseteq 1 .. Limit
  BY <1>1, <1>3
<1>7. QED
  BY <1>2, <1>4, <1>5, <1>6 DEF Faithful, Same

\* The history forgets what is older than the window too.
LEMMA HistoryPruned ==
  ASSUME NEW w, NEW g, NEW limit \in Int, NEW upper \in Int, limit <= upper,
         Faithful(w, g, limit)
  PROVE  Faithful(w, PrunedTo(g, upper), limit)
<1>1. Sorted(g) /\ Sorted(w) /\ Same(w, g, limit) /\ Young(g, limit) \subseteq 1 .. Limit
  BY DEF Faithful
<1>2. Sorted(PrunedTo(g, upper))
  BY <1>1, PrunedProperties
<1>3. /\ Young(PrunedTo(g, upper), limit) = Young(g, limit)
      /\ \A i \in Young(g, limit) : PrunedTo(g, upper)[i] = g[i]
  BY <1>1, PrunedYoung
<1>4. QED
  BY <1>1, <1>2, <1>3 DEF Faithful, Same

\* A key that expires had nothing left that counts.
LEMMA ExpiredFaithful ==
  ASSUME NEW w, NEW g, Faithful(w, g, Window - 1)
  PROVE  Faithful(Expire(w), g, Window - 1)
<1>1. Sorted(w) /\ Sorted(g) /\ Same(w, g, Window - 1)
  BY DEF Faithful
<1>2. CASE w # <<>> /\ w[1] >= Window
  <2>1. /\ Len(w) \in Nat /\ \A i \in 1 .. Len(w) : w[i] \in Nat
        /\ \A i, j \in 1 .. Len(w) : i <= j => w[i] <= w[j]
    BY <1>1, SortedTypes
  <2>2. ASSUME NEW i \in 1 .. Len(w) PROVE ~(w[i] <= Window - 1)
    <3>1. 1 \in 1 .. Len(w) /\ 1 <= i
      BY <2>1, <2>2
    <3>2. w[1] <= w[i] /\ w[1] \in Nat /\ w[i] \in Nat
      BY <2>1, <3>1
    <3>3. QED
      BY <1>2, <3>2, Rates
  <2>3. Young(w, Window - 1) = {}
    BY <1>1, <2>2, YoungTypes
  <2>4. Faithful(<<>>, <<>>, Window - 1)
    BY EmptyFaithful
  <2>5. Young(<<>>, Window - 1) = {} /\ Sorted(<<>>)
    BY <2>4 DEF Faithful, Young
  <2>6. Expire(w) = <<>>
    BY <1>2 DEF Expire
  <2>7. QED
    BY <1>1, <2>3, <2>5, <2>6 DEF Faithful, Same
<1>3. CASE ~(w # <<>> /\ w[1] >= Window)
  BY <1>3 DEF Expire
<1>4. QED
  BY <1>2, <1>3

-----------------------------------------------------------------------------
\* The invariant.

Awaits == {"idle", "asking", "probing", "probed", "allowed", "denied"}

\* Redis's window, and the windows of the fallbacks.
SharedWindow == Faithful(zset, granted[Shared], Window - 1)

LocalWindow(p) ==
  /\ Faithful(windows[p], granted[p], Window)
  /\ \A i \in DOMAIN granted[p] : granted[p][i] <= Window
  /\ fail_mode = "closed" => granted[p] = <<>>

Fields ==
  /\ fail_mode \in {"open", "closed"}
  /\ pc \in [Calls -> Awaits]
  /\ windows \in [Pods -> Seq(Nat)]
  /\ granted \in [Sources -> Seq(Nat)]

ThrottleInv == Fields /\ SharedWindow /\ \A p \in Pods : LocalWindow(p)

LEMMA Places ==
  /\ Shared \in Sources /\ Shared \notin Pods
  /\ \A p \in Pods : p \in Sources /\ p # Shared
  /\ \A c \in Calls : PodOf[c] \in Pods
BY PodAssumption DEF Sources

LEMMA InitThrottleInv == Init => ThrottleInv
<1> SUFFICES ASSUME Init PROVE ThrottleInv
  OBVIOUS
<1>1. Fields
  BY DEF Init, Fields, Awaits
<1>2. /\ zset = <<>> /\ \A p \in Pods : windows[p] = <<>>
      /\ \A s \in Sources : granted[s] = <<>>
  BY DEF Init
<1>3. SharedWindow
  BY <1>2, Places, EmptyFaithful DEF SharedWindow
<1>4. ASSUME NEW p \in Pods PROVE LocalWindow(p)
  <2>1. windows[p] = <<>> /\ granted[p] = <<>>
    BY <1>2, Places
  <2>2. Faithful(windows[p], granted[p], Window)
    BY <2>1, EmptyFaithful
  <2>3. QED
    BY <2>1, <2>2 DEF LocalWindow
<1>5. QED
  BY <1>1, <1>3, <1>4 DEF ThrottleInv

\* What a check() does to a window and its history.
LEMMA PruneNames ==
  ASSUME NEW w
  PROVE  PruneShared(w) = PrunedTo(w, Window - 1) /\ PruneLocal(w) = PrunedTo(w, Window)
BY DEF PruneShared, PruneLocal, PrunedTo

LEMMA CheckFaithful ==
  ASSUME NEW w, NEW g, NEW limit \in Nat, Faithful(w, g, limit)
  PROVE  LET kept == PrunedTo(w, limit)
         IN /\ Faithful(kept, g, limit) /\ kept \in Seq(Nat)
            /\ Free(kept) => Faithful(Admitted(kept), Admitted(g), limit)
            /\ ~Free(kept) => Cardinality(Young(g, limit)) = Limit
<1> DEFINE kept == PrunedTo(w, limit)
<1>1. Sorted(w) /\ Sorted(g) /\ Young(w, limit) = Young(g, limit)
      /\ Young(g, limit) \subseteq 1 .. Limit
  BY DEF Faithful, Same
<1>2. Faithful(kept, g, limit)
  BY PrunedFaithful
<1>3. /\ Sorted(kept) /\ Len(kept) = Kept(w, limit)
      /\ Young(w, limit) = 1 .. Kept(w, limit) /\ Kept(w, limit) \in 0 .. Len(w)
      /\ Cardinality(Young(w, limit)) = Kept(w, limit)
      /\ Young(kept, limit) = Young(w, limit)
  BY <1>1, PrunedProperties, KeptCounts, PrunedYoung
<1>4. kept \in Seq(Nat) /\ Len(kept) \in Nat
  BY <1>3, SortedTypes
<1> HIDE DEF kept
<1>5. ASSUME Free(kept) PROVE Faithful(Admitted(kept), Admitted(g), limit)
  <2>1. Len(kept) < Limit /\ Young(kept, limit) = 1 .. Len(kept)
    BY <1>3, <1>5 DEF Free
  <2>2. QED
    BY <1>2, <2>1, AdmittedFaithful
<1>6. ASSUME ~Free(kept) PROVE Cardinality(Young(g, limit)) = Limit
  <2>1. Len(kept) >= Limit
    BY <1>4, <1>6, Rates DEF Free
  <2>2. Len(kept) <= Limit
    <3>1. 1 .. Len(kept) \subseteq 1 .. Limit
      BY <1>1, <1>3
    <3>2. QED
      BY <1>4, <3>1, Rates
  <2>3. Len(kept) = Limit
    BY <1>4, <2>1, <2>2, Rates
  <2>4. QED
    BY <1>1, <1>3, <2>3
<1>7. QED
  BY <1>2, <1>4, <1>5, <1>6 DEF kept

\* Only the window of one source moves.
LEMMA OtherWindows ==
  ASSUME ThrottleInv, NEW p \in Pods, fail_mode' = fail_mode,
         windows'[p] = windows[p], granted'[p] = granted[p]
  PROVE  LocalWindow(p)'
BY DEF ThrottleInv, LocalWindow

LEMMA LocalCheckKeeps ==
  ASSUME ThrottleInv, NEW p \in Pods, LocalCheck(p), fail_mode = "open",
         UNCHANGED <<fail_mode, zset>>
  PROVE  /\ SharedWindow' /\ \A q \in Pods : LocalWindow(q)'
         /\ windows' \in [Pods -> Seq(Nat)] /\ granted' \in [Sources -> Seq(Nat)]
<1> DEFINE kept == PrunedTo(windows[p], Window)
<1>1. /\ Faithful(kept, granted[p], Window) /\ kept \in Seq(Nat)
      /\ Free(kept) => Faithful(Admitted(kept), Admitted(granted[p]), Window)
  BY CheckFaithful, Rates DEF ThrottleInv, LocalWindow
<1>2. /\ windows' = [windows EXCEPT ![p] = IF Free(kept) THEN Admitted(kept) ELSE kept]
      /\ granted' = IF Free(kept) THEN [granted EXCEPT ![p] = Admitted(granted[p])] ELSE granted
  BY PruneNames DEF LocalCheck, Record
<1>3. /\ windows \in [Pods -> Seq(Nat)] /\ granted \in [Sources -> Seq(Nat)]
      /\ Faithful(windows[p], granted[p], Window)
      /\ \A i \in DOMAIN granted[p] : granted[p][i] <= Window
  BY DEF ThrottleInv, Fields, LocalWindow
<1> HIDE DEF kept
<1>4. Sorted(kept) /\ Sorted(granted[p])
  BY <1>1 DEF Faithful
<1>5. Admitted(kept) \in Seq(Nat) /\ Admitted(granted[p]) \in Seq(Nat)
  BY <1>4, AdmittedProperties, SortedTypes
<1>6. windows' \in [Pods -> Seq(Nat)] /\ granted' \in [Sources -> Seq(Nat)]
  BY <1>1, <1>2, <1>3, <1>5
<1>7. granted'[Shared] = granted[Shared]
  BY <1>2, <1>3, Places
<1>8. SharedWindow'
  BY <1>7 DEF ThrottleInv, SharedWindow
<1>9. LocalWindow(p)'
  <2>1. CASE Free(kept)
    <3>1. windows'[p] = Admitted(kept) /\ granted'[p] = Admitted(granted[p])
      BY <1>2, <1>3, <2>1, Places
    <3>2. /\ Len(granted[p]) \in Nat /\ DOMAIN granted[p] = 1 .. Len(granted[p])
          /\ DOMAIN Admitted(granted[p]) = 1 .. Len(granted[p]) + 1
          /\ Admitted(granted[p])[1] = 0
          /\ \A i \in 1 .. Len(granted[p]) + 1 :
               i > 1 => Admitted(granted[p])[i] = granted[p][i - 1]
      BY <1>4, AdmittedProperties, SortedTypes
    <3>3. ASSUME NEW i \in DOMAIN Admitted(granted[p])
          PROVE  Admitted(granted[p])[i] <= Window
      <4>1. CASE i = 1
        BY <3>2, <4>1, Rates
      <4>2. CASE i # 1
        <5>1. i \in 1 .. Len(granted[p]) + 1 /\ i > 1 /\ i - 1 \in DOMAIN granted[p]
          BY <3>2, <3>3, <4>2
        <5>2. QED
          BY <1>3, <3>2, <5>1
      <4>3. QED
        BY <4>1, <4>2
    <3>4. QED
      BY <1>1, <2>1, <3>1, <3>3 DEF LocalWindow
  <2>2. CASE ~Free(kept)
    <3>1. windows'[p] = kept /\ granted'[p] = granted[p]
      BY <1>2, <1>3, <2>2
    <3>2. QED
      BY <1>1, <1>3, <3>1 DEF LocalWindow
  <2>3. QED
    BY <2>1, <2>2
<1>10. ASSUME NEW q \in Pods, q # p PROVE LocalWindow(q)'
  <2>1. windows'[q] = windows[q] /\ granted'[q] = granted[q]
    BY <1>2, <1>3, <1>10, Places
  <2>2. QED
    BY <2>1, OtherWindows
<1>11. QED
  BY <1>6, <1>8, <1>9, <1>10

\* Every step moves at most one call.
LEMMA CallMoves ==
  ASSUME ThrottleInv, NEW c \in Calls, CallNext(c)
  PROVE  \/ pc' = pc
         \/ \E s \in Awaits : pc' = [pc EXCEPT ![c] = s]
BY DEF CallNext, Ask, AskDegraded, ProbeAnswered, ProbeFails, ProbeRecovers, Evaluate,
   Deliver, Lose, Awaits

LEMMA CallTypes ==
  ASSUME ThrottleInv, NEW c \in Calls, CallNext(c)
  PROVE  pc' \in [Calls -> Awaits] /\ fail_mode' = fail_mode
<1>1. fail_mode' = fail_mode
  BY DEF CallNext, Ask, AskDegraded, ProbeAnswered, ProbeFails, ProbeRecovers, Evaluate,
     Deliver, Lose
<1>2. pc \in [Calls -> Awaits]
  BY DEF ThrottleInv, Fields
<1>3. QED
  BY <1>1, <1>2, CallMoves

\* Steps that leave the windows alone.
LEMMA QuietKeeps ==
  ASSUME ThrottleInv, UNCHANGED <<fail_mode, zset, windows, granted>>,
         pc' \in [Calls -> Awaits]
  PROVE  ThrottleInv'
BY DEF ThrottleInv, Fields, SharedWindow, LocalWindow

\* A decision without Redis.
LEMMA DegradedKeeps ==
  ASSUME ThrottleInv, NEW p \in Pods, DegradedDecision(p),
         UNCHANGED <<fail_mode, zset>>, pc' \in [Calls -> Awaits]
  PROVE  ThrottleInv'
<1>1. CASE UNCHANGED <<windows, granted>>
  BY <1>1, QuietKeeps
<1>2. CASE fail_mode = "open" /\ LocalCheck(p)
  BY <1>2, LocalCheckKeeps DEF ThrottleInv, Fields
<1>3. QED
  BY <1>1, <1>2 DEF DegradedDecision

\* The script in Redis.
LEMMA EvaluateKeeps ==
  ASSUME ThrottleInv, NEW c \in Calls, Evaluate(c), pc' \in [Calls -> Awaits]
  PROVE  ThrottleInv'
<1> DEFINE kept == PrunedTo(zset, Window - 1)
<1>1. /\ Faithful(kept, granted[Shared], Window - 1)
      /\ Free(kept) => Faithful(Admitted(kept), Admitted(granted[Shared]), Window - 1)
  BY CheckFaithful, Rates DEF ThrottleInv, SharedWindow
<1>2. /\ zset' = IF Free(kept) THEN Admitted(kept) ELSE kept
      /\ granted' = IF Free(kept) THEN [granted EXCEPT ![Shared] = Admitted(granted[Shared])]
                    ELSE granted
      /\ UNCHANGED <<fail_mode, windows>>
  BY PruneNames DEF Evaluate, Record
<1>3. Fields /\ granted \in [Sources -> Seq(Nat)]
  BY DEF ThrottleInv, Fields
<1> HIDE DEF kept
<1>4. Admitted(granted[Shared]) \in Seq(Nat)
  <2>1. Sorted(granted[Shared])
    BY <1>1 DEF Faithful
  <2>2. QED
    BY <2>1, AdmittedProperties, SortedTypes
<1>5. Fields'
  BY <1>2, <1>3, <1>4 DEF Fields
<1>6. SharedWindow'
  <2>1. CASE Free(kept)
    <3>1. granted'[Shared] = Admitted(granted[Shared]) /\ zset' = Admitted(kept)
      BY <1>2, <1>3, <2>1, Places
    <3>2. QED
      BY <1>1, <2>1, <3>1 DEF SharedWindow
  <2>2. CASE ~Free(kept)
    BY <1>1, <1>2, <2>2 DEF SharedWindow
  <2>3. QED
    BY <2>1, <2>2
<1>7. ASSUME NEW p \in Pods PROVE LocalWindow(p)'
  <2>1. windows'[p] = windows[p] /\ granted'[p] = granted[p]
    BY <1>2, <1>3, Places
  <2>2. QED
    BY <1>2, <2>1, OtherWindows
<1>8. QED
  BY <1>5, <1>6, <1>7 DEF ThrottleInv

LEMMA ResetKeeps ==
  ASSUME ThrottleInv, NEW p \in Pods, Reset(p)
  PROVE  ThrottleInv'
<1>1. /\ UNCHANGED <<fail_mode, pc>>
      /\ windows' = [windows EXCEPT ![p] = <<>>]
      /\ \/ zset' = <<>> /\ granted' = [granted EXCEPT ![Shared] = <<>>, ![p] = <<>>]
         \/ zset' = zset /\ granted' = [granted EXCEPT ![p] = <<>>]
  BY DEF Reset
<1>2. Fields /\ granted \in [Sources -> Seq(Nat)] /\ windows \in [Pods -> Seq(Nat)]
  BY DEF ThrottleInv, Fields
<1>3. <<>> \in Seq(Nat)
  OBVIOUS
<1>4. Fields'
  BY <1>1, <1>2, <1>3 DEF Fields
<1>5. SharedWindow'
  <2>1. CASE zset' = <<>> /\ granted' = [granted EXCEPT ![Shared] = <<>>, ![p] = <<>>]
    <3>1. granted'[Shared] = <<>>
      BY <1>2, <2>1, Places
    <3>2. QED
      BY <2>1, <3>1, EmptyFaithful DEF SharedWindow
  <2>2. CASE zset' = zset /\ granted' = [granted EXCEPT ![p] = <<>>]
    <3>1. granted'[Shared] = granted[Shared]
      BY <1>2, <2>2, Places
    <3>2. QED
      BY <2>2, <3>1 DEF ThrottleInv, SharedWindow
  <2>3. QED
    BY <1>1, <2>1, <2>2
<1>6. ASSUME NEW q \in Pods PROVE LocalWindow(q)'
  <2>1. CASE q = p
    <3>1. windows'[q] = <<>> /\ granted'[q] = <<>>
      BY <1>1, <1>2, <2>1, Places
    <3>2. Faithful(windows'[q], granted'[q], Window)
      BY <3>1, EmptyFaithful
    <3>3. QED
      BY <3>1, <3>2 DEF LocalWindow
  <2>2. CASE q # p
    <3>1. windows'[q] = windows[q] /\ granted'[q] = granted[q]
      BY <1>1, <1>2, <2>2, Places
    <3>2. QED
      BY <1>1, <3>1, OtherWindows
  <2>3. QED
    BY <2>1, <2>2
<1>7. QED
  BY <1>4, <1>5, <1>6 DEF ThrottleInv

\* A second passes: what counted may stop to count, never the reverse.
LEMMA TickKeeps ==
  ASSUME ThrottleInv, Tick
  PROVE  ThrottleInv'
<1>1. /\ zset' = Expire(Aged(zset)) /\ UNCHANGED <<fail_mode, pc>>
      /\ windows' = [p \in Pods |-> Aged(windows[p])]
      /\ granted' = [s \in Sources |-> PrunedTo(Aged(granted[s]), Window)]
  BY PruneNames DEF Tick
<1>2. SharedWindow'
  <2>1. Faithful(Aged(zset), Aged(granted[Shared]), Window - 1)
    BY Rates, AgedFaithful DEF ThrottleInv, SharedWindow
  <2>2. Faithful(Aged(zset), PrunedTo(Aged(granted[Shared]), Window), Window - 1)
    BY <2>1, HistoryPruned, Rates
  <2>3. Faithful(Expire(Aged(zset)), PrunedTo(Aged(granted[Shared]), Window), Window - 1)
    BY <2>2, ExpiredFaithful
  <2>4. granted'[Shared] = PrunedTo(Aged(granted[Shared]), Window)
    BY <1>1, Places
  <2>5. QED
    BY <1>1, <2>3, <2>4 DEF SharedWindow
<1>3. ASSUME NEW p \in Pods PROVE LocalWindow(p)'
  <2>1. /\ windows'[p] = Aged(windows[p])
        /\ granted'[p] = PrunedTo(Aged(granted[p]), Window)
    BY <1>1, Places
  <2>2. Faithful(Aged(windows[p]), Aged(granted[p]), Window)
    BY Rates, AgedFaithful DEF ThrottleInv, LocalWindow
  <2>3. Faithful(Aged(windows[p]), PrunedTo(Aged(granted[p]), Window), Window)
    BY <2>2, HistoryPruned, Rates
  <2>4. Sorted(Aged(granted[p]))
    BY <2>2 DEF Faithful
  <2>5. /\ Sorted(PrunedTo(Aged(granted[p]), Window))
        /\ Len(PrunedTo(Aged(granted[p]), Window)) = Kept(Aged(granted[p]), Window)
        /\ \A i \in 1 .. Kept(Aged(granted[p]), Window) :
             /\ PrunedTo(Aged(granted[p]), Window)[i] = Aged(granted[p])[i]
             /\ Aged(granted[p])[i] <= Window
    BY <2>4, PrunedProperties, Rates
  <2>6. \A i \in DOMAIN granted'[p] : granted'[p][i] <= Window
    <3>1. DOMAIN granted'[p] = 1 .. Kept(Aged(granted[p]), Window)
      BY <2>1, <2>5, SortedTypes
    <3>2. QED
      BY <2>1, <2>5, <3>1
  <2>7. fail_mode = "closed" => granted'[p] = <<>>
    <3>1. SUFFICES ASSUME fail_mode = "closed" PROVE granted'[p] = <<>>
      OBVIOUS
    <3>2. granted[p] = <<>> /\ Sorted(granted[p])
      BY <3>1 DEF ThrottleInv, LocalWindow, Faithful
    <3>3. Len(granted[p]) = 0 /\ Len(Aged(granted[p])) = 0
      BY <3>2, AgedProperties
    <3>4. Kept(Aged(granted[p]), Window) = 0
      BY <2>4, <3>3, KeptCounts, Rates
    <3>5. Len(granted'[p]) = 0 /\ granted'[p] \in Seq(Nat)
      BY <2>1, <2>5, <3>4, SortedTypes
    <3>6. QED
      BY <3>5, EmptySeq
  <2>8. QED
    BY <1>1, <2>1, <2>3, <2>6, <2>7 DEF LocalWindow
<1>4. Fields'
  <2>1. \A p \in Pods : windows'[p] \in Seq(Nat)
    BY <1>3 DEF LocalWindow, Faithful, Sorted
  <2>2. \A s \in Sources : granted'[s] \in Seq(Nat)
    BY <1>2, <1>3 DEF LocalWindow, SharedWindow, Faithful, Sorted, Sources
  <2>3. windows' \in [Pods -> Seq(Nat)] /\ granted' \in [Sources -> Seq(Nat)]
    BY <1>1, <2>1, <2>2
  <2>4. QED
    BY <1>1, <2>3 DEF ThrottleInv, Fields
<1>5. QED
  BY <1>2, <1>3, <1>4 DEF ThrottleInv

LEMMA NextThrottleInv == ThrottleInv /\ [Next]_vars => ThrottleInv'
<1> SUFFICES ASSUME ThrottleInv, [Next]_vars PROVE ThrottleInv'
  OBVIOUS
<1>0. pc \in [Calls -> Awaits]
  BY DEF ThrottleInv, Fields
<1>1. ASSUME NEW c \in Calls, CallNext(c) PROVE ThrottleInv'
  <2>1. pc' \in [Calls -> Awaits] /\ fail_mode' = fail_mode /\ PodOf[c] \in Pods
    BY <1>1, CallTypes, Places
  <2>2. CASE Ask(c) \/ ProbeAnswered(c) \/ ProbeRecovers(c) \/ Deliver(c)
    BY <2>1, <2>2, QuietKeeps DEF Ask, ProbeAnswered, ProbeRecovers, Deliver
  <2>3. CASE AskDegraded(c)
    <3>1. zset' = zset /\ (UNCHANGED <<windows, granted>> \/ DegradedDecision(PodOf[c]))
      BY <2>3 DEF AskDegraded
    <3>2. QED
      BY <2>1, <3>1, QuietKeeps, DegradedKeeps
  <2>4. CASE ProbeFails(c) \/ Lose(c)
    <3>1. zset' = zset /\ DegradedDecision(PodOf[c])
      BY <2>4 DEF ProbeFails, Lose
    <3>2. QED
      BY <2>1, <3>1, DegradedKeeps
  <2>5. CASE Evaluate(c)
    BY <2>1, <2>5, EvaluateKeeps
  <2>6. QED
    BY <1>1, <2>2, <2>3, <2>4, <2>5 DEF CallNext
<1>2. ASSUME NEW p \in Pods, HealthCheck(p) \/ Ping(p) \/ Recover(p) \/ Outage(p)
      PROVE  ThrottleInv'
  <2>1. UNCHANGED <<fail_mode, zset, windows, granted, pc>>
    BY <1>2 DEF HealthCheck, Ping, Recover, Outage
  <2>2. QED
    BY <1>0, <2>1, QuietKeeps
<1>3. CASE UNCHANGED vars
  BY <1>0, <1>3, QuietKeeps DEF vars
<1>4. QED
  BY <1>1, <1>2, <1>3, ResetKeeps, TickKeeps DEF Next, PodNext

LEMMA Invariance == Spec => []ThrottleInv
BY InitThrottleInv, NextThrottleInv, PTL DEF Spec

-----------------------------------------------------------------------------
\* The limit.

LEMMA WithinIs ==
  ASSUME NEW g, Sorted(g)
  PROVE  /\ {i \in DOMAIN g : g[i] < Window} = Young(g, Window - 1)
         /\ Young(g, Window - 1) \subseteq Young(g, Window)
<1>1. /\ DOMAIN g = 1 .. Len(g) /\ \A i \in 1 .. Len(g) : g[i] \in Nat
  BY SortedTypes
<1>2. QED
  BY <1>1, Rates DEF Young

LEMMA PlacesBound ==
  ASSUME NEW S \in SUBSET (1 .. Limit)
  PROVE  Cardinality(S) <= Limit
<1>1. IsFiniteSet(1 .. Limit) /\ Cardinality(1 .. Limit) = Limit
  BY Rates, FS_Interval
<1>2. QED
  BY <1>1, FS_Subset

LEMMA InvLimit == ThrottleInv => LimitHolds
<1> SUFFICES ASSUME ThrottleInv PROVE LimitHolds
  OBVIOUS
<1>1. Within(granted[Shared]) <= Limit
  <2>1. /\ Sorted(granted[Shared])
        /\ Young(granted[Shared], Window - 1) \subseteq 1 .. Limit
    BY DEF ThrottleInv, SharedWindow, Faithful
  <2>2. QED
    BY <2>1, WithinIs, PlacesBound DEF Within
<1>2. ASSUME NEW p \in Pods
      PROVE  Within(granted[p]) <= IF fail_mode = "open" THEN Limit ELSE 0
  <2>1. /\ Sorted(granted[p]) /\ Young(granted[p], Window) \subseteq 1 .. Limit
        /\ fail_mode \in {"open", "closed"}
        /\ fail_mode = "closed" => granted[p] = <<>>
    BY DEF ThrottleInv, LocalWindow, Faithful, Fields
  <2>2. Within(granted[p]) <= Limit
    BY <2>1, WithinIs, PlacesBound DEF Within
  <2>3. granted[p] = <<>> => Within(granted[p]) = 0
    <3>1. ASSUME granted[p] = <<>> PROVE {i \in DOMAIN granted[p] : granted[p][i] < Window} = {}
      BY <3>1
    <3>2. QED
      BY <3>1, FS_EmptySet DEF Within
  <2>4. QED
    BY <2>1, <2>2, <2>3
<1>3. QED
  BY <1>1, <1>2 DEF LimitHolds

\* The limit a caller configures: the sorted set in Redis never admits more
\* than Limit events in a span of Window seconds, whatever the pods lose,
\* retry or recover; a fallback admits as many for its pod when fail_mode is
\* open and none when it is closed.
THEOREM AdmitsWithinLimit == Spec => []LimitHolds
BY Invariance, InvLimit, PTL

-----------------------------------------------------------------------------
\* Retry-After.

Postponed(w, n) == [i \in DOMAIN w |-> w[i] + n]

LEMMA PostponedProperties ==
  ASSUME NEW w, Sorted(w), NEW n \in Nat
  PROVE  /\ Sorted(Postponed(w, n)) /\ Len(Postponed(w, n)) = Len(w)
         /\ \A i \in 1 .. Len(w) : Postponed(w, n)[i] = w[i] + n
<1> DEFINE v == Postponed(w, n)
<1>1. /\ Len(w) \in Nat /\ DOMAIN w = 1 .. Len(w)
      /\ \A i \in 1 .. Len(w) : w[i] \in Nat
      /\ \A i, j \in 1 .. Len(w) : i <= j => w[i] <= w[j]
  BY SortedTypes
<1>2. v = [i \in 1 .. Len(w) |-> w[i] + n]
  BY <1>1 DEF Postponed
<1> HIDE DEF v
<1>3. \A i \in 1 .. Len(w) : v[i] = w[i] + n /\ v[i] \in Nat
  BY <1>1, <1>2
<1>4. v \in [1 .. Len(w) -> Nat]
  BY <1>2, <1>3
<1>5. v \in Seq(Nat) /\ Len(v) = Len(w) /\ DOMAIN v = 1 .. Len(w)
  BY <1>1, <1>4
<1>6. \A i, j \in 1 .. Len(w) : i <= j => v[i] <= v[j]
  BY <1>1, <1>3
<1>7. QED
  BY <1>3, <1>5, <1>6 DEF Sorted, v

\* The same about pruning, in one.
LEMMA Pruning ==
  ASSUME NEW w, Sorted(w), NEW limit \in Int
  PROVE  /\ Sorted(PrunedTo(w, limit))
         /\ Len(PrunedTo(w, limit)) = Kept(w, limit)
         /\ \A i \in 1 .. Kept(w, limit) :
              PrunedTo(w, limit)[i] = w[i] /\ w[i] <= limit
         /\ Kept(w, limit) \in Nat /\ Kept(w, limit) \in 0 .. Len(w)
         /\ Young(w, limit) = 1 .. Kept(w, limit)
         /\ Len(w) \in Nat
         /\ \A i \in 1 .. Len(w) : w[i] \in Nat
<1>1. Kept(w, limit) \in 0 .. Len(w) /\ Young(w, limit) = 1 .. Kept(w, limit)
  BY KeptCounts
<1>2. Len(w) \in Nat /\ \A i \in 1 .. Len(w) : w[i] \in Nat
  BY SortedTypes
<1>3. Kept(w, limit) \in Nat
  BY <1>1, <1>2
<1>4. QED
  BY <1>1, <1>2, <1>3, PrunedProperties

LEMMA Limits == Window \in Int /\ Window - 1 \in Int
BY Rates

\* A position that has become too old ends the window before it.
LEMMA KeptBefore ==
  ASSUME NEW w, Sorted(w), NEW limit \in Int, NEW i \in 1 .. Len(w), w[i] > limit
  PROVE  Kept(w, limit) < i
<1>1. /\ Kept(w, limit) \in 0 .. Len(w) /\ Young(w, limit) = 1 .. Kept(w, limit)
      /\ Len(w) \in Nat /\ w[i] \in Nat
  BY KeptCounts, SortedTypes
<1>2. i \notin Young(w, limit)
  BY <1>1 DEF Young
<1>3. QED
  BY <1>1, <1>2

\* Redis tells when the key would expire, and then nothing is left of it.
LEMMA SharedRetry ==
  ASSUME NEW w, Sorted(w), ~Free(PruneShared(w))
  PROVE  Free(PruneShared(Postponed(w, SharedResetAfter(PruneShared(w)))))
<1> DEFINE kept == PrunedTo(w, Window - 1)
           k == Kept(w, Window - 1)
           n == Window - w[1]
           v == Postponed(w, n)
<1>1. /\ Sorted(kept) /\ Len(kept) = k /\ k \in 0 .. Len(w)
      /\ \A i \in 1 .. k : kept[i] = w[i] /\ w[i] <= Window - 1
      /\ Len(w) \in Nat /\ \A i \in 1 .. Len(w) : w[i] \in Nat
  BY Limits, Pruning
<1>2. PruneShared(w) = kept
  BY PruneNames
<1> HIDE DEF kept, k
<1>3. k >= Limit
  BY <1>1, <1>2, Rates DEF Free
<1>4. 1 \in 1 .. k /\ 1 \in 1 .. Len(w)
  BY <1>1, <1>3, Rates
<1>5. w[1] \in Nat /\ w[1] <= Window - 1 /\ kept[1] = w[1]
  BY <1>1, <1>4
<1>6. n \in Nat /\ SharedResetAfter(kept) = n
  BY <1>5, Rates DEF SharedResetAfter
<1>7. Sorted(v) /\ Len(v) = Len(w) /\ v[1] = w[1] + n
  <2> HIDE DEF n
  <2>1. QED
    BY <1>4, <1>6, PostponedProperties
<1>8. v[1] > Window - 1
  BY <1>5, <1>7, Rates
<1> HIDE DEF v, n
<1>9. Kept(v, Window - 1) < 1
  BY <1>4, <1>7, <1>8, Rates, KeptBefore
<1>10. Len(PrunedTo(v, Window - 1)) = Kept(v, Window - 1) /\ Kept(v, Window - 1) \in Nat
  BY <1>7, Limits, Pruning
<1>11. Free(PrunedTo(v, Window - 1))
  BY <1>9, <1>10, Rates DEF Free
<1>12. PruneShared(v) = PrunedTo(v, Window - 1)
  BY PruneNames
<1>13. QED
  BY <1>2, <1>6, <1>11, <1>12 DEF v

\* A fallback tells when its oldest admission expires.
LEMMA LocalRetry ==
  ASSUME NEW w, Sorted(w), \A i \in 1 .. Len(w) : w[i] <= Window,
         ~Free(w), Len(w) <= Limit
  PROVE  Free(PruneLocal(Postponed(w, LocalResetAfter(w) + 1)))
<1> DEFINE n == LocalResetAfter(w) + 1
           v == Postponed(w, n)
<1>1. Len(w) \in Nat /\ \A i \in 1 .. Len(w) : w[i] \in Nat
  BY SortedTypes
<1>2. Len(w) = Limit /\ Len(w) \in 1 .. Len(w)
  BY <1>1, Rates DEF Free
<1>3. w[Len(w)] \in Nat /\ w[Len(w)] <= Window
  BY <1>1, <1>2
<1>4. n \in Nat /\ w[Len(w)] + n = Window + 1
  BY <1>3, Rates DEF LocalResetAfter
<1> HIDE DEF n
<1>5. Sorted(v) /\ Len(v) = Len(w) /\ v[Len(w)] = w[Len(w)] + n
  BY <1>2, <1>4, PostponedProperties
<1>6. v[Len(w)] > Window
  BY <1>4, <1>5, Rates
<1> HIDE DEF v
<1>7. Kept(v, Window) < Len(w)
  BY <1>2, <1>5, <1>6, Rates, KeptBefore
<1>8. Len(PrunedTo(v, Window)) = Kept(v, Window) /\ Kept(v, Window) \in Nat
  BY <1>5, Limits, Pruning
<1>9. Free(PrunedTo(v, Window))
  BY <1>2, <1>7, <1>8, Rates DEF Free
<1>10. QED
  BY <1>9, PruneNames DEF v, n

LEMMA InvRetry == ThrottleInv => RetryAfterSuffices
<1> SUFFICES ASSUME ThrottleInv PROVE RetryAfterSuffices
  OBVIOUS
<1>1. ~Free(PruneShared(zset)) =>
        Free(PruneShared(Postponed(zset, SharedResetAfter(PruneShared(zset)))))
  BY SharedRetry DEF ThrottleInv, SharedWindow, Faithful
<1>2. ASSUME NEW p \in Pods, ~Free(PruneLocal(windows[p]))
      PROVE  Free(PruneLocal(Postponed(PruneLocal(windows[p]),
                                       LocalResetAfter(PruneLocal(windows[p])) + 1)))
  <2> DEFINE w == PrunedTo(windows[p], Window)
             k == Kept(windows[p], Window)
  <2>1. PruneLocal(windows[p]) = w
    BY PruneNames
  <2>2. /\ Sorted(windows[p]) /\ Young(windows[p], Window) \subseteq 1 .. Limit
    BY DEF ThrottleInv, LocalWindow, Faithful, Same
  <2>3. /\ Sorted(w) /\ Len(w) = k /\ k \in Nat
        /\ \A i \in 1 .. k : w[i] = windows[p][i] /\ windows[p][i] <= Window
        /\ Young(windows[p], Window) = 1 .. k
    BY <2>2, Limits, Pruning
  <2> HIDE DEF w, k
  <2>4. Len(w) <= Limit
    <3>1. 1 .. k \subseteq 1 .. Limit
      BY <2>2, <2>3
    <3>2. QED
      BY <2>3, <3>1, Rates
  <2>5. \A i \in 1 .. Len(w) : w[i] <= Window
    BY <2>3
  <2>6. Free(PruneLocal(Postponed(w, LocalResetAfter(w) + 1)))
    BY <1>2, <2>1, <2>3, <2>4, <2>5, LocalRetry
  <2>7. QED
    BY <2>1, <2>6
<1>3. QED
  BY <1>1, <1>2 DEF RetryAfterSuffices, Postponed

\* What a denial tells the caller (reset_after, the Retry-After header) is
\* enough: Redis reports the TTL of the key, the fallback the time until its
\* oldest admission expires, and after it a slot is free if nobody else came.
THEOREM WaitIsEnough == Spec => []RetryAfterSuffices
BY Invariance, InvRetry, PTL

-----------------------------------------------------------------------------
\* Denials.

\* Only the script denies a call that has asked Redis.
LEMMA DeniedByScript ==
  ASSUME ThrottleInv, [Next]_vars, NEW c \in Calls, pc[c] = "asking", pc'[c] = "denied"
  PROVE  Evaluate(c) /\ ~Free(PruneShared(zset))
<1>0. pc \in [Calls -> Awaits]
  BY DEF ThrottleInv, Fields
<1>1. ~UNCHANGED pc
  OBVIOUS
<1>2. PICK d \in Calls : CallNext(d)
  BY <1>1 DEF Next, PodNext, Reset, HealthCheck, Ping, Recover, Outage, Tick, vars
<1>3. d = c
  BY <1>0, <1>2, CallMoves
<1>4. Evaluate(c)
  <2>1. ~Ask(c) /\ ~AskDegraded(c) /\ ~ProbeAnswered(c) /\ ~ProbeFails(c) /\ ~ProbeRecovers(c)
    BY DEF Ask, AskDegraded, ProbeAnswered, ProbeFails, ProbeRecovers
  <2>2. ~Deliver(c) /\ ~Lose(c)
    BY <1>0 DEF Deliver, Lose
  <2>3. QED
    BY <1>2, <1>3, <2>1, <2>2 DEF CallNext
<1>5. ~Free(PruneShared(zset))
  BY <1>0, <1>4 DEF Evaluate
<1>6. QED
  BY <1>4, <1>5

LEMMA SharedDenial ==
  ASSUME ThrottleInv, ~Free(PruneShared(zset))
  PROVE  Within(granted[Shared]) = Limit
<1>1. Faithful(zset, granted[Shared], Window - 1) /\ Sorted(granted[Shared])
  BY DEF ThrottleInv, SharedWindow, Faithful
<1>2. Cardinality(Young(granted[Shared], Window - 1)) = Limit
  BY <1>1, CheckFaithful, PruneNames, Rates
<1>3. QED
  BY <1>1, <1>2, WithinIs DEF Within

\* A fallback that records nothing was full.
LEMMA LocalDenial ==
  ASSUME ThrottleInv, NEW p \in Pods, LocalCheck(p), granted' = granted
  PROVE  Len(granted[p]) = Limit
<1>1. /\ Faithful(windows[p], granted[p], Window) /\ Sorted(granted[p])
      /\ \A i \in DOMAIN granted[p] : granted[p][i] <= Window
      /\ granted \in [Sources -> Seq(Nat)]
  BY DEF ThrottleInv, LocalWindow, Faithful, Fields
<1>2. Len(granted[p]) \in Nat /\ DOMAIN granted[p] = 1 .. Len(granted[p])
  BY <1>1, SortedTypes
<1>3. ~Free(PruneLocal(windows[p]))
  <2>1. SUFFICES ASSUME Free(PruneLocal(windows[p])) PROVE FALSE
    OBVIOUS
  <2>2. granted' = [granted EXCEPT ![p] = Admitted(granted[p])]
    BY <2>1 DEF LocalCheck, Record
  <2>3. granted[p] = Admitted(granted[p])
    BY <1>1, <2>2, Places
  <2>4. Len(granted[p]) = Len(granted[p]) + 1
    BY <1>1, <2>3, AdmittedProperties
  <2>5. QED
    BY <1>2, <2>4
<1>4. Cardinality(Young(granted[p], Window)) = Limit
  BY <1>1, <1>3, CheckFaithful, PruneNames, Rates
<1>5. Young(granted[p], Window) = 1 .. Len(granted[p])
  BY <1>1, <1>2 DEF Young
<1>6. Cardinality(1 .. Len(granted[p])) = Len(granted[p])
  <2>1. ASSUME NEW n \in Nat PROVE Cardinality(1 .. n) = n
    BY FS_Interval
  <2>2. QED
    BY <1>2, <2>1
<1>7. QED
  BY <1>4, <1>5, <1>6

LEMMA NextDenial ==
  ASSUME ThrottleInv, [Next]_vars, NEW c \in Calls
  PROVE  /\ pc[c] = "asking" /\ pc'[c] = "denied" => Within(granted[Shared]) = Limit
         /\ fail_mode = "open" /\ AskDegraded(c) /\ ~ProbeDue(PodOf[c]) /\ granted' = granted
              => Len(granted[PodOf[c]]) = Limit
<1>1. ASSUME pc[c] = "asking", pc'[c] = "denied" PROVE Within(granted[Shared]) = Limit
  BY <1>1, DeniedByScript, SharedDenial
<1>2. ASSUME fail_mode = "open", AskDegraded(c), ~ProbeDue(PodOf[c]), granted' = granted
      PROVE  Len(granted[PodOf[c]]) = Limit
  <2>1. LocalCheck(PodOf[c])
    BY <1>2 DEF AskDegraded, DegradedDecision
  <2>2. QED
    BY <1>2, <2>1, Places, LocalDenial
<1>3. QED
  BY <1>1, <1>2

\* Nobody is denied without need: when the script in Redis denies, Limit
\* admissions of Redis are younger than the window, and when the fallback
\* does, Limit admissions of that pod are.
THEOREM DeniesWhenFull == Spec => DeniesOnlyWhenFull
<1>1. ThrottleInv /\ [Next]_vars =>
        [\A c \in Calls :
           /\ pc[c] = "asking" /\ pc'[c] = "denied" => Within(granted[Shared]) = Limit
           /\ fail_mode = "open" /\ AskDegraded(c) /\ ~ProbeDue(PodOf[c]) /\ granted' = granted
                => Len(granted[PodOf[c]]) = Limit]_vars
  BY NextDenial
<1>2. QED
  BY <1>1, Invariance, PTL DEF Spec, DeniesOnlyWhenFull

=============================================================================
