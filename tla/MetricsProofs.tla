--------------------------- MODULE MetricsProofs ----------------------------
(***************************************************************************)
(* Proofs about Metrics, for any requests, latencies and number of calls   *)
(* of Reset and Snapshot.                                                  *)
(***************************************************************************)
EXTENDS Metrics, FiniteSetTheorems, TLAPS

USE MetricsAssumption
USE DEF calls, readers

-----------------------------------------------------------------------------
(* The histogram *)

\* The millisecond of a latency, as Duration.Milliseconds cuts it.
Ms(d) == d \div PerMs

\* Products of natural numbers grow with their factors.
LEMMA TimesMonotone ==
    ASSUME NEW a \in Nat, NEW b \in Nat, NEW n \in Nat, a <= b
    PROVE  a * n <= b * n
<1>1. b = a + (b - a) /\ b - a \in Nat
  OBVIOUS
<1>2. PICK k \in Nat : b = a + k
  BY <1>1
<1>3. b * n = a * n + k * n
  BY <1>2
<1>4. k * n \in Nat
  OBVIOUS
<1>5. a * n \in Nat
  OBVIOUS
<1>6. QED
  BY <1>3, <1>4, <1>5

\* An average lies between what all its terms lie between.
LEMMA AverageBetween ==
    ASSUME NEW s \in Nat, NEW n \in Nat \ {0}, NEW a \in Nat, NEW b \in Nat,
           a * n <= s, s <= b * n
    PROVE  a <= s \div n /\ s \div n <= b
<1>1. PICK q \in Nat, r \in 0..n - 1 : s = q * n + r /\ q = s \div n
  <2>1. s \div n \in Nat /\ s % n \in 0..n - 1 /\ s = n * (s \div n) + (s % n)
    OBVIOUS
  <2>2. QED
    BY <2>1
<1>2. a <= q
  <2>1. SUFFICES ASSUME q + 1 <= a PROVE FALSE
    BY <1>1
  <2>2. (q + 1) * n <= a * n
    BY <2>1, TimesMonotone
  <2>3. (q + 1) * n = q * n + n
    OBVIOUS
  <2>4. q * n \in Nat /\ a * n \in Nat
    OBVIOUS
  <2>5. QED
    BY <1>1, <2>2, <2>3, <2>4
<1>3. q <= b
  <2>1. SUFFICES ASSUME b + 1 <= q PROVE FALSE
    BY <1>1
  <2>2. (b + 1) * n <= q * n
    BY <2>1, TimesMonotone
  <2>3. (b + 1) * n = b * n + n
    OBVIOUS
  <2>4. q * n \in Nat /\ b * n \in Nat
    OBVIOUS
  <2>5. QED
    BY <1>1, <2>2, <2>3, <2>4
<1>4. QED
  BY <1>1, <1>2, <1>3

\* A longer latency has no smaller millisecond.
LEMMA MsMonotone ==
    ASSUME NEW d \in Nat, NEW e \in Nat, d <= e
    PROVE  Ms(d) \in Nat /\ Ms(e) \in Nat /\ Ms(d) <= Ms(e)
<1>1. PICK q \in Nat, r \in 0..PerMs - 1 : d = q * PerMs + r /\ q = Ms(d)
  <2>1. /\ d \div PerMs \in Nat /\ d % PerMs \in 0..PerMs - 1
        /\ d = PerMs * (d \div PerMs) + (d % PerMs)
    OBVIOUS
  <2>2. QED
    BY <2>1 DEF Ms
<1>2. PICK p \in Nat, t \in 0..PerMs - 1 : e = p * PerMs + t /\ p = Ms(e)
  <2>1. /\ e \div PerMs \in Nat /\ e % PerMs \in 0..PerMs - 1
        /\ e = PerMs * (e \div PerMs) + (e % PerMs)
    OBVIOUS
  <2>2. QED
    BY <2>1 DEF Ms
<1>3. q <= p
  <2>1. SUFFICES ASSUME p + 1 <= q PROVE FALSE
    OBVIOUS
  <2>2. (p + 1) * PerMs <= q * PerMs
    BY <2>1, TimesMonotone
  <2>3. (p + 1) * PerMs = p * PerMs + PerMs
    OBVIOUS
  <2>4. q * PerMs \in Nat /\ p * PerMs \in Nat
    OBVIOUS
  <2>5. QED
    BY <1>1, <1>2, <2>2, <2>3, <2>4
<1>4. QED
  BY <1>1, <1>2, <1>3

\* An element no other is below is the smallest one.
LEMMA MinIs ==
    ASSUME NEW S \in SUBSET Int, NEW x \in S, \A y \in S : x <= y
    PROVE  Min(S) = x
<1>1. Min(S) \in S /\ \A y \in S : Min(S) <= y
  BY Zenon DEF Min
<1>2. PICK z \in Int : z = Min(S) /\ z <= x /\ x <= z
  BY <1>1
<1>3. QED
  BY <1>2

\* An element no other is above is the largest one.
LEMMA MaxIs ==
    ASSUME NEW S \in SUBSET Int, NEW x \in S, \A y \in S : x >= y
    PROVE  Max(S) = x
<1>1. Max(S) \in S /\ \A y \in S : Max(S) >= y
  BY Zenon DEF Max
<1>2. PICK z \in Int : z = Max(S) /\ z >= x /\ x >= z
  BY <1>1
<1>3. QED
  BY <1>2

\* The bucket of a latency is the one whose bounds its millisecond lies
\* between, as the switch of Record finds it.
LEMMA BucketBounds ==
    ASSUME NEW d \in Nat
    PROVE  /\ Bucket(d) \in 1..10
           /\ Bucket(d) = 10 \/ Ms(d) < Bounds[Bucket(d)]
           /\ Bucket(d) = 1 \/ Ms(d) >= Bounds[Bucket(d) - 1]
<1> DEFINE S == {10} \cup {b \in DOMAIN Bounds : d \div PerMs < Bounds[b]}
<1>1. Ms(d) \in Nat
  BY MsMonotone
<1>2. DOMAIN Bounds = 1..9
  BY DEF Bounds
<1>3. PICK b \in 1..10 : /\ b = 10 \/ Ms(d) < Bounds[b]
                         /\ b = 1 \/ Ms(d) >= Bounds[b - 1]
  <2>1. \/ Ms(d) < 1
        \/ 1 <= Ms(d) /\ Ms(d) < 5
        \/ 5 <= Ms(d) /\ Ms(d) < 10
        \/ 10 <= Ms(d) /\ Ms(d) < 25
        \/ 25 <= Ms(d) /\ Ms(d) < 50
        \/ 50 <= Ms(d) /\ Ms(d) < 100
        \/ 100 <= Ms(d) /\ Ms(d) < 250
        \/ 250 <= Ms(d) /\ Ms(d) < 500
        \/ 500 <= Ms(d) /\ Ms(d) < 1000
        \/ 1000 <= Ms(d)
    BY <1>1, SMT
  <2>2. QED
    BY <1>1, <2>1, SMT DEF Bounds
<1>4. \A a, c \in 1..9 : a < c => Bounds[a] < Bounds[c]
  BY SMT DEF Bounds
<1>5. \A a \in 1..9 : Bounds[a] \in Nat
  BY SMT DEF Bounds
<1>6. b \in S
  BY <1>2, <1>3 DEF Ms
<1>7. ASSUME NEW y \in S PROVE b <= y
  <2>1. SUFFICES ASSUME y < b PROVE FALSE
    BY <1>2, <1>3
  <2>2. y \in 1..9 /\ Ms(d) < Bounds[y]
    BY <1>2, <1>3, <2>1 DEF Ms
  <2>3. b - 1 \in 1..9 /\ y <= b - 1
    BY <1>3, <2>1, <2>2
  <2>4. Bounds[y] <= Bounds[b - 1]
    BY <1>4, <1>5, <2>2, <2>3
  <2>5. QED
    BY <1>1, <1>3, <1>5, <2>1, <2>2, <2>3, <2>4
<1>8. S \subseteq Int
  BY <1>2
<1>9. Min(S) = b
  BY <1>6, <1>7, <1>8, MinIs
<1>10. Bucket(d) = b
  BY <1>9 DEF Bucket
<1>11. QED
  BY <1>3, <1>10

\* A longer latency falls in no lower bucket.
LEMMA BucketMonotone ==
    ASSUME NEW d \in Nat, NEW e \in Nat, d <= e
    PROVE  Bucket(d) <= Bucket(e)
<1>1. Ms(d) \in Nat /\ Ms(e) \in Nat /\ Ms(d) <= Ms(e)
  BY MsMonotone
<1>2. PICK b \in 1..10 : /\ b = Bucket(d)
                         /\ b = 1 \/ Ms(d) >= Bounds[b - 1]
  BY BucketBounds
<1>3. PICK c \in 1..10 : /\ c = Bucket(e)
                         /\ c = 10 \/ Ms(e) < Bounds[c]
  BY BucketBounds
<1>4. \A x, y \in 1..9 : x <= y => Bounds[x] <= Bounds[y]
  BY SMT DEF Bounds
<1>5. \A x \in 1..9 : Bounds[x] \in Nat
  BY SMT DEF Bounds
<1>6. SUFFICES ASSUME c < b PROVE FALSE
  BY <1>2, <1>3
<1>7. c \in 1..9 /\ b - 1 \in 1..9 /\ c <= b - 1
  BY <1>6
<1>8. QED
  BY <1>1, <1>2, <1>3, <1>4, <1>5, <1>6, <1>7


Total(n) == n[1] + n[2] + n[3] + n[4] + n[5] + n[6] + n[7] + n[8] + n[9] + n[10]

HistTypes ==
    hist \in [count: Nat, sum: Nat, min: Int, max: Nat, buckets: [1..10 -> Nat]]

\* The sum is bounded by as many times the smallest and the largest latency,
\* and these are in the lowest and in the highest bucket used.
Extremes ==
    /\ hist.min \in Nat /\ hist.min <= hist.max
    /\ hist.min * hist.count <= hist.sum /\ hist.sum <= hist.max * hist.count
    /\ hist.buckets[Bucket(hist.min)] > 0 /\ hist.buckets[Bucket(hist.max)] > 0
    /\ \A b \in 1..10 : hist.buckets[b] > 0 =>
                            Bucket(hist.min) <= b /\ b <= Bucket(hist.max)

HistInv ==
    /\ HistTypes
    /\ hist.count = Total(hist.buckets)
    /\ hist.count = 0 => hist = NewLatencyHistogram
    /\ hist.count > 0 => Extremes

\* One more in one bucket is one more in all.
LEMMA TotalOneMore ==
    ASSUME NEW n \in [1..10 -> Nat], NEW b \in 1..10
    PROVE  Total([n EXCEPT ![b] = @ + 1]) = Total(n) + 1
<1>1. \/ b = 1 \/ b = 2 \/ b = 3 \/ b = 4 \/ b = 5
      \/ b = 6 \/ b = 7 \/ b = 8 \/ b = 9 \/ b = 10
  BY SMT
<1>2. \A c \in 1..10 : n[c] \in Nat
  OBVIOUS
<1>3. QED
  BY <1>1, <1>2, SMT DEF Total

\* Record keeps the histogram in order.
LEMMA HistRecord ==
    ASSUME HistInv, NEW d \in Nat, Record(d)
    PROVE  HistInv'
<1>1. PICK b \in 1..10 : b = Bucket(d)
  BY BucketBounds
<1>2. /\ hist.count \in Nat /\ hist.sum \in Nat /\ hist.min \in Int
      /\ hist.max \in Nat /\ hist.buckets \in [1..10 -> Nat]
  BY DEF HistInv, HistTypes
<1>3. /\ hist'.count = hist.count + 1
      /\ hist'.sum = hist.sum + d
      /\ hist'.min = IF hist.min < 0 \/ d < hist.min THEN d ELSE hist.min
      /\ hist'.max = IF d > hist.max THEN d ELSE hist.max
      /\ hist'.buckets = [hist.buckets EXCEPT ![b] = @ + 1]
  BY <1>1 DEF Record
<1>4. HistTypes'
  <2>1. hist'.min \in Int /\ hist'.max \in Nat /\ hist'.count \in Nat
        /\ hist'.sum \in Nat /\ hist'.buckets \in [1..10 -> Nat]
    BY <1>2, <1>3
  <2>2. hist' = [count |-> hist'.count, sum |-> hist'.sum, min |-> hist'.min,
                 max |-> hist'.max, buckets |-> hist'.buckets]
    BY DEF Record
  <2>3. QED
    BY <2>1, <2>2 DEF HistTypes
<1>5. hist'.count = Total(hist'.buckets)
  BY <1>2, <1>3, TotalOneMore DEF HistInv
<1>6. Extremes'
  <2>a. /\ hist'.buckets[b] > 0
        /\ \A c \in 1..10 : c # b => hist'.buckets[c] = hist.buckets[c]
    BY <1>2, <1>3
  <2>1. CASE hist.count = 0
    <3>1. hist = NewLatencyHistogram
      BY <2>1 DEF HistInv
    <3>2. /\ hist.min = -1 /\ hist.max = 0 /\ hist.sum = 0
          /\ \A c \in 1..10 : hist.buckets[c] = 0
      BY <3>1 DEF NewLatencyHistogram
    <3>3. hist'.min = d /\ hist'.max = d /\ hist'.count = 1 /\ hist'.sum = d
      BY <1>2, <1>3, <2>1, <3>2
    <3>4. d * 1 = d
      OBVIOUS
    <3>5. \A c \in 1..10 : hist'.buckets[c] > 0 => c = b
      BY <2>a, <3>2
    <3>6. QED
      BY <1>1, <2>a, <3>3, <3>4, <3>5 DEF Extremes
  <2>2. CASE hist.count > 0
    <3>a. Extremes
      BY <2>2 DEF HistInv
    <3>1. PICK lo \in Nat : lo = hist.min
      BY <3>a DEF Extremes
    <3>2. PICK hi \in Nat : hi = hist.max
      BY <1>2
    <3>3. PICK l \in Nat : l = hist'.min /\ l <= lo /\ l <= d /\ l \in {lo, d}
      BY <1>3, <3>1
    <3>4. PICK h \in Nat : h = hist'.max /\ hi <= h /\ d <= h /\ h \in {hi, d}
      BY <1>3, <3>2
    <3>5. PICK n \in Nat, s \in Nat : n = hist.count /\ s = hist.sum
      BY <1>2
    <3>6. l * (n + 1) <= s + d
      <4>1. l * n <= lo * n
        BY <3>3, TimesMonotone
      <4>2. lo * n <= s
        BY <3>a, <3>1, <3>5 DEF Extremes
      <4>3. l * (n + 1) = l * n + l
        OBVIOUS
      <4>4. l * n \in Nat /\ lo * n \in Nat
        OBVIOUS
      <4>5. QED
        BY <3>3, <4>1, <4>2, <4>3, <4>4
    <3>7. s + d <= h * (n + 1)
      <4>1. hi * n <= h * n
        BY <3>4, TimesMonotone
      <4>2. s <= hi * n
        BY <3>a, <3>2, <3>5 DEF Extremes
      <4>3. h * (n + 1) = h * n + h
        OBVIOUS
      <4>4. h * n \in Nat /\ hi * n \in Nat
        OBVIOUS
      <4>5. QED
        BY <3>4, <4>1, <4>2, <4>3, <4>4
    <3>8. /\ Bucket(l) \in 1..10 /\ Bucket(lo) \in 1..10
          /\ Bucket(h) \in 1..10 /\ Bucket(hi) \in 1..10
      BY BucketBounds
    <3>9. /\ Bucket(l) <= Bucket(lo) /\ Bucket(l) <= b
          /\ Bucket(hi) <= Bucket(h) /\ b <= Bucket(h)
      BY <1>1, <3>3, <3>4, BucketMonotone
    <3>10. hist'.buckets[Bucket(l)] > 0 /\ hist'.buckets[Bucket(h)] > 0
      <4>1. /\ hist.buckets[Bucket(lo)] > 0 /\ hist.buckets[Bucket(hi)] > 0
        BY <3>a, <3>1, <3>2 DEF Extremes
      <4>2. hist'.buckets[Bucket(lo)] > 0 /\ hist'.buckets[Bucket(hi)] > 0
        BY <2>a, <3>8, <4>1
      <4>3. QED
        BY <1>1, <2>a, <3>3, <3>4, <4>2
    <3>11. ASSUME NEW c \in 1..10, hist'.buckets[c] > 0
           PROVE  Bucket(l) <= c /\ c <= Bucket(h)
      <4>1. c = b \/ (Bucket(lo) <= c /\ c <= Bucket(hi))
        BY <2>a, <3>a, <3>1, <3>2, <3>11 DEF Extremes
      <4>2. QED
        BY <3>8, <3>9, <4>1
    <3>12. l <= h
      BY <3>a, <3>1, <3>2, <3>3, <3>4 DEF Extremes
    <3>13. QED
      BY <1>3, <3>3, <3>4, <3>5, <3>6, <3>7, <3>10, <3>11, <3>12 DEF Extremes
  <2>3. QED
    BY <1>2, <2>1, <2>2
<1>7. hist'.count > 0
  BY <1>2, <1>3
<1>8. QED
  BY <1>2, <1>4, <1>5, <1>6, <1>7 DEF HistInv

\* A new histogram is in order.
LEMMA HistNew == hist = NewLatencyHistogram => HistInv
<1> SUFFICES ASSUME hist = NewLatencyHistogram PROVE HistInv
  OBVIOUS
<1>1. hist.count = 0 /\ \A b \in 1..10 : hist.buckets[b] = 0
  BY DEF NewLatencyHistogram
<1>2. Total(hist.buckets) = 0
  BY <1>1 DEF Total
<1>3. HistTypes
  BY DEF HistTypes, NewLatencyHistogram
<1>4. QED
  BY <1>1, <1>2, <1>3 DEF HistInv

\* A histogram in order is what HistogramConsistent says.
LEMMA HistConsistent == HistInv => HistogramConsistent
<1> SUFFICES ASSUME HistInv PROVE HistogramConsistent
  OBVIOUS
<1> DEFINE used == {b \in 1..10 : hist.buckets[b] > 0}
<1>1. /\ hist.count \in Nat /\ hist.sum \in Nat /\ hist.min \in Int
      /\ hist.max \in Nat /\ hist.buckets \in [1..10 -> Nat]
  BY DEF HistInv, HistTypes
<1>2. hist.count = 0 <=> hist = NewLatencyHistogram
  BY DEF HistInv, NewLatencyHistogram
<1>3. Stats.min <= Stats.avg /\ Stats.avg <= Stats.max
  <2>1. CASE hist.count = 0
    BY <2>1 DEF Stats
  <2>2. CASE hist.count > 0
    <3>1. hist.min <= hist.sum \div hist.count
            /\ hist.sum \div hist.count <= hist.max
      <4>1. PICK s \in Nat, n \in Nat \ {0}, a \in Nat, b \in Nat :
              /\ s = hist.sum /\ n = hist.count
              /\ a = hist.min /\ b = hist.max
        BY <1>1, <2>2 DEF HistInv, Extremes
      <4>2. a * n <= s /\ s <= b * n
        BY <2>2, <4>1 DEF HistInv, Extremes
      <4>3. a <= s \div n /\ s \div n <= b
        BY <4>2, AverageBetween
      <4>4. QED
        BY <4>1, <4>3
    <3>2. QED
      BY <2>2, <3>1 DEF Stats
  <2>3. QED
    BY <1>1, <2>1, <2>2
<1>4. ASSUME hist.count > 0
      PROVE  Max(used) = Bucket(hist.max) /\ Min(used) = Bucket(hist.min)
  <2>1. Extremes /\ hist.min \in Nat
    BY <1>4 DEF HistInv, Extremes
  <2>2. Bucket(hist.min) \in 1..10 /\ Bucket(hist.max) \in 1..10
    BY <1>1, <2>1, BucketBounds
  <2>3. /\ Bucket(hist.min) \in used /\ Bucket(hist.max) \in used
        /\ \A y \in used : Bucket(hist.min) <= y /\ Bucket(hist.max) >= y
    BY <2>1, <2>2 DEF Extremes
  <2>4. used \in SUBSET Int
    OBVIOUS
  <2> HIDE DEF used
  <2>5. QED
    BY <2>3, <2>4, MinIs, MaxIs
<1>5. ASSUME hist.count > 0
      PROVE  /\ Max(used) = 10 \/ hist.max \div PerMs < Bounds[Max(used)]
             /\ Max(used) = 1 \/ hist.max \div PerMs >= Bounds[Max(used) - 1]
             /\ Min(used) = 10 \/ hist.min \div PerMs < Bounds[Min(used)]
             /\ Min(used) = 1 \/ hist.min \div PerMs >= Bounds[Min(used) - 1]
  <2>1. hist.min \in Nat
    BY <1>5 DEF HistInv, Extremes
  <2> HIDE DEF used
  <2>2. QED
    BY <1>1, <1>4, <1>5, <2>1, BucketBounds DEF Ms
<1>6. hist.count = Total(hist.buckets)
  BY DEF HistInv
<1>7. QED
  BY <1>2, <1>3, <1>5, <1>6, Zenon DEF HistogramConsistent, Total

-----------------------------------------------------------------------------
(* The counters *)

States == {"idle", "sent", "active", "waiting", "answered", "leaving",
           "returned"}

\* Type invariant: an unconfirmed request is never active, an answer comes
\* when it is waited for, and Reset sets fields only once it was called.
MetricsTypes ==
    /\ m \in [Counters \cup {"ActiveRequests"} -> Int]
    /\ pc \in [Calls -> States]
    /\ answer \in [Calls -> Answers \cup {"pending"}]
    /\ rpc \in 0..6 /\ spc \in 0..6
    /\ resets \in Nat /\ snapshots \in Nat /\ forgotten \in Nat
    /\ resets = 0 => rpc = 0
    /\ \A c \in Unconfirmed : pc[c] \in {"idle", "sent", "returned"}
    /\ \A c \in Calls : pc[c] \in {"idle", "sent", "active", "waiting"} =>
                            answer[c] = "pending"
    /\ \A c \in Calls : pc[c] = "answered" => answer[c] \in Answers
    /\ \A c \in Unconfirmed : answer[c] = "pending"

\* Requests sent and not counted once more, and those that never are.
Sent == Past({"sent", "active", "waiting", "answered"})
Uncounted == {c \in Past({"leaving", "returned"}) : answer[c] = "none"}

\* Confirmed requests with an answer, those whose acknowledgement has been
\* counted, and unconfirmed requests that are over.
Answered == {c \in Confirmed : answer[c] # "pending"}
Acked == {c \in Confirmed : pc[c] \in {"leaving", "returned"}
                              /\ answer[c] = "ack"}
Done == {c \in Unconfirmed : pc[c] = "returned"}

\* The counters in terms of the requests, until Reset is called. There is a
\* latency for every answer, and a success has an answer or is unconfirmed.
Ledger ==
    /\ m["ActiveRequests"] = Cardinality(UnderWay) - forgotten
    /\ resets = 0 =>
        /\ m["RequestsSent"] =
             m["RequestsSucceeded"] + m["RequestsFailed"]
             + m["RequestsTimedOut"] + Cardinality(Sent) + Cardinality(Uncounted)
        /\ hist.count = Cardinality(Answered)
        /\ m["RequestsSucceeded"] <= Cardinality(Acked) + Cardinality(Done)

\* What Snapshot may read of a field.
Readings ==
    Int \cup [count: Nat, buckets: [1..10 -> Nat], min: Int, max: Int, avg: Int]

\* Until Reset is called, the successes read were at most the latencies there
\* are now and the unconfirmed requests.
SnapInv ==
    /\ snap \in Seq(Readings)
    /\ spc > 0 => Len(snap) = spc - 1
    /\ resets = 0 /\ Len(snap) >= 2 =>
        snap[2] \in Int /\ snap[2] <= hist.count + Cardinality(Unconfirmed)
    /\ LatencyCoversSuccesses

MetricsInv == MetricsTypes /\ HistInv /\ Ledger /\ SnapInv

\* All these sets are finite.
LEMMA FinitelyMany ==
    \A S \in SUBSET Calls : IsFiniteSet(S) /\ Cardinality(S) \in Nat
<1>1. IsFiniteSet(Calls)
  BY FS_Union DEF Calls
<1>2. QED
  BY <1>1, FS_Subset, FS_CardinalityType

\* How a set of requests that one request joins or leaves counts.
LEMMA CountMove ==
    ASSUME NEW S \in SUBSET Calls, NEW c \in Calls
    PROVE  /\ c \notin S => Cardinality(S \cup {c}) = Cardinality(S) + 1
           /\ c \in S => Cardinality(S \ {c}) = Cardinality(S) - 1
           /\ Cardinality(S \cup {c}) >= Cardinality(S)
<1>1. IsFiniteSet(S) /\ Cardinality(S) \in Nat
  BY FinitelyMany
<1>2. Cardinality(S \cup {c}) =
        IF c \in S THEN Cardinality(S) ELSE Cardinality(S) + 1
  BY <1>1, FS_AddElement
<1>3. Cardinality(S \ {c}) =
        IF c \in S THEN Cardinality(S) - 1 ELSE Cardinality(S)
  BY <1>1, FS_RemoveElement
<1>4. QED
  BY <1>1, <1>2, <1>3

\* Requests of one kind are requests.
LEMMA SetsOfCalls ==
    /\ UnderWay \in SUBSET Calls /\ Sent \in SUBSET Calls
    /\ Uncounted \in SUBSET Calls /\ Answered \in SUBSET Calls
    /\ Acked \in SUBSET Calls /\ Done \in SUBSET Calls
BY DEF UnderWay, Sent, Uncounted, Answered, Acked, Done, Past, Calls

\* A success that was counted has a latency or is an unconfirmed request.
LEMMA SuccessesCovered ==
    ASSUME MetricsTypes, HistInv, Ledger, resets = 0
    PROVE  /\ m["RequestsSucceeded"] \in Int
           /\ m["RequestsSucceeded"] <= hist.count + Cardinality(Unconfirmed)
<1>1. m["RequestsSucceeded"] \in Int
  BY DEF MetricsTypes, Counters
<1>2. Acked \in SUBSET Answered /\ Done \in SUBSET Unconfirmed
  BY DEF Acked, Answered, Done
<1>3. IsFiniteSet(Answered) /\ IsFiniteSet(Unconfirmed)
  BY SetsOfCalls, FinitelyMany
<1>4. /\ Cardinality(Acked) <= Cardinality(Answered)
      /\ Cardinality(Done) <= Cardinality(Unconfirmed)
  BY <1>2, <1>3, FS_Subset
<1>5. /\ Cardinality(Acked) \in Nat /\ Cardinality(Answered) \in Nat
      /\ Cardinality(Done) \in Nat /\ Cardinality(Unconfirmed) \in Nat
  BY <1>3, SetsOfCalls, FinitelyMany, FS_CardinalityType
<1>6. QED
  BY <1>1, <1>4, <1>5 DEF Ledger

\* The states before and after a step of a request.
LEMMA Moves ==
    ASSUME MetricsTypes, NEW c \in Calls, NEW from, NEW to,
           At(c, from, to), UNCHANGED answer
    PROVE  /\ pc[c] = from /\ pc'[c] = to
           /\ \A d \in Calls : d # c => pc'[d] = pc[d]
           /\ answer' = answer
BY DEF MetricsTypes, At

\* A step of a request keeps the types.
LEMMA CallTypes ==
    ASSUME MetricsTypes, NEW c \in Calls, Call(c)
    PROVE  MetricsTypes'
<1>a. \A f \in Counters \cup {"ActiveRequests"} : m[f] \in Int
  BY DEF MetricsTypes
<1>b. \A f \in Counters \cup {"ActiveRequests"} : Inc(f) =>
        m' \in [Counters \cup {"ActiveRequests"} -> Int]
  BY <1>a DEF MetricsTypes, Inc
<1>c. Dec("ActiveRequests") =>
        m' \in [Counters \cup {"ActiveRequests"} -> Int]
  BY <1>a DEF MetricsTypes, Dec
<1>d. \A f \in {"RequestsSent", "RequestsSucceeded", "RequestsFailed",
                "RequestsTimedOut", "ActiveRequests"} :
        f \in Counters \cup {"ActiveRequests"}
  BY DEF Counters
<1>e. \A d \in Unconfirmed : d \in Calls
  BY DEF Calls
<1>1. CASE CountSent(c)
  BY <1>1, <1>b, <1>d, <1>e DEF CountSent, Counting, At, MetricsTypes, States
<1>2. CASE CountActive(c)
  BY <1>2, <1>b, <1>d, <1>e DEF CountActive, Counting, At, MetricsTypes, States
<1>3. CASE SendFails(c)
  BY <1>3, <1>b, <1>d, <1>e DEF SendFails, Counting, At, MetricsTypes, States
<1>4. CASE SendUnconfirmed(c)
  BY <1>4, <1>b, <1>d, <1>e
  DEF SendUnconfirmed, Counting, At, MetricsTypes, States
<1>5. CASE SendConfirmed(c)
  BY <1>5, <1>e DEF SendConfirmed, At, MetricsTypes, States
<1>6. CASE ContextDone(c)
  BY <1>6, <1>b, <1>d, <1>e DEF ContextDone, Counting, At, MetricsTypes, States
<1>7. CASE Answer(c)
  BY <1>7, <1>e DEF Answer, At, MetricsTypes, States, Answers
<1>8. CASE CountOutcome(c)
  <2>1. At(c, "answered", "leaving") /\ UNCHANGED <<answer, readers>>
    BY <1>8 DEF CountOutcome, Counting
  <2>2. m' \in [Counters \cup {"ActiveRequests"} -> Int]
    BY <1>8, <1>b, <1>d DEF CountOutcome, Counting, MetricsTypes
  <2>3. QED
    BY <2>1, <2>2, <1>e DEF At, MetricsTypes, States
<1>9. CASE Return(c)
  BY <1>9, <1>c, <1>e DEF Return, At, MetricsTypes, States
<1>10. QED
  BY <1>1, <1>2, <1>3, <1>4, <1>5, <1>6, <1>7, <1>8, <1>9 DEF Call

\* A step of a request keeps the histogram in order and loses no latency.
LEMMA CallHist ==
    ASSUME HistInv, NEW c \in Calls, Call(c)
    PROVE  /\ HistInv'
           /\ hist.count \in Nat /\ hist'.count \in Nat
           /\ hist'.count >= hist.count
<1>1. hist.count \in Nat
  BY DEF HistInv, HistTypes
<1>2. CASE Answer(c)
  <2>1. PICK d \in Nat : Record(d)
    BY <1>2 DEF Answer
  <2>2. hist'.count = hist.count + 1
    BY <2>1 DEF Record
  <2>3. QED
    BY <1>1, <2>1, <2>2, HistRecord
<1>3. CASE ~Answer(c)
  <2>1. hist' = hist
    BY <1>3 DEF Call, CountSent, CountActive, SendFails, SendUnconfirmed,
                SendConfirmed, ContextDone, CountOutcome, Return, Counting
  <2>2. HistInv'
    BY <2>1 DEF HistInv, HistTypes, Extremes
  <2>3. QED
    BY <1>1, <2>1, <2>2
<1>4. QED
  BY <1>2, <1>3

\* What has been read in a Snapshot still holds when there are more latencies.
LEMMA SnapFrame ==
    ASSUME SnapInv, UNCHANGED <<snap, spc>>, resets' = 0 => resets = 0,
           resets' = 0 => /\ hist.count \in Nat /\ hist'.count \in Nat
                          /\ hist'.count >= hist.count
    PROVE  SnapInv'
<1>1. Cardinality(Unconfirmed) \in Nat
  BY FS_CardinalityType
<1>2. LatencyCoversSuccesses'
  BY DEF SnapInv, LatencyCoversSuccesses
<1>3. QED
  BY <1>1, <1>2 DEF SnapInv

\* A step of a request keeps the counters in step with the requests.
LEMMA CallLedger ==
    ASSUME MetricsTypes, HistInv, Ledger, NEW c \in Calls, Call(c)
    PROVE  Ledger'
<1>a. /\ Cardinality(UnderWay) \in Nat /\ Cardinality(Sent) \in Nat
      /\ Cardinality(Uncounted) \in Nat /\ Cardinality(Answered) \in Nat
      /\ Cardinality(Acked) \in Nat /\ Cardinality(Done) \in Nat
  BY SetsOfCalls, FinitelyMany
<1>b. /\ m["RequestsSent"] \in Int /\ m["RequestsSucceeded"] \in Int
      /\ m["RequestsFailed"] \in Int /\ m["RequestsTimedOut"] \in Int
      /\ m["ActiveRequests"] \in Int /\ forgotten \in Nat
      /\ DOMAIN m = Counters \cup {"ActiveRequests"}
  BY DEF MetricsTypes, Counters
<1>c. /\ c \in Confirmed \/ c \in Unconfirmed
      /\ ~(c \in Confirmed /\ c \in Unconfirmed)
      /\ Confirmed \subseteq Calls /\ Unconfirmed \subseteq Calls
  BY DEF Calls
<1>d. c \in Unconfirmed => pc[c] \in {"idle", "sent", "returned"}
  BY DEF MetricsTypes
<1>e. pc[c] \in {"idle", "sent", "active", "waiting"} => answer[c] = "pending"
  BY DEF MetricsTypes
<1>1. CASE CountSent(c)
  <2>1. /\ At(c, "idle", "sent") /\ UNCHANGED <<hist, answer, readers>>
        /\ m' = [m EXCEPT !["RequestsSent"] = @ + 1]
    BY <1>1 DEF CountSent, Counting, Inc
  <2>2. /\ pc[c] = "idle" /\ pc'[c] = "sent" /\ answer' = answer
        /\ \A d \in Calls : d # c => pc'[d] = pc[d]
    BY <2>1, Moves
  <2>3. /\ Sent' = Sent \cup {c} /\ c \notin Sent
        /\ UnderWay' = UnderWay /\ Uncounted' = Uncounted /\ Answered' = Answered
        /\ Acked' = Acked /\ Done' = Done
    BY <1>c, <1>d, <1>e, <2>2
    DEF UnderWay, Sent, Uncounted, Answered, Acked, Done, Past
  <2>4. Cardinality(Sent') = Cardinality(Sent) + 1
    BY <2>3, SetsOfCalls, CountMove
  <2>5. QED
    BY <1>a, <1>b, <2>1, <2>3, <2>4 DEF Ledger, Counters
<1>2. CASE CountActive(c)
  <2>1. /\ At(c, "sent", "active") /\ UNCHANGED <<hist, answer, readers>>
        /\ m' = [m EXCEPT !["ActiveRequests"] = @ + 1]
    BY <1>2 DEF CountActive, Counting, Inc
  <2>2. /\ pc[c] = "sent" /\ pc'[c] = "active" /\ answer' = answer
        /\ \A d \in Calls : d # c => pc'[d] = pc[d]
    BY <2>1, Moves
  <2>3. /\ UnderWay' = UnderWay \cup {c} /\ c \notin UnderWay
        /\ Sent' = Sent /\ Uncounted' = Uncounted /\ Answered' = Answered
        /\ Acked' = Acked /\ Done' = Done
    BY <1>c, <1>d, <1>e, <1>2, <2>2
    DEF UnderWay, Sent, Uncounted, Answered, Acked, Done, Past, CountActive
  <2>4. Cardinality(UnderWay') = Cardinality(UnderWay) + 1
    BY <2>3, SetsOfCalls, CountMove
  <2>5. QED
    BY <1>a, <1>b, <2>1, <2>3, <2>4 DEF Ledger, Counters
<1>3. CASE SendFails(c)
  <2>1. CASE c \in Confirmed
    <3>1. /\ At(c, "active", "leaving") /\ UNCHANGED <<hist, answer, readers>>
          /\ m' = [m EXCEPT !["RequestsFailed"] = @ + 1]
      BY <1>3, <1>c, <2>1 DEF SendFails, Counting, Inc
    <3>2. /\ pc[c] = "active" /\ pc'[c] = "leaving" /\ answer' = answer
          /\ \A d \in Calls : d # c => pc'[d] = pc[d]
      BY <3>1, Moves
    <3>3. /\ Sent' = Sent \ {c} /\ c \in Sent
          /\ UnderWay' = UnderWay /\ Uncounted' = Uncounted /\ Answered' = Answered
          /\ Acked' = Acked /\ Done' = Done
      BY <1>c, <1>d, <1>e, <2>1, <3>2
      DEF UnderWay, Sent, Uncounted, Answered, Acked, Done, Past
    <3>4. Cardinality(Sent') = Cardinality(Sent) - 1
      BY <3>3, SetsOfCalls, CountMove
    <3>5. QED
      BY <1>a, <1>b, <3>1, <3>3, <3>4 DEF Ledger, Counters
  <2>2. CASE c \in Unconfirmed
    <3>1. /\ At(c, "sent", "returned") /\ UNCHANGED <<hist, answer, readers>>
          /\ m' = [m EXCEPT !["RequestsFailed"] = @ + 1]
      BY <1>3, <1>c, <2>2 DEF SendFails, Counting, Inc
    <3>2. /\ pc[c] = "sent" /\ pc'[c] = "returned" /\ answer' = answer
          /\ \A d \in Calls : d # c => pc'[d] = pc[d]
      BY <3>1, Moves
    <3>3. /\ Sent' = Sent \ {c} /\ c \in Sent
          /\ Done' = Done \cup {c}
          /\ UnderWay' = UnderWay /\ Uncounted' = Uncounted /\ Answered' = Answered
          /\ Acked' = Acked
      BY <1>c, <1>d, <1>e, <2>2, <3>2
      DEF UnderWay, Sent, Uncounted, Answered, Acked, Done, Past
    <3>4. /\ Cardinality(Sent') = Cardinality(Sent) - 1
          /\ Cardinality(Done') >= Cardinality(Done)
          /\ Cardinality(Done') \in Nat
      BY <3>3, SetsOfCalls, CountMove, FinitelyMany
    <3>5. QED
      BY <1>a, <1>b, <3>1, <3>3, <3>4 DEF Ledger, Counters
  <2>3. QED
    BY <1>c, <2>1, <2>2
<1>4. CASE SendUnconfirmed(c)
  <2>1. /\ At(c, "sent", "returned") /\ UNCHANGED <<hist, answer, readers>>
        /\ m' = [m EXCEPT !["RequestsSucceeded"] = @ + 1]
    BY <1>4 DEF SendUnconfirmed, Counting, Inc
  <2>2. /\ pc[c] = "sent" /\ pc'[c] = "returned" /\ answer' = answer
        /\ \A d \in Calls : d # c => pc'[d] = pc[d]
    BY <2>1, Moves
  <2>3. /\ Sent' = Sent \ {c} /\ c \in Sent
        /\ Done' = Done \cup {c} /\ c \notin Done
        /\ UnderWay' = UnderWay /\ Uncounted' = Uncounted /\ Answered' = Answered
        /\ Acked' = Acked
    BY <1>c, <1>d, <1>e, <1>4, <2>2
    DEF UnderWay, Sent, Uncounted, Answered, Acked, Done, Past,
      SendUnconfirmed
  <2>4. /\ Cardinality(Sent') = Cardinality(Sent) - 1
        /\ Cardinality(Done') = Cardinality(Done) + 1
    BY <2>3, SetsOfCalls, CountMove
  <2>5. QED
    BY <1>a, <1>b, <2>1, <2>3, <2>4 DEF Ledger, Counters
<1>5. CASE SendConfirmed(c)
  <2>1. /\ At(c, "active", "waiting") /\ UNCHANGED <<hist, answer, readers>>
        /\ m' = m
    BY <1>5 DEF SendConfirmed
  <2>2. /\ pc[c] = "active" /\ pc'[c] = "waiting" /\ answer' = answer
        /\ \A d \in Calls : d # c => pc'[d] = pc[d]
    BY <2>1, Moves
  <2>3. /\ UnderWay' = UnderWay /\ Sent' = Sent /\ Uncounted' = Uncounted
        /\ Answered' = Answered /\ Acked' = Acked /\ Done' = Done
    BY <1>c, <1>d, <1>e, <2>2
    DEF UnderWay, Sent, Uncounted, Answered, Acked, Done, Past
  <2>4. QED
    BY <1>a, <1>b, <2>1, <2>3 DEF Ledger, Counters
<1>6. CASE ContextDone(c)
  <2>1. /\ At(c, "waiting", "leaving") /\ UNCHANGED <<hist, answer, readers>>
        /\ m' = [m EXCEPT !["RequestsTimedOut"] = @ + 1]
    BY <1>6 DEF ContextDone, Counting, Inc
  <2>2. /\ pc[c] = "waiting" /\ pc'[c] = "leaving" /\ answer' = answer
        /\ \A d \in Calls : d # c => pc'[d] = pc[d]
    BY <2>1, Moves
  <2>3. /\ Sent' = Sent \ {c} /\ c \in Sent
        /\ UnderWay' = UnderWay /\ Uncounted' = Uncounted /\ Answered' = Answered
        /\ Acked' = Acked /\ Done' = Done
    BY <1>c, <1>d, <1>e, <2>2
    DEF UnderWay, Sent, Uncounted, Answered, Acked, Done, Past
  <2>4. Cardinality(Sent') = Cardinality(Sent) - 1
    BY <2>3, SetsOfCalls, CountMove
  <2>5. QED
    BY <1>a, <1>b, <2>1, <2>3, <2>4 DEF Ledger, Counters
<1>7. CASE Answer(c)
  <2>1. /\ UNCHANGED <<m, readers>>
        /\ \E d \in Latencies : Record(d)
    BY <1>7 DEF Answer
  <2>2. /\ pc[c] = "waiting" /\ pc'[c] = "answered" /\ answer'[c] \in Answers
        /\ \A d \in Calls : d # c => pc'[d] = pc[d] /\ answer'[d] = answer[d]
    BY <1>7 DEF Answer, At, MetricsTypes
  <2>3. /\ Answered' = Answered \cup {c} /\ c \notin Answered
        /\ UnderWay' = UnderWay /\ Sent' = Sent /\ Uncounted' = Uncounted
        /\ Acked' = Acked /\ Done' = Done
    BY <1>c, <1>d, <1>e, <2>2
    DEF UnderWay, Sent, Uncounted, Answered, Acked, Done, Past, Answers
  <2>4. Cardinality(Answered') = Cardinality(Answered) + 1
    BY <2>3, SetsOfCalls, CountMove
  <2>5. hist'.count = hist.count + 1
    BY <2>1 DEF Record
  <2>6. QED
    BY <1>a, <1>b, <2>1, <2>3, <2>4, <2>5 DEF Ledger
<1>8. CASE CountOutcome(c)
  <2>1. CASE answer[c] = "ack"
    <3>1. /\ At(c, "answered", "leaving") /\ UNCHANGED <<hist, answer, readers>>
          /\ m' = [m EXCEPT !["RequestsSucceeded"] = @ + 1]
      BY <1>8, <2>1 DEF CountOutcome, Counting, Inc
    <3>2. /\ pc[c] = "answered" /\ pc'[c] = "leaving" /\ answer' = answer
          /\ \A d \in Calls : d # c => pc'[d] = pc[d]
      BY <3>1, Moves
    <3>3. /\ Sent' = Sent \ {c} /\ c \in Sent
          /\ Acked' = Acked \cup {c} /\ c \notin Acked
          /\ UnderWay' = UnderWay /\ Uncounted' = Uncounted /\ Answered' = Answered
          /\ Done' = Done
      BY <1>c, <1>d, <1>e, <2>1, <3>2
      DEF UnderWay, Sent, Uncounted, Answered, Acked, Done, Past
    <3>4. /\ Cardinality(Sent') = Cardinality(Sent) - 1
          /\ Cardinality(Acked') = Cardinality(Acked) + 1
      BY <3>3, SetsOfCalls, CountMove
    <3>5. QED
      BY <1>a, <1>b, <3>1, <3>3, <3>4 DEF Ledger, Counters
  <2>2. CASE answer[c] = "error"
    <3>1. /\ At(c, "answered", "leaving") /\ UNCHANGED <<hist, answer, readers>>
          /\ m' = [m EXCEPT !["RequestsFailed"] = @ + 1]
      BY <1>8, <2>2 DEF CountOutcome, Counting, Inc
    <3>2. /\ pc[c] = "answered" /\ pc'[c] = "leaving" /\ answer' = answer
          /\ \A d \in Calls : d # c => pc'[d] = pc[d]
      BY <3>1, Moves
    <3>3. /\ Sent' = Sent \ {c} /\ c \in Sent
          /\ UnderWay' = UnderWay /\ Uncounted' = Uncounted /\ Answered' = Answered
          /\ Acked' = Acked /\ Done' = Done
      BY <1>c, <1>d, <1>e, <2>2, <3>2
      DEF UnderWay, Sent, Uncounted, Answered, Acked, Done, Past
    <3>4. Cardinality(Sent') = Cardinality(Sent) - 1
      BY <3>3, SetsOfCalls, CountMove
    <3>5. QED
      BY <1>a, <1>b, <3>1, <3>3, <3>4 DEF Ledger, Counters
  <2>3. CASE answer[c] = "none"
    <3>1. /\ At(c, "answered", "leaving") /\ UNCHANGED <<hist, answer, readers>>
          /\ m' = m
      BY <1>8, <2>3 DEF CountOutcome, Counting
    <3>2. /\ pc[c] = "answered" /\ pc'[c] = "leaving" /\ answer' = answer
          /\ \A d \in Calls : d # c => pc'[d] = pc[d]
      BY <3>1, Moves
    <3>3. /\ Sent' = Sent \ {c} /\ c \in Sent
          /\ Uncounted' = Uncounted \cup {c} /\ c \notin Uncounted
          /\ UnderWay' = UnderWay /\ Answered' = Answered /\ Acked' = Acked
          /\ Done' = Done
      BY <1>c, <1>d, <1>e, <2>3, <3>2
      DEF UnderWay, Sent, Uncounted, Answered, Acked, Done, Past
    <3>4. /\ Cardinality(Sent') = Cardinality(Sent) - 1
          /\ Cardinality(Uncounted') = Cardinality(Uncounted) + 1
      BY <3>3, SetsOfCalls, CountMove
    <3>5. QED
      BY <1>a, <1>b, <3>1, <3>3, <3>4 DEF Ledger, Counters
  <2>4. QED
    BY <1>8, <2>1, <2>2, <2>3 DEF CountOutcome
<1>9. CASE Return(c)
  <2>1. /\ At(c, "leaving", "returned") /\ UNCHANGED <<hist, answer, readers>>
        /\ m' = [m EXCEPT !["ActiveRequests"] = @ - 1]
    BY <1>9 DEF Return, Dec
  <2>2. /\ pc[c] = "leaving" /\ pc'[c] = "returned" /\ answer' = answer
        /\ \A d \in Calls : d # c => pc'[d] = pc[d]
    BY <2>1, Moves
  <2>3. /\ UnderWay' = UnderWay \ {c} /\ c \in UnderWay
        /\ Sent' = Sent /\ Uncounted' = Uncounted /\ Answered' = Answered
        /\ Acked' = Acked /\ Done' = Done
    BY <1>c, <1>d, <1>e, <2>2
    DEF UnderWay, Sent, Uncounted, Answered, Acked, Done, Past
  <2>4. Cardinality(UnderWay') = Cardinality(UnderWay) - 1
    BY <2>3, SetsOfCalls, CountMove
  <2>5. QED
    BY <1>a, <1>b, <2>1, <2>3, <2>4 DEF Ledger, Counters
<1>10. QED
  BY <1>1, <1>2, <1>3, <1>4, <1>5, <1>6, <1>7, <1>8, <1>9 DEF Call

\* Reset and Snapshot move no request.
LEMMA SameSets ==
    ASSUME UNCHANGED <<pc, answer>>
    PROVE  /\ UnderWay' = UnderWay /\ Sent' = Sent /\ Uncounted' = Uncounted
           /\ Answered' = Answered /\ Acked' = Acked /\ Done' = Done
BY DEF UnderWay, Sent, Uncounted, Answered, Acked, Done, Past

\* The fields are visited one after the other, and each is a counter, the
\* histogram or the gauge.
LEMMA FieldOrder ==
    ASSUME NEW k \in 1..6
    PROVE  /\ (k + 1) % (Len(Fields) + 1) = IF k = 6 THEN 0 ELSE k + 1
           /\ Fields[k] = "RequestLatency" <=> k = 5
           /\ Fields[k] = "RequestsSucceeded" <=> k = 2
           /\ k # 5 => Fields[k] \in Counters \cup {"ActiveRequests"}
<1>1. Len(Fields) = 6
  BY DEF Fields
<1>2. (k + 1) % 7 = IF k = 6 THEN 0 ELSE k + 1
  BY SMT
<1>3. QED
  BY <1>1, <1>2, SMT DEF Fields, Counters

\* Reset keeps the invariant: what it sets to 0 is only claimed of metrics
\* that were never reset, but for the gauge.
LEMMA ResetStep ==
    ASSUME MetricsInv, StartReset \/ ResetField
    PROVE  MetricsInv'
<1>a. MetricsTypes /\ HistInv /\ Ledger /\ SnapInv
  BY DEF MetricsInv
<1>b. /\ UnderWay' = UnderWay
      /\ UNCHANGED <<pc, answer, spc, snap, snapshots>>
  BY SameSets DEF StartReset, ResetField
<1>c. Cardinality(UnderWay) \in Nat
  BY SetsOfCalls, FinitelyMany
<1>1. CASE StartReset
  <2>1. resets' # 0 /\ resets' \in Nat /\ rpc' = 1 /\ UNCHANGED <<m, hist, forgotten>>
    BY <1>1, <1>a DEF StartReset, MetricsTypes
  <2>2. MetricsTypes'
    BY <1>a, <1>b, <2>1 DEF MetricsTypes
  <2>3. HistInv'
    BY <1>a, <2>1 DEF HistInv, HistTypes, Extremes
  <2>4. Ledger'
    BY <1>a, <1>b, <2>1 DEF Ledger
  <2>5. SnapInv'
    BY <1>a, <1>b, <2>1, SnapFrame
  <2>6. QED
    BY <2>2, <2>3, <2>4, <2>5 DEF MetricsInv
<1>2. CASE ResetField
  <2>1. PICK k \in 1..6 : k = rpc
    BY <1>2, <1>a DEF ResetField, MetricsTypes
  <2>2. resets' = resets /\ resets # 0 /\ rpc' = (k + 1) % (Len(Fields) + 1)
    BY <1>2, <1>a, <2>1 DEF ResetField, MetricsTypes
  <2>3. rpc' \in 0..6
    BY <2>2, FieldOrder
  <2>4. CASE k = 5
    <3>1. hist' = NewLatencyHistogram /\ UNCHANGED <<m, forgotten>>
      BY <1>2, <2>1, <2>4, FieldOrder DEF ResetField
    <3>2. HistInv'
      BY <3>1, HistNew DEF HistInv, HistTypes, Extremes, NewLatencyHistogram, Total
    <3>3. MetricsTypes'
      BY <1>a, <1>b, <2>2, <2>3, <3>1 DEF MetricsTypes
    <3>4. Ledger'
      BY <1>a, <1>b, <2>2, <3>1 DEF Ledger
    <3>5. SnapInv'
      BY <1>a, <1>b, <2>2, SnapFrame
    <3>6. QED
      BY <3>2, <3>3, <3>4, <3>5 DEF MetricsInv
  <2>5. CASE k # 5
    <3>1. /\ m' = [m EXCEPT ![Fields[k]] = 0]
          /\ forgotten' = IF Fields[k] = "ActiveRequests"
                          THEN Cardinality(UnderWay) ELSE forgotten
          /\ hist' = hist
      BY <1>2, <2>1, <2>5, FieldOrder DEF ResetField
    <3>2. HistInv'
      BY <1>a, <3>1 DEF HistInv, HistTypes, Extremes
    <3>3. MetricsTypes'
      <4>1. m' \in [Counters \cup {"ActiveRequests"} -> Int]
        <5>1. PICK f \in Counters \cup {"ActiveRequests"} : f = Fields[k]
          BY <2>5, FieldOrder
        <5>2. QED
          BY <1>a, <3>1, <5>1 DEF MetricsTypes
      <4>2. forgotten' \in Nat
        BY <1>a, <1>c, <3>1 DEF MetricsTypes
      <4>3. QED
        BY <1>a, <1>b, <2>2, <2>3, <4>1, <4>2 DEF MetricsTypes
    <3>4. Ledger'
      <4>1. "ActiveRequests" \in DOMAIN m
        BY <1>a DEF MetricsTypes
      <4>2. CASE Fields[k] = "ActiveRequests"
        BY <1>b, <1>c, <2>2, <3>1, <4>1, <4>2 DEF Ledger
      <4>3. CASE Fields[k] # "ActiveRequests"
        BY <1>a, <1>b, <2>2, <3>1, <4>1, <4>3 DEF Ledger
      <4>4. QED
        BY <4>2, <4>3
    <3>5. SnapInv'
      BY <1>a, <1>b, <2>2, SnapFrame
    <3>6. QED
      BY <3>2, <3>3, <3>4, <3>5 DEF MetricsInv
  <2>6. QED
    BY <2>4, <2>5
<1>3. QED
  BY <1>1, <1>2

\* Snapshot keeps the invariant: it reads the latencies after the successes.
LEMMA SnapshotStep ==
    ASSUME MetricsInv, StartSnapshot \/ SnapshotField
    PROVE  MetricsInv'
<1>a. MetricsTypes /\ HistInv /\ Ledger /\ SnapInv
  BY DEF MetricsInv
<1>b. UNCHANGED <<m, hist, pc, answer, rpc, resets, forgotten>>
  BY DEF StartSnapshot, SnapshotField
<1>c. HistInv' /\ Ledger'
  <2>1. HistInv'
    BY <1>a, <1>b DEF HistInv, HistTypes, Extremes
  <2>2. Ledger'
    BY <1>a, <1>b, SameSets DEF Ledger
  <2>3. QED
    BY <2>1, <2>2
<1>1. CASE StartSnapshot
  <2>1. spc' = 1 /\ snapshots' \in Nat /\ snap' = <<>>
    BY <1>1, <1>a DEF StartSnapshot, MetricsTypes
  <2>2. MetricsTypes'
    BY <1>a, <1>b, <2>1 DEF MetricsTypes
  <2>3. SnapInv'
    BY <2>1 DEF SnapInv, LatencyCoversSuccesses
  <2>4. QED
    BY <1>c, <2>2, <2>3 DEF MetricsInv
<1>2. CASE SnapshotField
  <2>1. PICK k \in 1..6 : k = spc
    BY <1>2, <1>a DEF SnapshotField, MetricsTypes
  <2>2. PICK x : /\ x = IF Fields[k] = "RequestLatency" THEN Stats ELSE m[Fields[k]]
                 /\ snap' = Append(snap, x)
    BY <1>2, <2>1 DEF SnapshotField
  <2>3. spc' = (IF k = 6 THEN 0 ELSE k + 1) /\ snapshots' = snapshots
    BY <1>2, <2>1, FieldOrder DEF SnapshotField
  <2>4. MetricsTypes'
    BY <1>a, <1>b, <2>3 DEF MetricsTypes
  <2>5. x \in Readings
    <3>1. CASE k = 5
      <4>1. /\ hist.count \in Nat /\ hist.sum \in Nat /\ hist.min \in Int
            /\ hist.max \in Nat /\ hist.buckets \in [1..10 -> Nat]
        BY <1>a DEF HistInv, HistTypes
      <4>2. hist.count > 0 => hist.sum \div hist.count \in Int
        BY <4>1
      <4>3. x = Stats
        BY <2>2, <3>1, FieldOrder
      <4>4. QED
        BY <4>1, <4>2, <4>3 DEF Stats, Readings
    <3>2. CASE k # 5
      <4>1. x = m[Fields[k]] /\ Fields[k] \in Counters \cup {"ActiveRequests"}
        BY <2>2, <3>2, FieldOrder
      <4>2. QED
        BY <1>a, <4>1 DEF MetricsTypes, Readings
    <3>3. QED
      BY <3>1, <3>2
  <2>6. /\ snap \in Seq(Readings) /\ Len(snap) = k - 1
        /\ snap' \in Seq(Readings) /\ Len(snap') = k /\ snap'[k] = x
        /\ \A j \in 1..k - 1 : snap'[j] = snap[j]
    <3>1. snap \in Seq(Readings) /\ Len(snap) = k - 1
      BY <1>a, <2>1 DEF SnapInv
    <3>2. QED
      BY <2>2, <2>5, <3>1
  <2>7. Cardinality(Unconfirmed) \in Nat /\ hist.count \in Nat
    BY <1>a, FS_CardinalityType DEF HistInv, HistTypes
  <2>8. ASSUME resets = 0, k >= 2
        PROVE  /\ snap'[2] \in Int
               /\ snap'[2] <= hist.count + Cardinality(Unconfirmed)
    <3>1. CASE k = 2
      <4>1. snap'[2] = m["RequestsSucceeded"]
        <5>1. Fields[k] = "RequestsSucceeded"
          BY <3>1, FieldOrder
        <5>2. QED
          BY <2>2, <2>6, <3>1, <5>1
      <4>2. QED
        BY <1>a, <2>8, <4>1, SuccessesCovered
    <3>2. CASE k > 2
      BY <1>a, <2>6, <2>8, <3>2 DEF SnapInv
    <3>3. QED
      BY <2>8, <3>1, <3>2
  <2>9. ASSUME resets = 0, k >= 5
        PROVE  snap'[2] <= snap'[5].count + Cardinality(Unconfirmed)
    <3>1. CASE k = 5
      <4>1. snap'[5] = Stats
        <5>1. Fields[k] = "RequestLatency"
          BY <3>1, FieldOrder
        <5>2. QED
          BY <2>2, <2>6, <3>1, <5>1
      <4>2. snap'[5].count = hist.count
        BY <4>1 DEF Stats
      <4>3. QED
        BY <2>8, <2>9, <4>2
    <3>2. CASE k = 6
      BY <1>a, <2>6, <2>9, <3>2 DEF SnapInv, LatencyCoversSuccesses
    <3>3. QED
      BY <2>9, <3>1, <3>2
  <2>10. SnapInv'
    <3>1. LatencyCoversSuccesses'
      BY <1>b, <2>6, <2>9 DEF LatencyCoversSuccesses
    <3>2. QED
      BY <1>b, <2>3, <2>6, <2>8, <3>1 DEF SnapInv
  <2>11. QED
    BY <1>c, <2>4, <2>10 DEF MetricsInv
<1>3. QED
  BY <1>1, <1>2

\* Every step keeps the invariant.
LEMMA MetricsStep == MetricsInv /\ [Next]_vars => MetricsInv'
<1> SUFFICES ASSUME MetricsInv, [Next]_vars PROVE MetricsInv'
  OBVIOUS
<1>a. MetricsTypes /\ HistInv /\ Ledger /\ SnapInv
  BY DEF MetricsInv
<1>1. ASSUME NEW c \in Calls, Call(c) PROVE MetricsInv'
  <2>1. UNCHANGED <<snap, spc, resets>>
    BY <1>1 DEF Call, CountSent, CountActive, SendFails, SendUnconfirmed,
       SendConfirmed, ContextDone, Answer, CountOutcome, Return, Counting
  <2>2. SnapInv'
    BY <1>1, <1>a, <2>1, CallHist, SnapFrame
  <2>3. QED
    BY <1>1, <1>a, <2>2, CallTypes, CallHist, CallLedger DEF MetricsInv
<1>2. CASE UNCHANGED vars
  <2>1. /\ UNCHANGED <<m, hist, pc, answer, rpc, resets, spc, snap>>
        /\ UNCHANGED <<snapshots, forgotten>>
    BY <1>2 DEF vars
  <2>2. HistInv'
    BY <1>a, <2>1 DEF HistInv, HistTypes, Extremes
  <2>3. Ledger'
    BY <1>a, <2>1, SameSets DEF Ledger
  <2>4. MetricsTypes'
    BY <1>a, <2>1 DEF MetricsTypes
  <2>5. SnapInv'
    BY <1>a, <2>1 DEF SnapInv, LatencyCoversSuccesses
  <2>6. QED
    BY <2>2, <2>3, <2>4, <2>5 DEF MetricsInv
<1>3. QED
  BY <1>1, <1>2, ResetStep, SnapshotStep DEF Next

\* Nothing is counted at the start.
LEMMA MetricsInit == Init => MetricsInv
<1> SUFFICES ASSUME Init PROVE MetricsInv
  OBVIOUS
<1>1. MetricsTypes
  BY DEF Init, MetricsTypes, States, Calls
<1>2. HistInv /\ hist.count = 0
  BY HistNew DEF Init, NewLatencyHistogram
<1>3. /\ UnderWay = {} /\ Sent = {} /\ Uncounted = {}
      /\ Answered = {} /\ Acked = {} /\ Done = {}
  BY DEF Init, UnderWay, Sent, Uncounted, Answered, Acked, Done, Past, Calls
<1>4. Cardinality({}) = 0
  BY FS_EmptySet
<1>5. Ledger
  BY <1>2, <1>3, <1>4 DEF Init, Ledger, Counters
<1>6. SnapInv
  BY DEF Init, SnapInv, LatencyCoversSuccesses
<1>7. QED
  BY <1>1, <1>2, <1>5, <1>6 DEF MetricsInv

\* What the invariant says of the state, in the terms of Metrics.
LEMMA MetricsInvImplies ==
    MetricsInv => /\ GaugeOffByReset /\ OutcomeCountedOnce
                  /\ LatencyCoversSuccesses /\ HistogramConsistent
<1> SUFFICES ASSUME MetricsInv
             PROVE  /\ GaugeOffByReset /\ OutcomeCountedOnce
                    /\ LatencyCoversSuccesses /\ HistogramConsistent
  OBVIOUS
<1>1. GaugeOffByReset
  BY DEF MetricsInv, Ledger, GaugeOffByReset
<1>2. OutcomeCountedOnce
  BY DEF MetricsInv, Ledger, OutcomeCountedOnce, Sent, Uncounted
<1>3. LatencyCoversSuccesses
  BY DEF MetricsInv, SnapInv
<1>4. HistogramConsistent
  BY HistConsistent DEF MetricsInv
<1>5. QED
  BY <1>1, <1>2, <1>3, <1>4

-----------------------------------------------------------------------------
\* ActiveRequests is off by exactly the requests that were under way when
\* Reset last set it, however requests, Reset and Snapshot interleave.
THEOREM GaugeOffByResetCorrect == Spec => []GaugeOffByReset
BY MetricsInit, MetricsStep, MetricsInvImplies, PTL DEF Spec

\* Until Reset is called, sendRequest and sendUnconfirmedRequest count every
\* request sent once more, except one whose channel was closed or whose answer
\* is of an unknown type.
THEOREM OutcomeCountedOnceCorrect == Spec => []OutcomeCountedOnce
BY MetricsInit, MetricsStep, MetricsInvImplies, PTL DEF Spec

\* Without Reset, no Snapshot has more successes of confirmed requests than
\* latencies, although it reads the fields one by one while requests count.
THEOREM LatencyCoversSuccessesCorrect == Spec => []LatencyCoversSuccesses
BY MetricsInit, MetricsStep, MetricsInvImplies, PTL DEF Spec

\* The latency histogram is consistent whenever its lock is free, for any
\* latencies and any resolution of the clock.
THEOREM HistogramConsistentCorrect == Spec => []HistogramConsistent
BY MetricsInit, MetricsStep, MetricsInvImplies, PTL DEF Spec

=============================================================================
