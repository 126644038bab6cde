----------------------------- MODULE MetricsProofs ----------------------------
(* Proofs about Metrics: for any number of lookups and scrapes, any buckets  *)
(* and whatever order the fetch_adds are seen in, every series is exact when *)
(* no lookup is being recorded, a scrape amid traffic is off by no more than *)
(* the lookups under way, and no counter goes back.                          *)
EXTENDS Metrics, FiniteSums, SequenceTheorems, TLAPS

\* What each of the lookups in S adds to a counter in all.
Share(c, S) ==
  [r \in Requests |-> IF r \in S /\ c \in Adds(outcome[r]) THEN Amount(r, c) ELSE 0]

\* Whether each of the lookups in S belongs to bucket j.
BucketShare(j, S) ==
  [r \in Requests |-> IF r \in S /\ setting.timing /\ BucketOf(elapsed[r]) = j THEN 1 ELSE 0]

Total(c, S) == SumFunctionOnSet(Share(c, S), Requests)
BucketTotal(j, S) == SumFunctionOnSet(BucketShare(j, S), Requests)

\* The lookups whose fetch_add of c has been seen, if they have one.
SeenBy(c) == {r \in Requests : stage[r] # "idle" /\ c \notin todo[r]}

\* A lookup has fetch_adds to come exactly while it is recorded.
Stages ==
  \A r \in Requests :
    /\ stage[r] = "recording" => todo[r] # {} /\ todo[r] \subseteq Adds(outcome[r])
    /\ stage[r] # "recording" => todo[r] = {}

\* The atomics are the sums of what has been seen.
CountersAreSums ==
  /\ \A c \in Scalars : counter[c] = Total(c, SeenBy(c))
  /\ \A j \in 1..Inf : bucket[j] = BucketTotal(j, SeenBy("bucket"))

\* A scrape shows no more than there is, and no less than the scrape before it.
ShownIsPast ==
  /\ \A c \in Scalars : shown[c] <= counter[c] /\ (load > 0 => last[c] <= shown[c])
  /\ \A j \in 1..Inf : shownBucket[j] <= bucket[j] /\ (load > 0 => lastBucket[j] <= shownBucket[j])

Loaded(c) == \E i \in DOMAIN LoadOrder : i < load /\ LoadOrder[i] = c
BucketLoaded(j) == FirstBucket + j - 1 < load

\* What a scrape has read covers every lookup that was done when it began.
ShownCovers ==
  load > 0 =>
    /\ scrapes < setting.scrapes
    /\ before \subseteq Done
    /\ \A c \in Scalars : Loaded(c) => Total(c, before) <= shown[c]
    /\ \A j \in 1..Inf : BucketLoaded(j) => BucketTotal(j, before) <= shownBucket[j]

MetricsIInv == TypeOK /\ Stages /\ CountersAreSums /\ ShownIsPast /\ ShownCovers

------------------------------------------------------------------------------
(* Shares *)

LEMMA SettingType ==
  ASSUME setting \in Settings
  PROVE  setting.default_value \in BOOLEAN /\ setting.timing \in BOOLEAN
         /\ setting.reorder \in BOOLEAN /\ setting.scrapes \in Nat
BY MetricsAssumption

\* record touches only the atomics there are, and buckets and latencies only if
\* it measures.
LEMMA AddsType ==
  ASSUME NEW o \in Outcomes
  PROVE  /\ Adds(o) \subseteq Scalars \cup {"bucket"} /\ Adds(o) # {}
         /\ "requests" \in Adds(o) /\ "bytes" \in Adds(o)
         /\ "hits" \in Adds(o) <=> o = "Hit"
         /\ "misses" \in Adds(o) <=> o # "Hit"
         /\ "defaults" \in Adds(o) <=> o = "Default"
         /\ "bucket" \in Adds(o) <=> setting.timing
         /\ "sum_nanos" \in Adds(o) <=> setting.timing
         /\ "timed" \in Adds(o) <=> setting.timing
BY DEF Adds, Scalars, Outcomes

LEMMA AmountType ==
  ASSUME NEW r \in Requests, NEW c, outcome[r] \in Outcomes, elapsed[r] \in Nat
  PROVE  Amount(r, c) \in Nat
<1>1. BodyLen[outcome[r]] \in Nat
  BY MetricsAssumption
<1>2. CASE c = "bytes"
  BY <1>1, <1>2 DEF Amount
<1>3. CASE c = "sum_nanos"
  BY <1>3 DEF Amount
<1>4. CASE c # "bytes" /\ c # "sum_nanos"
  BY <1>4 DEF Amount
<1> QED
  BY <1>2, <1>3, <1>4

LEMMA LatencyType ==
  ASSUME TypeOK, NEW r \in Requests
  PROVE  outcome[r] \in Outcomes /\ elapsed[r] \in Nat /\ method[r] \in {"GET", "HEAD"}
<1>1. /\ outcome \in [Requests -> Outcomes] /\ elapsed \in [Requests -> Latencies \cup {0}]
      /\ method \in [Requests -> {"GET", "HEAD"}]
  BY DEF TypeOK
<1>2. Latencies \cup {0} \subseteq Nat
  BY MetricsAssumption
<1>3. elapsed[r] \in Latencies \cup {0}
  BY <1>1
<1>4. elapsed[r] \in Nat
  BY <1>2, <1>3
<1> QED
  BY <1>1, <1>4

LEMMA ShareType ==
  ASSUME TypeOK, NEW c, NEW S
  PROVE  /\ \A r \in Requests : Share(c, S)[r] \in Nat
         /\ Total(c, S) \in Nat
<1>1. ASSUME NEW r \in Requests PROVE Share(c, S)[r] \in Nat
  BY LatencyType, AmountType DEF Share
<1> QED
  BY <1>1, SumType, MetricsAssumption DEF Total

LEMMA BucketShareType ==
  ASSUME NEW j, NEW S
  PROVE  /\ \A r \in Requests : BucketShare(j, S)[r] \in Nat
         /\ BucketTotal(j, S) \in Nat
<1>1. \A r \in Requests : BucketShare(j, S)[r] \in Nat
  BY DEF BucketShare
<1> QED
  BY <1>1, SumType, MetricsAssumption DEF BucketTotal

\* More lookups add more.
LEMMA TotalMonotonic ==
  ASSUME TypeOK, NEW c, NEW S, NEW T, S \subseteq T
  PROVE  Total(c, S) <= Total(c, T)
<1>1. \A r \in Requests : Share(c, S)[r] \in Nat /\ Share(c, T)[r] \in Nat
  BY ShareType
<1>2. ASSUME NEW r \in Requests PROVE Share(c, S)[r] <= Share(c, T)[r]
  BY <1>1 DEF Share
<1> QED
  BY <1>1, <1>2, SumMonotonic, MetricsAssumption DEF Total

LEMMA BucketTotalMonotonic ==
  ASSUME NEW j, NEW S, NEW T, S \subseteq T
  PROVE  BucketTotal(j, S) <= BucketTotal(j, T)
<1>1. \A r \in Requests : /\ BucketShare(j, S)[r] \in Nat /\ BucketShare(j, T)[r] \in Nat
                          /\ BucketShare(j, S)[r] <= BucketShare(j, T)[r]
  BY DEF BucketShare
<1> QED
  BY <1>1, SumMonotonic, MetricsAssumption DEF BucketTotal

\* The bucket of a latency is one there is.
LEMMA BucketOfType ==
  ASSUME NEW t \in Nat
  PROVE  /\ BucketOf(t) \in 1..Inf
         /\ \A i \in DOMAIN BUCKETS : t <= BUCKETS[i] <=> BucketOf(t) <= i
<1> DEFINE I == {i \in DOMAIN BUCKETS : t <= BUCKETS[i]}
<1>1. /\ BUCKETS \in Seq(Nat) /\ Len(BUCKETS) \in Nat /\ DOMAIN BUCKETS = 1..Len(BUCKETS)
      /\ \A i \in DOMAIN BUCKETS : BUCKETS[i] \in Nat
      /\ \A i, j \in DOMAIN BUCKETS : i < j => BUCKETS[i] < BUCKETS[j]
  BY MetricsAssumption
<1>2. CASE I = {}
  <2>1. BucketOf(t) = Inf
    BY <1>2 DEF BucketOf
  <2> QED
    BY <1>1, <1>2, <2>1 DEF Inf
<1>3. CASE I # {}
  <2>1. BucketOf(t) = Min(I)
    BY <1>3 DEF BucketOf
  <2>2. I \subseteq Nat
    BY <1>1
  <2>3. Min(I) \in I /\ \A i \in I : Min(I) <= i
    <3> HIDE DEF I
    <3> QED
      BY <1>3, <2>2, MinOfNats
  <2>4. BucketOf(t) \in DOMAIN BUCKETS /\ t <= BUCKETS[BucketOf(t)]
    BY <2>1, <2>3
  <2>5. ASSUME NEW i \in DOMAIN BUCKETS, BucketOf(t) <= i PROVE t <= BUCKETS[i]
    BY <1>1, <2>4, <2>5
  <2>6. ASSUME NEW i \in DOMAIN BUCKETS, t <= BUCKETS[i] PROVE BucketOf(t) <= i
    BY <2>1, <2>3, <2>6
  <2> QED
    BY <1>1, <2>4, <2>5, <2>6 DEF Inf
<1> QED
  BY <1>2, <1>3

\* What no lookup adds.
LEMMA NothingSeen ==
  ASSUME NEW c, NEW j
  PROVE  Total(c, {}) = 0 /\ BucketTotal(j, {}) = 0
<1>1. ASSUME NEW w, \A r \in Requests : w[r] = 0 PROVE SumFunctionOnSet(w, Requests) = 0
  <2>1. /\ \A r \in Requests : w[r] \in Nat
        /\ \A r \in Requests \ {} : w[r] = 0
        /\ {} \in SUBSET Requests /\ IsFiniteSet(Requests)
    BY <1>1, MetricsAssumption
  <2> QED
    BY <2>1, SumWithoutZeros, SumEmpty
<1>2. \A r \in Requests : Share(c, {})[r] = 0 /\ BucketShare(j, {})[r] = 0
  BY DEF Share, BucketShare
<1> QED
  BY <1>1, <1>2 DEF Total, BucketTotal

\* Where the elements of a concatenation come from.
LEMMA ConcatAt ==
  ASSUME NEW T, NEW s \in Seq(T), NEW t \in Seq(T)
  PROVE  /\ s \o t \in Seq(T) /\ Len(s \o t) = Len(s) + Len(t)
         /\ \A i \in 1..Len(s) : (s \o t)[i] = s[i]
         /\ \A i \in 1..Len(t) : (s \o t)[Len(s) + i] = t[i]
OBVIOUS

\* What render loads, in order: a counter or, in the middle, a bucket.
LEMMA LoadOrderType ==
  /\ Inf \in Nat \ {0} /\ Len(LoadOrder) = Inf + 7 /\ DOMAIN LoadOrder = 1..Inf + 7
  /\ \A i \in 1..Inf + 7 :
       /\ i \in 6..Inf + 5 <=> LoadOrder[i] = "bucket"
       /\ LoadOrder[i] # "bucket" => LoadOrder[i] \in Scalars
  /\ LoadOrder[1] = "requests" /\ LoadOrder[2] = "hits" /\ LoadOrder[3] = "misses"
  /\ LoadOrder[4] = "defaults" /\ LoadOrder[5] = "bytes"
  /\ LoadOrder[Inf + 6] = "sum_nanos" /\ LoadOrder[Inf + 7] = "timed"
<1> DEFINE T == Scalars \cup {"bucket"}
           a == <<"requests", "hits", "misses", "defaults", "bytes">>
           b == [i \in 1..Inf |-> "bucket"]
           d == <<"sum_nanos", "timed">>
<1>1. Inf \in Nat \ {0}
  BY MetricsAssumption DEF Inf
<1>2. a \in Seq(T) /\ Len(a) = 5 /\ a[1] = "requests" /\ a[2] = "hits" /\ a[3] = "misses"
      /\ a[4] = "defaults" /\ a[5] = "bytes"
  BY DEF Scalars
<1>3. b \in Seq(T) /\ Len(b) = Inf /\ \A i \in 1..Inf : b[i] = "bucket"
  BY <1>1
<1>4. d \in Seq(T) /\ Len(d) = 2 /\ d[1] = "sum_nanos" /\ d[2] = "timed"
  BY DEF Scalars
<1>5. LoadOrder = (a \o b) \o d
  BY DEF LoadOrder
<1> HIDE DEF T, a, b, d
<1>6. /\ a \o b \in Seq(T) /\ Len(a \o b) = Inf + 5
      /\ \A i \in 1..5 : (a \o b)[i] = a[i]
      /\ \A i \in 6..Inf + 5 : (a \o b)[i] = "bucket"
  <2>1. /\ a \o b \in Seq(T) /\ Len(a \o b) = Len(a) + Len(b)
        /\ \A i \in 1..Len(a) : (a \o b)[i] = a[i]
        /\ \A i \in 1..Len(b) : (a \o b)[Len(a) + i] = b[i]
    <3>1. a \in Seq(T) /\ b \in Seq(T)
      BY <1>2, <1>3
    <3> QED
      BY <3>1, ConcatAt
  <2>2. ASSUME NEW i \in 6..Inf + 5 PROVE (a \o b)[i] = "bucket"
    <3>1. i - 5 \in 1..Inf /\ 5 + (i - 5) = i
      BY <1>1
    <3>2. (a \o b)[5 + (i - 5)] = b[i - 5]
      BY <1>2, <1>3, <2>1, <3>1
    <3> QED
      BY <1>3, <3>1, <3>2
  <2>3. Len(a \o b) = Inf + 5
    BY <1>1, <1>2, <1>3, <2>1
  <2> QED
    BY <1>2, <2>1, <2>2, <2>3
<1> DEFINE ab == a \o b
<1>7. /\ ab \in Seq(T) /\ Len(ab) = Inf + 5
      /\ \A i \in 1..5 : ab[i] = a[i]
      /\ \A i \in 6..Inf + 5 : ab[i] = "bucket"
  BY <1>6
<1>8. LoadOrder = ab \o d
  BY <1>5
<1> HIDE DEF ab
<1>9. /\ Len(LoadOrder) = Inf + 7 /\ DOMAIN LoadOrder = 1..Inf + 7
      /\ \A i \in 1..Inf + 5 : LoadOrder[i] = ab[i]
      /\ LoadOrder[Inf + 6] = d[1] /\ LoadOrder[Inf + 7] = d[2]
  <2>1. /\ LoadOrder \in Seq(T) /\ Len(LoadOrder) = Len(ab) + Len(d)
        /\ \A i \in 1..Len(ab) : LoadOrder[i] = ab[i]
        /\ \A i \in 1..Len(d) : LoadOrder[Len(ab) + i] = d[i]
    <3>1. ab \in Seq(T) /\ d \in Seq(T)
      BY <1>4, <1>7
    <3>2. /\ ab \o d \in Seq(T) /\ Len(ab \o d) = Len(ab) + Len(d)
          /\ \A i \in 1..Len(ab) : (ab \o d)[i] = ab[i]
          /\ \A i \in 1..Len(d) : (ab \o d)[Len(ab) + i] = d[i]
      BY <3>1, ConcatAt
    <3> QED
      BY <1>8, <3>2
  <2>2. Inf + 5 + 1 = Inf + 6 /\ Inf + 5 + 2 = Inf + 7 /\ 1 \in 1..2 /\ 2 \in 1..2
    BY <1>1
  <2>3. LoadOrder[Inf + 5 + 1] = d[1] /\ LoadOrder[Inf + 5 + 2] = d[2]
    <3>1. \A i \in 1..2 : LoadOrder[Len(ab) + i] = d[i]
      BY <1>4, <2>1
    <3> QED
      BY <1>7, <2>2, <3>1
  <2>4. Len(LoadOrder) = Inf + 7
    BY <1>1, <1>4, <1>7, <2>1
  <2>5. DOMAIN LoadOrder = 1..Inf + 7
    BY <2>1, <2>4
  <2>6. \A i \in 1..Inf + 5 : LoadOrder[i] = ab[i]
    BY <1>7, <2>1
  <2> QED
    BY <2>2, <2>3, <2>4, <2>5, <2>6
<1>10. ASSUME NEW i \in 1..Inf + 7
       PROVE  /\ i \in 6..Inf + 5 <=> LoadOrder[i] = "bucket"
              /\ LoadOrder[i] # "bucket" => LoadOrder[i] \in Scalars
  <2>1. CASE i \in 1..5
    <3>1. i = 1 \/ i = 2 \/ i = 3 \/ i = 4 \/ i = 5
      BY <2>1
    <3>2. LoadOrder[i] = a[i] /\ i \notin 6..Inf + 5
      BY <1>1, <1>7, <1>9, <2>1
    <3> QED
      BY <1>2, <3>1, <3>2 DEF Scalars
  <2>2. CASE i \in 6..Inf + 5
    BY <1>1, <1>7, <1>9, <2>2
  <2>3. CASE i = Inf + 6 \/ i = Inf + 7
    BY <1>1, <1>4, <1>9, <2>3 DEF Scalars
  <2> QED
    BY <1>1, <2>1, <2>2, <2>3
<1>11. \A i \in 1..5 : LoadOrder[i] = a[i]
  BY <1>1, <1>7, <1>9
<1> QED
  BY <1>1, <1>2, <1>4, <1>9, <1>10, <1>11

------------------------------------------------------------------------------
(* The invariant *)

LEMMA MetricsInit == Init => MetricsIInv
<1> SUFFICES ASSUME Init PROVE MetricsIInv
  OBVIOUS
<1>1. TypeOK
  BY MetricsAssumption, SettingType DEF Init, TypeOK, Zero, ZeroBucket, Outcomes
<1>2. SeenBy("bucket") = {} /\ \A c \in Scalars : SeenBy(c) = {}
  BY DEF Init, SeenBy
<1>3. CountersAreSums
  BY <1>2, NothingSeen DEF Init, CountersAreSums, Zero, ZeroBucket
<1> QED
  BY <1>1, <1>3 DEF Init, MetricsIInv, Stages, ShownIsPast, ShownCovers, Zero, ZeroBucket

\* Lookups that are done have been seen, and those that have been seen have begun.
LEMMA DoneSeenBegun ==
  ASSUME MetricsIInv, NEW c
  PROVE  Done \subseteq SeenBy(c) /\ SeenBy(c) \subseteq Begun
<1>1. ASSUME NEW r \in Requests, stage[r] = "done" PROVE todo[r] = {}
  BY <1>1 DEF MetricsIInv, Stages
<1>2. \A r \in Requests : stage[r] \in {"idle", "recording", "done"}
  BY DEF MetricsIInv, TypeOK
<1> QED
  BY <1>1, <1>2 DEF Done, Begun, Requested, SeenBy

\* A lookup that begins changes no total: not its own contribution, as none of its
\* fetch_adds has been seen, and not that of others.
LEMMA LookupKeeps ==
  ASSUME MetricsIInv, TypeOK', NEW r \in Requests, Lookup(r)
  PROVE  /\ \A c : Total(c, SeenBy(c))' = Total(c, SeenBy(c))
         /\ \A j : BucketTotal(j, SeenBy("bucket"))' = BucketTotal(j, SeenBy("bucket"))
         /\ load > 0 => \A c : Total(c, before)' = Total(c, before)
         /\ load > 0 => \A j : BucketTotal(j, before)' = BucketTotal(j, before)
<1>1. /\ stage[r] = "idle" /\ setting' = setting /\ before' = before
      /\ todo'[r] = Adds(outcome'[r])
      /\ \A q \in Requests \ {r} :
           /\ outcome'[q] = outcome[q] /\ method'[q] = method[q] /\ elapsed'[q] = elapsed[q]
           /\ todo'[q] = todo[q] /\ stage'[q] = stage[q]
  BY DEF Lookup, lookupVars, scrapeVars, MetricsIInv, TypeOK
<1>2. \A o : Adds(o)' = Adds(o)
  BY <1>1 DEF Adds
<1>3. \A q \in Requests \ {r} : \A c : Amount(q, c)' = Amount(q, c)
  BY <1>1 DEF Amount
<1>4. load > 0 => r \notin before
  BY <1>1 DEF MetricsIInv, ShownCovers, Done, Requested
<1>5. /\ IsFiniteSet(Requests)
      /\ \A c, S : \A q \in Requests : Share(c, S)[q] \in Nat
      /\ \A j, S : \A q \in Requests : BucketShare(j, S)[q] \in Nat
  BY MetricsAssumption, ShareType, BucketShareType DEF MetricsIInv
<1>6. ASSUME NEW c PROVE Total(c, SeenBy(c))' = Total(c, SeenBy(c))
  <2> DEFINE v == Share(c, SeenBy(c))'
             w == Share(c, SeenBy(c))
  <2>1. ASSUME NEW q \in Requests PROVE v[q] = w[q]
    <3>1. CASE q = r
      BY <1>1, <1>2, <3>1 DEF Share, SeenBy
    <3>2. CASE q # r
      BY <1>1, <1>2, <1>3, <3>2 DEF Share, SeenBy
    <3> QED
      BY <3>1, <3>2
  <2>2. \A q \in Requests : w[q] \in Nat
    BY <1>5
  <2> HIDE DEF v, w
  <2>3. SumFunctionOnSet(v, Requests) = SumFunctionOnSet(w, Requests)
    BY <1>5, <2>1, <2>2, SumSame
  <2> QED
    BY <2>3 DEF v, w, Total
<1>7. ASSUME NEW j PROVE BucketTotal(j, SeenBy("bucket"))' = BucketTotal(j, SeenBy("bucket"))
  <2> DEFINE v == BucketShare(j, SeenBy("bucket"))'
             w == BucketShare(j, SeenBy("bucket"))
  <2>1. ASSUME NEW q \in Requests PROVE v[q] = w[q]
    <3>1. CASE q = r
      <4>1. outcome'[r] \in Outcomes
        BY DEF TypeOK
      <4>2. "bucket" \in todo'[r] <=> setting.timing
        BY <1>1, <4>1, AddsType
      <4> QED
        BY <1>1, <3>1, <4>2 DEF BucketShare, SeenBy
    <3>2. CASE q # r
      BY <1>1, <3>2 DEF BucketShare, SeenBy
    <3> QED
      BY <3>1, <3>2
  <2>2. \A q \in Requests : w[q] \in Nat
    BY <1>5
  <2> HIDE DEF v, w
  <2>3. SumFunctionOnSet(v, Requests) = SumFunctionOnSet(w, Requests)
    BY <1>5, <2>1, <2>2, SumSame
  <2> QED
    BY <2>3 DEF v, w, BucketTotal
<1>8. ASSUME load > 0, NEW c PROVE Total(c, before)' = Total(c, before)
  <2> DEFINE v == Share(c, before)'
             w == Share(c, before)
  <2>1. \A q \in Requests : v[q] = w[q]
    BY <1>1, <1>2, <1>3, <1>4, <1>8 DEF Share
  <2>2. \A q \in Requests : w[q] \in Nat
    BY <1>5
  <2> HIDE DEF v, w
  <2>3. SumFunctionOnSet(v, Requests) = SumFunctionOnSet(w, Requests)
    BY <1>5, <2>1, <2>2, SumSame
  <2> QED
    BY <2>3 DEF v, w, Total
<1>9. ASSUME load > 0, NEW j PROVE BucketTotal(j, before)' = BucketTotal(j, before)
  <2> DEFINE v == BucketShare(j, before)'
             w == BucketShare(j, before)
  <2>1. \A q \in Requests : v[q] = w[q]
    BY <1>1, <1>4, <1>9 DEF BucketShare
  <2>2. \A q \in Requests : w[q] \in Nat
    BY <1>5
  <2> HIDE DEF v, w
  <2>3. SumFunctionOnSet(v, Requests) = SumFunctionOnSet(w, Requests)
    BY <1>5, <2>1, <2>2, SumSame
  <2> QED
    BY <2>3 DEF v, w, BucketTotal
<1> QED
  BY <1>6, <1>7, <1>8, <1>9

LEMMA LookupTypes ==
  ASSUME TypeOK, NEW r \in Requests, Lookup(r)
  PROVE  TypeOK'
<1>1. PICK o \in {"Hit", IF setting.default_value THEN "Default" ELSE "Miss"},
           m \in {"GET", "HEAD"}, t \in IF setting.timing THEN Latencies ELSE {0} :
        /\ outcome' = [outcome EXCEPT ![r] = o]
        /\ method' = [method EXCEPT ![r] = m]
        /\ elapsed' = [elapsed EXCEPT ![r] = t]
        /\ todo' = [todo EXCEPT ![r] = Adds(o)]
  BY DEF Lookup
<1>2. o \in Outcomes /\ t \in Latencies \cup {0} /\ Adds(o) \subseteq Scalars \cup {"bucket"}
  BY AddsType DEF Outcomes
<1>3. /\ stage' = [stage EXCEPT ![r] = "recording"]
      /\ UNCHANGED <<setting, counter, bucket, load, shown, shownBucket, last, lastBucket, scrapes, before>>
  BY DEF Lookup, scrapeVars
<1>4. outcome' \in [Requests -> Outcomes]
  BY <1>1, <1>2 DEF TypeOK
<1>5. method' \in [Requests -> {"GET", "HEAD"}]
  BY <1>1 DEF TypeOK
<1>6. elapsed' \in [Requests -> Latencies \cup {0}]
  BY <1>1, <1>2 DEF TypeOK
<1>7. todo' \in [Requests -> SUBSET (Scalars \cup {"bucket"})]
  BY <1>1, <1>2 DEF TypeOK
<1>8. stage' \in [Requests -> {"idle", "recording", "done"}]
  BY <1>3 DEF TypeOK
<1> QED
  BY <1>3, <1>4, <1>5, <1>6, <1>7, <1>8 DEF TypeOK

LEMMA LookupStep ==
  ASSUME MetricsIInv, NEW r \in Requests, Lookup(r)
  PROVE  MetricsIInv'
<1>1. TypeOK'
  BY LookupTypes DEF MetricsIInv
<1>2. /\ stage[r] = "idle"
      /\ stage' = [stage EXCEPT ![r] = "recording"]
      /\ todo'[r] = Adds(outcome'[r])
      /\ \A q \in Requests \ {r} :
           outcome'[q] = outcome[q] /\ todo'[q] = todo[q] /\ stage'[q] = stage[q]
      /\ UNCHANGED <<setting, counter, bucket, load, shown, shownBucket, last, lastBucket, scrapes, before>>
  BY DEF Lookup, scrapeVars, MetricsIInv, TypeOK
<1>3. Stages'
  <2>1. \A o : Adds(o)' = Adds(o)
    BY <1>2 DEF Adds
  <2>2. outcome'[r] \in Outcomes /\ stage'[r] = "recording"
    BY <1>1, <1>2 DEF TypeOK, MetricsIInv
  <2>3. todo'[r] # {}
    BY <1>2, <2>2, AddsType
  <2> QED
    BY <1>2, <2>1, <2>2, <2>3 DEF MetricsIInv, Stages
<1>4. CountersAreSums'
  <2>1. /\ \A c : Total(c, SeenBy(c))' = Total(c, SeenBy(c))
        /\ \A j : BucketTotal(j, SeenBy("bucket"))' = BucketTotal(j, SeenBy("bucket"))
    BY <1>1, LookupKeeps
  <2> QED
    BY <1>2, <2>1 DEF MetricsIInv, CountersAreSums
<1>5. ShownIsPast'
  BY <1>2 DEF MetricsIInv, ShownIsPast
<1>6. ShownCovers'
  <2> SUFFICES ASSUME load > 0 PROVE ShownCovers'
    BY <1>2 DEF ShownCovers
  <2>1. before' \subseteq Done'
    BY <1>2 DEF MetricsIInv, ShownCovers, Done, Requested
  <2>2. /\ \A c : Total(c, before)' = Total(c, before)
        /\ \A j : BucketTotal(j, before)' = BucketTotal(j, before)
    BY <1>1, LookupKeeps
  <2>3. (\A c : Loaded(c)' <=> Loaded(c)) /\ (\A j : BucketLoaded(j)' <=> BucketLoaded(j))
    BY <1>2 DEF Loaded, BucketLoaded
  <2> QED
    BY <1>2, <2>1, <2>2, <2>3 DEF MetricsIInv, ShownCovers
<1> QED
  BY <1>1, <1>3, <1>4, <1>5, <1>6 DEF MetricsIInv

\* A fetch_add had not been seen before, and changes nothing about the lookups but
\* what has been seen of this one.
LEMMA RecordFrame ==
  ASSUME MetricsIInv, NEW r \in Requests, NEW c \in todo[r], Record(r, c)
  PROVE  /\ c \in Adds(outcome[r]) /\ c \in Scalars \cup {"bucket"}
         /\ \A d, q : Amount(q, d)' = Amount(q, d)
         /\ \A o : Adds(o)' = Adds(o)
         /\ r \notin SeenBy(c) /\ SeenBy(c)' = SeenBy(c) \cup {r}
         /\ \A d : d # c => SeenBy(d)' = SeenBy(d)
         /\ Done \subseteq Done'
<1>1. /\ stage[r] = "recording" /\ todo' = [todo EXCEPT ![r] = @ \ {c}]
      /\ stage' = [stage EXCEPT ![r] = IF todo[r] = {c} THEN "done" ELSE @]
      /\ UNCHANGED <<setting, outcome, method, elapsed>>
  BY DEF Record
<1>2. /\ todo \in [Requests -> SUBSET (Scalars \cup {"bucket"})]
      /\ stage \in [Requests -> {"idle", "recording", "done"}]
      /\ todo[r] \subseteq Adds(outcome[r])
  BY <1>1 DEF MetricsIInv, TypeOK, Stages
<1>3. /\ stage'[r] \in {"recording", "done"} /\ todo'[r] = todo[r] \ {c}
      /\ \A q \in Requests \ {r} : stage'[q] = stage[q] /\ todo'[q] = todo[q]
  BY <1>1, <1>2
<1>4. r \notin SeenBy(c) /\ SeenBy(c)' = SeenBy(c) \cup {r}
  BY <1>1, <1>3 DEF SeenBy
<1>5. ASSUME NEW d, d # c PROVE SeenBy(d)' = SeenBy(d)
  BY <1>1, <1>3, <1>5 DEF SeenBy
<1>6. Done \subseteq Done'
  BY <1>1, <1>3 DEF Done, Requested
<1>7. (\A d, q : Amount(q, d)' = Amount(q, d)) /\ \A o : Adds(o)' = Adds(o)
  BY <1>1 DEF Amount, Adds
<1> QED
  BY <1>2, <1>4, <1>5, <1>6, <1>7

\* What has been seen of counter d grows by what this lookup adds to it.
LEMMA RecordCounter ==
  ASSUME MetricsIInv, NEW r \in Requests, NEW c \in todo[r], Record(r, c), NEW d
  PROVE  Total(d, SeenBy(d))' = Total(d, SeenBy(d)) + (IF d = c THEN Amount(r, c) ELSE 0)
<1> DEFINE v == Share(d, SeenBy(d))'
           w == Share(d, SeenBy(d))
<1>1. /\ c \in Adds(outcome[r]) /\ outcome' = outcome
      /\ \A q : \A x : Amount(q, x)' = Amount(q, x)
      /\ \A o : Adds(o)' = Adds(o)
      /\ r \notin SeenBy(c) /\ SeenBy(c)' = SeenBy(c) \cup {r}
      /\ \A x : x # c => SeenBy(x)' = SeenBy(x)
  BY RecordFrame DEF Record
<1>2. IsFiniteSet(Requests) /\ \A q \in Requests : w[q] \in Nat
  BY MetricsAssumption, ShareType DEF MetricsIInv
<1>3. Amount(r, c) \in Nat
  BY LatencyType, AmountType DEF MetricsIInv
<1>4. CASE d = c
  <2>1. v[r] = w[r] + Amount(r, c)
    BY <1>1, <1>3, <1>4 DEF Share
  <2>2. \A q \in Requests \ {r} : v[q] = w[q]
    BY <1>1, <1>4 DEF Share
  <2> HIDE DEF v, w
  <2>3. SumFunctionOnSet(v, Requests) = SumFunctionOnSet(w, Requests) + Amount(r, c)
    BY <1>2, <1>3, <2>1, <2>2, SumGrows
  <2> QED
    BY <1>4, <2>3 DEF v, w, Total
<1>5. CASE d # c
  <2>1. \A q \in Requests : v[q] = w[q]
    BY <1>1, <1>5 DEF Share
  <2> HIDE DEF v, w
  <2>2. SumFunctionOnSet(v, Requests) = SumFunctionOnSet(w, Requests)
    BY <1>2, <2>1, SumSame
  <2>3. SumFunctionOnSet(w, Requests) \in Nat
    BY <1>2, SumType
  <2> QED
    BY <1>5, <2>2, <2>3 DEF v, w, Total
<1> QED
  BY <1>4, <1>5

\* What has been seen of bucket j grows by one if this is the lookup's bucket.
LEMMA RecordBucket ==
  ASSUME MetricsIInv, NEW r \in Requests, NEW c \in todo[r], Record(r, c), NEW j
  PROVE  BucketTotal(j, SeenBy("bucket"))'
           = BucketTotal(j, SeenBy("bucket"))
               + (IF c = "bucket" /\ BucketOf(elapsed[r]) = j THEN 1 ELSE 0)
<1> DEFINE v == BucketShare(j, SeenBy("bucket"))'
           w == BucketShare(j, SeenBy("bucket"))
<1>1. /\ c \in Adds(outcome[r]) /\ elapsed' = elapsed /\ setting' = setting
      /\ r \notin SeenBy(c) /\ SeenBy(c)' = SeenBy(c) \cup {r}
      /\ \A x : x # c => SeenBy(x)' = SeenBy(x)
  BY RecordFrame DEF Record
<1>2. IsFiniteSet(Requests) /\ \A q \in Requests : w[q] \in Nat
  BY MetricsAssumption, BucketShareType
<1>3. c = "bucket" => setting.timing
  BY <1>1, LatencyType, AddsType DEF MetricsIInv
<1>4. CASE c = "bucket" /\ BucketOf(elapsed[r]) = j
  <2>1. v[r] = w[r] + 1
    BY <1>1, <1>3, <1>4 DEF BucketShare
  <2>2. \A q \in Requests \ {r} : v[q] = w[q]
    BY <1>1, <1>4 DEF BucketShare
  <2> HIDE DEF v, w
  <2>3. SumFunctionOnSet(v, Requests) = SumFunctionOnSet(w, Requests) + 1
    BY <1>2, <2>1, <2>2, SumGrows
  <2> QED
    BY <1>4, <2>3 DEF v, w, BucketTotal
<1>5. CASE ~(c = "bucket" /\ BucketOf(elapsed[r]) = j)
  <2>1. \A q \in Requests : v[q] = w[q]
    BY <1>1, <1>5 DEF BucketShare
  <2> HIDE DEF v, w
  <2>2. SumFunctionOnSet(v, Requests) = SumFunctionOnSet(w, Requests)
    BY <1>2, <2>1, SumSame
  <2>3. SumFunctionOnSet(w, Requests) \in Nat
    BY <1>2, SumType
  <2> QED
    BY <1>5, <2>2, <2>3 DEF v, w, BucketTotal
<1> QED
  BY <1>4, <1>5

LEMMA RecordStep ==
  ASSUME MetricsIInv, NEW r \in Requests, NEW c \in todo[r], Record(r, c)
  PROVE  MetricsIInv'
<1>1. /\ stage[r] = "recording"
      /\ todo' = [todo EXCEPT ![r] = @ \ {c}]
      /\ stage' = [stage EXCEPT ![r] = IF todo[r] = {c} THEN "done" ELSE @]
      /\ UNCHANGED <<setting, outcome, method, elapsed, load, shown, shownBucket, last, lastBucket, scrapes, before>>
  BY DEF Record, scrapeVars
<1>2. /\ \A d \in Scalars : counter'[d] = counter[d] + (IF d = c THEN Amount(r, c) ELSE 0)
      /\ counter' \in [Scalars -> Nat]
  <2>1. counter \in [Scalars -> Nat] /\ "bucket" \notin Scalars
    BY DEF MetricsIInv, TypeOK, Scalars
  <2>2. Amount(r, c) \in Nat
    BY LatencyType, AmountType DEF MetricsIInv
  <2>3. CASE c = "bucket"
    BY <2>1, <2>3 DEF Record
  <2>4. CASE c # "bucket"
    <3>1. c \in Scalars
      BY <2>4, RecordFrame
    <3>2. counter' = [counter EXCEPT ![c] = @ + Amount(r, c)]
      BY <2>4 DEF Record
    <3> QED
      BY <2>1, <2>2, <3>1, <3>2
  <2> QED
    BY <2>3, <2>4
<1>3. /\ \A j \in 1..Inf : bucket'[j] = bucket[j] + (IF c = "bucket" /\ BucketOf(elapsed[r]) = j THEN 1 ELSE 0)
      /\ bucket' \in [1..Inf -> Nat]
  <2>1. bucket \in [1..Inf -> Nat]
    BY DEF MetricsIInv, TypeOK
  <2>2. CASE c = "bucket"
    <3>1. bucket' = [bucket EXCEPT ![BucketOf(elapsed[r])] = @ + 1]
      BY <2>2 DEF Record
    <3>2. BucketOf(elapsed[r]) \in 1..Inf
      BY LatencyType, BucketOfType DEF MetricsIInv
    <3> QED
      BY <2>1, <2>2, <3>1, <3>2
  <2>3. CASE c # "bucket"
    BY <2>1, <2>3 DEF Record
  <2> QED
    BY <2>2, <2>3
<1>4. TypeOK'
  <2>1. todo' \in [Requests -> SUBSET (Scalars \cup {"bucket"})]
    BY <1>1 DEF MetricsIInv, TypeOK
  <2>2. stage' \in [Requests -> {"idle", "recording", "done"}]
    BY <1>1 DEF MetricsIInv, TypeOK
  <2> QED
    BY <1>1, <1>2, <1>3, <2>1, <2>2 DEF MetricsIInv, TypeOK
<1>5. Stages'
  <2>1. \A o : Adds(o)' = Adds(o)
    BY RecordFrame
  <2>2. /\ todo \in [Requests -> SUBSET (Scalars \cup {"bucket"})]
        /\ stage \in [Requests -> {"idle", "recording", "done"}]
    BY DEF MetricsIInv, TypeOK
  <2>3. todo[r] # {} /\ todo[r] \subseteq Adds(outcome[r])
    BY <1>1 DEF MetricsIInv, Stages
  <2>4. todo'[r] = todo[r] \ {c} /\ stage'[r] = IF todo[r] = {c} THEN "done" ELSE "recording"
    BY <1>1, <2>2
  <2>5. \A q \in Requests \ {r} : todo'[q] = todo[q] /\ stage'[q] = stage[q]
    BY <1>1, <2>2
  <2> SUFFICES ASSUME NEW q \in Requests
               PROVE  /\ stage'[q] = "recording" => todo'[q] # {} /\ todo'[q] \subseteq Adds(outcome[q])
                      /\ stage'[q] # "recording" => todo'[q] = {}
    BY <1>1, <2>1 DEF Stages
  <2>6. CASE q = r
    BY <2>3, <2>4, <2>6
  <2>7. CASE q # r
    BY <2>5, <2>7 DEF MetricsIInv, Stages
  <2> QED
    BY <2>6, <2>7
<1>6. CountersAreSums'
  <2>1. ASSUME NEW d \in Scalars PROVE counter'[d] = Total(d, SeenBy(d))'
    BY <1>2, RecordCounter DEF MetricsIInv, CountersAreSums
  <2>2. ASSUME NEW j \in 1..Inf PROVE bucket'[j] = BucketTotal(j, SeenBy("bucket"))'
    BY <1>3, RecordBucket DEF MetricsIInv, CountersAreSums
  <2> QED
    BY <2>1, <2>2 DEF CountersAreSums, Inf
<1>7. ShownIsPast'
  <2>1. ASSUME NEW d \in Scalars PROVE counter[d] <= counter'[d] /\ counter[d] \in Nat /\ counter'[d] \in Nat /\ shown[d] \in Nat
    <3>1. Amount(r, c) \in Nat
      BY LatencyType, AmountType DEF MetricsIInv
    <3>2. counter[d] \in Nat /\ shown[d] \in Nat
      BY DEF MetricsIInv, TypeOK
    <3> QED
      BY <1>2, <3>1, <3>2
  <2>2. ASSUME NEW j \in 1..Inf PROVE bucket[j] <= bucket'[j] /\ bucket[j] \in Nat /\ bucket'[j] \in Nat /\ shownBucket[j] \in Nat
    <3>1. bucket[j] \in Nat /\ shownBucket[j] \in Nat
      BY DEF MetricsIInv, TypeOK
    <3> QED
      BY <1>3, <3>1
  <2>3. ASSUME NEW d \in Scalars PROVE shown'[d] <= counter'[d] /\ (load' > 0 => last'[d] <= shown'[d])
    BY <1>1, <2>1 DEF MetricsIInv, ShownIsPast
  <2>4. ASSUME NEW j \in 1..Inf PROVE shownBucket'[j] <= bucket'[j] /\ (load' > 0 => lastBucket'[j] <= shownBucket'[j])
    BY <1>1, <2>2 DEF MetricsIInv, ShownIsPast
  <2> QED
    BY <2>3, <2>4 DEF ShownIsPast, Inf
<1>8. ShownCovers'
  <2>1. /\ \A d : Total(d, before)' = Total(d, before)
        /\ \A j : BucketTotal(j, before)' = BucketTotal(j, before)
    <3>1. (\A q : \A x : Amount(q, x)' = Amount(q, x)) /\ \A o : Adds(o)' = Adds(o)
      BY RecordFrame
    <3> QED
      BY <1>1, <3>1 DEF Total, Share, BucketTotal, BucketShare
  <2>2. (\A d : Loaded(d)' <=> Loaded(d)) /\ (\A j : BucketLoaded(j)' <=> BucketLoaded(j))
    BY <1>1 DEF Loaded, BucketLoaded
  <2>3. Done \subseteq Done'
    BY RecordFrame
  <2> QED
    BY <1>1, <2>1, <2>2, <2>3 DEF MetricsIInv, ShownCovers
<1> QED
  BY <1>4, <1>5, <1>6, <1>7, <1>8 DEF MetricsIInv

LEMMA ScrapeStartStep == MetricsIInv /\ ScrapeStart => MetricsIInv'
<1> SUFFICES ASSUME MetricsIInv, ScrapeStart PROVE MetricsIInv'
  OBVIOUS
<1>1. /\ load = 0 /\ load' = 1 /\ scrapes < setting.scrapes
      /\ last' = shown /\ lastBucket' = shownBucket /\ before' = Done
      /\ UNCHANGED <<setting, outcome, method, elapsed, stage, todo, counter, bucket, shown, shownBucket, scrapes>>
  BY DEF ScrapeStart, lookupVars
<1>2. TypeOK'
  <2>1. 1 \in 0..Len(LoadOrder) + 1
    BY LoadOrderType
  <2>2. Done \subseteq Requests
    BY DEF Done, Requested
  <2> QED
    BY <1>1, <2>1, <2>2 DEF MetricsIInv, TypeOK
<1>3. Stages' /\ CountersAreSums'
  <2>1. /\ \A c : Total(c, SeenBy(c))' = Total(c, SeenBy(c))
        /\ \A j : BucketTotal(j, SeenBy("bucket"))' = BucketTotal(j, SeenBy("bucket"))
    BY <1>1 DEF Total, Share, BucketTotal, BucketShare, SeenBy, Amount, Adds
  <2> QED
    BY <1>1, <2>1 DEF MetricsIInv, Stages, CountersAreSums, Adds
<1>4. ShownIsPast'
  <2>1. ASSUME NEW c \in Scalars PROVE shown'[c] <= counter'[c] /\ last'[c] <= shown'[c]
    BY <1>1 DEF MetricsIInv, TypeOK, ShownIsPast
  <2>2. ASSUME NEW j \in 1..Inf PROVE shownBucket'[j] <= bucket'[j] /\ lastBucket'[j] <= shownBucket'[j]
    <3>1. shownBucket[j] \in Nat
      BY DEF MetricsIInv, TypeOK
    <3>2. shownBucket[j] <= bucket[j]
      BY DEF MetricsIInv, ShownIsPast
    <3> QED
      BY <1>1, <3>1, <3>2
  <2> QED
    BY <2>1, <2>2 DEF ShownIsPast, Inf
<1>5. ShownCovers'
  <2>1. \A c : ~Loaded(c)'
    BY <1>1, LoadOrderType DEF Loaded
  <2>2. \A j \in 1..Inf : ~BucketLoaded(j)'
    BY <1>1, LoadOrderType DEF BucketLoaded, FirstBucket
  <2>3. before' \subseteq Done'
    BY <1>1 DEF Done, Requested
  <2> QED
    BY <1>1, <2>1, <2>2, <2>3 DEF ShownCovers
<1> QED
  BY <1>2, <1>3, <1>4, <1>5 DEF MetricsIInv

LEMMA ScrapeEndStep == MetricsIInv /\ ScrapeEnd => MetricsIInv'
<1> SUFFICES ASSUME MetricsIInv, ScrapeEnd PROVE MetricsIInv'
  OBVIOUS
<1>1. /\ load = Len(LoadOrder) + 1 /\ load' = 0 /\ scrapes' = scrapes + 1
      /\ UNCHANGED <<setting, outcome, method, elapsed, stage, todo, counter, bucket, shown, shownBucket,
                     last, lastBucket, before>>
  BY DEF ScrapeEnd, lookupVars, Rendered
<1>2. TypeOK'
  <2>1. load > 0
    BY <1>1, LoadOrderType
  <2>2. scrapes < setting.scrapes /\ scrapes \in 0..setting.scrapes /\ setting.scrapes \in Nat
    BY <2>1, SettingType DEF MetricsIInv, TypeOK, ShownCovers
  <2>3. scrapes' \in 0..setting'.scrapes
    BY <1>1, <2>2
  <2>4. 0 \in 0..Len(LoadOrder) + 1
    BY LoadOrderType
  <2> QED
    BY <1>1, <2>3, <2>4 DEF MetricsIInv, TypeOK
<1>3. Stages' /\ CountersAreSums'
  <2>1. /\ \A c : Total(c, SeenBy(c))' = Total(c, SeenBy(c))
        /\ \A j : BucketTotal(j, SeenBy("bucket"))' = BucketTotal(j, SeenBy("bucket"))
    BY <1>1 DEF Total, Share, BucketTotal, BucketShare, SeenBy, Amount, Adds
  <2> QED
    BY <1>1, <2>1 DEF MetricsIInv, Stages, CountersAreSums, Adds
<1> QED
  BY <1>1, <1>2, <1>3 DEF MetricsIInv, ShownIsPast, ShownCovers

\* What is loaded now is no less than what it covered before, as an atomic only grows.
LEMMA LoadStep == MetricsIInv /\ Load => MetricsIInv'
<1> SUFFICES ASSUME MetricsIInv, Load PROVE MetricsIInv'
  OBVIOUS
<1> DEFINE d == LoadOrder[load]
           i == load - FirstBucket + 1
<1>1. /\ load \in DOMAIN LoadOrder /\ load' = load + 1
      /\ UNCHANGED <<setting, outcome, method, elapsed, stage, todo, counter, bucket, last, lastBucket,
                     scrapes, before>>
      /\ d = "bucket" => shownBucket' = [shownBucket EXCEPT ![i] = bucket[i]] /\ shown' = shown
      /\ d # "bucket" => shown' = [shown EXCEPT ![d] = counter[d]] /\ shownBucket' = shownBucket
  BY DEF Load, lookupVars
<1>2. load \in 1..Inf + 7 /\ load > 0 /\ load \in Nat
  BY <1>1, LoadOrderType
<1>3. /\ d = "bucket" => i \in 1..Inf
      /\ d # "bucket" => d \in Scalars
  BY <1>2, LoadOrderType DEF FirstBucket
<1>4. "bucket" \notin Scalars
  BY DEF Scalars
<1>5. /\ counter \in [Scalars -> Nat] /\ shown \in [Scalars -> Nat] /\ last \in [Scalars -> Nat]
      /\ bucket \in [1..Inf -> Nat] /\ shownBucket \in [1..Inf -> Nat] /\ lastBucket \in [1..Inf -> Nat]
  BY DEF MetricsIInv, TypeOK
<1>6. /\ shown' \in [Scalars -> Nat] /\ shownBucket' \in [1..Inf -> Nat]
      /\ \A c \in Scalars : shown'[c] = IF c = d THEN counter[c] ELSE shown[c]
      /\ \A j \in 1..Inf : shownBucket'[j] = IF d = "bucket" /\ j = i THEN bucket[j] ELSE shownBucket[j]
  <2> HIDE DEF d, i
  <2>1. CASE d = "bucket"
    BY <1>1, <1>3, <1>4, <1>5, <2>1
  <2>2. CASE d # "bucket"
    BY <1>1, <1>3, <1>4, <1>5, <2>2
  <2> QED
    BY <2>1, <2>2
<1>7. TypeOK'
  <2>1. load' \in 0..Len(LoadOrder) + 1
    BY <1>1, <1>2, LoadOrderType
  <2> QED
    BY <1>1, <1>6, <2>1 DEF MetricsIInv, TypeOK
<1>8. /\ \A c : Total(c, SeenBy(c))' = Total(c, SeenBy(c)) /\ Total(c, before)' = Total(c, before)
      /\ \A j : /\ BucketTotal(j, SeenBy("bucket"))' = BucketTotal(j, SeenBy("bucket"))
                /\ BucketTotal(j, before)' = BucketTotal(j, before)
  BY <1>1 DEF Total, Share, BucketTotal, BucketShare, SeenBy, Amount, Adds
<1>9. Stages' /\ CountersAreSums'
  BY <1>1, <1>8 DEF MetricsIInv, Stages, CountersAreSums, Adds
<1>10. ShownIsPast'
  <2>1. ASSUME NEW c \in Scalars PROVE shown'[c] <= counter'[c] /\ last'[c] <= shown'[c]
    <3>1. counter[c] \in Nat /\ shown[c] \in Nat /\ last[c] \in Nat
      BY <1>5
    <3>2. shown[c] <= counter[c] /\ last[c] <= shown[c]
      BY <1>2 DEF MetricsIInv, ShownIsPast
    <3>3. shown'[c] = counter[c] \/ shown'[c] = shown[c]
      BY <1>6
    <3> QED
      BY <1>1, <3>1, <3>2, <3>3
  <2>2. ASSUME NEW j \in 1..Inf PROVE shownBucket'[j] <= bucket'[j] /\ lastBucket'[j] <= shownBucket'[j]
    <3>1. bucket[j] \in Nat /\ shownBucket[j] \in Nat /\ lastBucket[j] \in Nat
      BY <1>5
    <3>2. shownBucket[j] <= bucket[j] /\ lastBucket[j] <= shownBucket[j]
      BY <1>2 DEF MetricsIInv, ShownIsPast
    <3>3. shownBucket'[j] = bucket[j] \/ shownBucket'[j] = shownBucket[j]
      BY <1>6
    <3> QED
      BY <1>1, <3>1, <3>2, <3>3
  <2> QED
    BY <2>1, <2>2 DEF ShownIsPast, Inf
<1>11. ShownCovers'
  <2>1. before \subseteq Done /\ scrapes < setting.scrapes
    BY <1>2 DEF MetricsIInv, ShownCovers
  <2>2. before' \subseteq Done'
    BY <1>1, <2>1 DEF Done, Requested
  <2>3. ASSUME NEW c \in Scalars, Loaded(c)' PROVE Total(c, before) <= shown'[c]
    <3>1. CASE c = d
      <4>1. before \subseteq SeenBy(c)
        BY <2>1, DoneSeenBegun
      <4>2. Total(c, before) <= Total(c, SeenBy(c))
        BY <4>1, TotalMonotonic DEF MetricsIInv
      <4> QED
        BY <1>6, <3>1, <4>2 DEF MetricsIInv, CountersAreSums
    <3>2. CASE c # d
      <4>1. Loaded(c)
        BY <1>1, <1>2, <2>3, <3>2, LoadOrderType DEF Loaded
      <4> QED
        BY <1>2, <1>6, <3>2, <4>1 DEF MetricsIInv, ShownCovers
    <3> QED
      BY <3>1, <3>2
  <2>4. ASSUME NEW j \in 1..Inf, BucketLoaded(j)' PROVE BucketTotal(j, before) <= shownBucket'[j]
    <3>1. CASE d = "bucket" /\ j = i
      <4>1. before \subseteq SeenBy("bucket")
        BY <2>1, DoneSeenBegun
      <4>2. BucketTotal(j, before) <= BucketTotal(j, SeenBy("bucket"))
        BY <4>1, BucketTotalMonotonic
      <4> QED
        BY <1>6, <3>1, <4>2 DEF MetricsIInv, CountersAreSums
    <3>2. CASE ~(d = "bucket" /\ j = i)
      <4>1. FirstBucket + j - 1 \in 6..Inf + 5 /\ FirstBucket + j - 1 \in 1..Inf + 7
        BY LoadOrderType DEF FirstBucket
      <4>2. load # FirstBucket + j - 1
        <5> SUFFICES ASSUME load = FirstBucket + j - 1 PROVE FALSE
          OBVIOUS
        <5>1. d = "bucket"
          BY <4>1, LoadOrderType
        <5>2. j = i
          BY DEF FirstBucket
        <5> QED
          BY <3>2, <5>1, <5>2
      <4>3. BucketLoaded(j)
        BY <1>1, <1>2, <2>4, <4>1, <4>2 DEF BucketLoaded
      <4> QED
        BY <1>2, <1>6, <3>2, <4>3 DEF MetricsIInv, ShownCovers
    <3> QED
      BY <3>1, <3>2
  <2> QED
    BY <1>1, <1>8, <2>1, <2>2, <2>3, <2>4 DEF ShownCovers, Inf
<1> QED
  BY <1>7, <1>9, <1>10, <1>11 DEF MetricsIInv

LEMMA MetricsStep == MetricsIInv /\ [Next]_vars => MetricsIInv'
<1> SUFFICES ASSUME MetricsIInv, [Next]_vars PROVE MetricsIInv'
  OBVIOUS
<1>1. CASE \E r \in Requests : Lookup(r) \/ \E c \in todo[r] : Record(r, c)
  BY <1>1, LookupStep, RecordStep
<1>2. CASE ScrapeStart
  BY <1>2, ScrapeStartStep
<1>3. CASE Load
  BY <1>3, LoadStep
<1>4. CASE ScrapeEnd
  BY <1>4, ScrapeEndStep
<1>5. CASE UNCHANGED vars
  <2>1. /\ UNCHANGED <<setting, outcome, method, elapsed, stage, todo, counter, bucket>>
        /\ UNCHANGED <<load, shown, shownBucket, last, lastBucket, scrapes, before>>
    BY <1>5 DEF vars, lookupVars, scrapeVars
  <2>2. TypeOK' /\ Stages' /\ ShownIsPast'
    BY <2>1 DEF MetricsIInv, TypeOK, Stages, ShownIsPast, Adds
  <2>3. /\ \A c : Total(c, SeenBy(c))' = Total(c, SeenBy(c)) /\ Total(c, before)' = Total(c, before)
        /\ \A j : /\ BucketTotal(j, SeenBy("bucket"))' = BucketTotal(j, SeenBy("bucket"))
                  /\ BucketTotal(j, before)' = BucketTotal(j, before)
    BY <2>1 DEF Total, Share, BucketTotal, BucketShare, SeenBy, Amount, Adds
  <2>4. CountersAreSums'
    BY <2>1, <2>3 DEF MetricsIInv, CountersAreSums
  <2>5. ShownCovers'
    BY <2>1, <2>3 DEF MetricsIInv, ShownCovers, Loaded, BucketLoaded, Done, Requested
  <2> QED
    BY <2>2, <2>4, <2>5 DEF MetricsIInv
<1> QED
  BY <1>1, <1>2, <1>3, <1>4, <1>5 DEF Next

\* At every moment the atomics are the sums of the fetch_adds that have been seen,
\* and what a scrape has read lies between what was complete when it began and
\* what there is.
THEOREM MetricsInvariance == Spec => []MetricsIInv
<1>1. MetricsIInv /\ [Next]_vars => MetricsIInv'
  BY MetricsStep
<1> QED
  BY MetricsInit, <1>1, PTL DEF Spec

\* The counters stay counters: no fetch_add takes one below zero.
THEOREM MetricsTypeCorrect == Spec => []TypeOK
<1>1. MetricsIInv => TypeOK
  BY DEF MetricsIInv
<1> QED
  BY <1>1, MetricsInvariance, PTL

------------------------------------------------------------------------------
(* What the series say *)

\* A sum of nothing but zeros.
LEMMA SumOfZeros ==
  ASSUME NEW w, \A r \in Requests : w[r] = 0
  PROVE  SumFunctionOnSet(w, Requests) = 0
<1>1. /\ \A r \in Requests : w[r] \in Nat
      /\ \A r \in Requests \ {} : w[r] = 0
      /\ {} \in SUBSET Requests /\ IsFiniteSet(Requests)
  BY MetricsAssumption
<1> QED
  BY <1>1, SumWithoutZeros, SumEmpty

\* The HELP text of a series is the sum of what record adds for each lookup.
LEMMA MeaningIsTotal ==
  ASSUME TypeOK, NEW c \in Scalars, NEW S \in SUBSET Requests
  PROVE  Meaning(c, S) = Total(c, S)
<1> DEFINE w == Share(c, S)
<1>1. IsFiniteSet(Requests) /\ \A r \in Requests : w[r] \in Nat
  BY MetricsAssumption, ShareType
<1>2. \A r \in Requests : /\ outcome[r] \in Outcomes /\ elapsed[r] \in Nat /\ method[r] \in {"GET", "HEAD"}
                          /\ BodyLen[outcome[r]] \in Nat
  BY LatencyType, MetricsAssumption
<1>3. setting.timing \in BOOLEAN
  BY SettingType DEF TypeOK
<1>4. ASSUME NEW R \in SUBSET S, \A r \in Requests : w[r] = IF r \in R THEN 1 ELSE 0
      PROVE  Total(c, S) = Cardinality(R)
  BY <1>1, <1>4, SumOfOnes DEF Total
<1>5. ASSUME \A r \in Requests : w[r] = 0 PROVE Total(c, S) = 0
  BY <1>5, SumOfZeros DEF Total
<1>6. CASE c = "requests"
  <2>1. \A r \in Requests : w[r] = IF r \in S THEN 1 ELSE 0
    BY <1>2, <1>6, AddsType DEF Share, Amount
  <2> QED
    BY <1>4, <1>6, <2>1 DEF Meaning
<1>7. CASE c = "hits"
  <2> DEFINE R == {r \in S : outcome[r] = "Hit"}
  <2>1. \A r \in Requests : w[r] = IF r \in R THEN 1 ELSE 0
    BY <1>2, <1>7, AddsType DEF Share, Amount
  <2>2. Meaning(c, S) = Cardinality(R)
    BY <1>7 DEF Meaning, Count
  <2> QED
    BY <1>4, <2>1, <2>2
<1>8. CASE c = "misses"
  <2> DEFINE R == {r \in S : outcome[r] # "Hit"}
  <2>1. \A r \in Requests : w[r] = IF r \in R THEN 1 ELSE 0
    BY <1>2, <1>8, AddsType DEF Share, Amount
  <2>2. Meaning(c, S) = Cardinality(R)
    BY <1>8 DEF Meaning, Count
  <2> QED
    BY <1>4, <2>1, <2>2
<1>9. CASE c = "defaults"
  <2> DEFINE R == {r \in S : outcome[r] = "Default"}
  <2>1. \A r \in Requests : w[r] = IF r \in R THEN 1 ELSE 0
    BY <1>2, <1>9, AddsType DEF Share, Amount
  <2>2. Meaning(c, S) = Cardinality(R)
    BY <1>9 DEF Meaning, Count
  <2> QED
    BY <1>4, <2>1, <2>2
<1>10. CASE c = "bytes"
  <2> DEFINE R == {r \in S : method[r] = "GET"}
             v == [r \in S |-> BodyLen[outcome[r]]]
  <2>1. /\ \A r \in R : w[r] = v[r]
        /\ \A r \in Requests \ R : w[r] = 0
    BY <1>2, <1>10, AddsType DEF Share, Amount
  <2>2. Meaning(c, S) = SumFunctionOnSet(v, R)
    BY <1>10 DEF Meaning
  <2>3. R \in SUBSET Requests /\ IsFiniteSet(R)
    BY <1>1, FS_Subset
  <2> HIDE DEF v, w, R
  <2>4. SumFunctionOnSet(w, Requests) = SumFunctionOnSet(w, R)
    BY <1>1, <2>1, <2>3, SumWithoutZeros
  <2>5. SumFunctionOnSet(v, R) = SumFunctionOnSet(w, R)
    <3>1. \A r \in R : w[r] \in Nat /\ v[r] = w[r]
      BY <1>1, <2>1, <2>3
    <3> QED
      BY <2>3, <3>1, SumSame
  <2> QED
    BY <2>2, <2>4, <2>5 DEF w, Total
<1>11. CASE c = "sum_nanos"
  <2>1. CASE setting.timing
    <3>1. /\ \A r \in S : w[r] = elapsed[r]
          /\ \A r \in Requests \ S : w[r] = 0
      BY <1>2, <1>11, <2>1, AddsType DEF Share, Amount
    <3>2. Meaning(c, S) = SumFunctionOnSet(elapsed, S)
      BY <1>11, <2>1 DEF Meaning
    <3>3. IsFiniteSet(S)
      BY <1>1, FS_Subset
    <3> HIDE DEF w
    <3>4. SumFunctionOnSet(w, Requests) = SumFunctionOnSet(w, S)
      BY <1>1, <3>1, SumWithoutZeros
    <3>5. SumFunctionOnSet(elapsed, S) = SumFunctionOnSet(w, S)
      <4>1. \A r \in S : w[r] \in Nat /\ elapsed[r] = w[r]
        BY <1>1, <3>1
      <4> QED
        BY <3>3, <4>1, SumSame
    <3> QED
      BY <3>2, <3>4, <3>5 DEF w, Total
  <2>2. CASE ~setting.timing
    <3>1. \A r \in Requests : w[r] = 0
      BY <1>2, <1>11, <2>2, AddsType DEF Share
    <3> QED
      BY <1>5, <1>11, <2>2, <3>1 DEF Meaning
  <2> QED
    BY <2>1, <2>2
<1>12. CASE c = "timed"
  <2>1. CASE setting.timing
    <3>1. \A r \in Requests : w[r] = IF r \in S THEN 1 ELSE 0
      BY <1>2, <1>12, <2>1, AddsType DEF Share, Amount
    <3> QED
      BY <1>4, <1>12, <2>1, <3>1 DEF Meaning
  <2>2. CASE ~setting.timing
    <3>1. \A r \in Requests : w[r] = 0
      BY <1>2, <1>12, <2>2, AddsType DEF Share
    <3> QED
      BY <1>5, <1>12, <2>2, <3>1 DEF Meaning
  <2> QED
    BY <2>1, <2>2
<1> QED
  BY <1>6, <1>7, <1>8, <1>9, <1>10, <1>11, <1>12 DEF Scalars

\* The buckets that S alone would fill.
BucketsOf(S) == [j \in 1..Inf |-> BucketTotal(j, S)]

\* The lookups in S that belong to one of the first i buckets.
LeShare(i, S) ==
  [r \in Requests |-> IF r \in S /\ setting.timing /\ BucketOf(elapsed[r]) <= i THEN 1 ELSE 0]

\* The first i buckets together count each of those lookups once.
LEMMA FirstBuckets ==
  ASSUME TypeOK, NEW S \in SUBSET Requests, NEW i \in 0..Inf
  PROVE  Cumulative(BucketsOf(S), i) = SumFunctionOnSet(LeShare(i, S), Requests)
<1> DEFINE P == {n \in Nat : n <= Inf => SumFunctionOnSet(BucketsOf(S), 1..n)
                                           = SumFunctionOnSet(LeShare(n, S), Requests)}
<1>1. Inf \in Nat \ {0}
  BY LoadOrderType
<1>2. \A r \in Requests : BucketOf(elapsed[r]) \in 1..Inf
  BY LatencyType, BucketOfType
<1>3. 0 \in P
  <2>1. 1..0 = {}
    OBVIOUS
  <2>2. \A r \in Requests : LeShare(0, S)[r] = 0
    BY <1>1, <1>2 DEF LeShare
  <2> QED
    BY <2>1, <2>2, SumEmpty, SumOfZeros
<1>4. ASSUME NEW n \in Nat, n \in P PROVE n + 1 \in P
  <2> SUFFICES ASSUME n + 1 <= Inf
               PROVE  SumFunctionOnSet(BucketsOf(S), 1..n + 1)
                        = SumFunctionOnSet(LeShare(n + 1, S), Requests)
    OBVIOUS
  <2> DEFINE u == LeShare(n + 1, S)
             v == LeShare(n, S)
             w == BucketShare(n + 1, S)
             b == BucketsOf(S)
  <2>1. SumFunctionOnSet(b, 1..n) = SumFunctionOnSet(v, Requests)
    BY <1>1, <1>4
  <2>2. b[n + 1] = SumFunctionOnSet(w, Requests)
    BY <1>1 DEF BucketsOf, BucketTotal
  <2>3. ASSUME NEW r \in Requests PROVE v[r] \in Nat /\ w[r] \in Nat /\ u[r] = v[r] + w[r]
    BY <1>1, <1>2 DEF LeShare, BucketShare
  <2>4. \A j \in 1..Inf : b[j] \in Nat
    BY BucketShareType DEF BucketsOf
  <2>5. IsFiniteSet(Requests)
    BY MetricsAssumption
  <2> HIDE DEF b, u, v, w
  <2>6. SumFunctionOnSet(u, Requests) = SumFunctionOnSet(v, Requests) + SumFunctionOnSet(w, Requests)
    BY <2>3, <2>5, SumPlus
  <2>7. SumFunctionOnSet(b, 1..n \cup {n + 1}) = b[n + 1] + SumFunctionOnSet(b, 1..n)
    <3>1. IsFiniteSet(1..n)
      BY FS_Interval
    <3>2. n + 1 \notin 1..n /\ n + 1 \in 1..Inf /\ \A j \in 1..n : j \in 1..Inf
      BY <1>1
    <3>3. b[n + 1] \in Nat /\ \A j \in 1..n : b[j] \in Nat
      BY <2>4, <3>2
    <3> QED
      BY <3>1, <3>2, <3>3, SumAdd
  <2>8. 1..n + 1 = 1..n \cup {n + 1}
    OBVIOUS
  <2>9. SumFunctionOnSet(v, Requests) \in Nat /\ SumFunctionOnSet(w, Requests) \in Nat
    BY <2>3, <2>5, SumType
  <2>10. SumFunctionOnSet(b, 1..n + 1) = b[n + 1] + SumFunctionOnSet(b, 1..n)
    BY <2>7, <2>8
  <2>11. SumFunctionOnSet(b, 1..n + 1) = SumFunctionOnSet(u, Requests)
    BY <2>1, <2>2, <2>6, <2>9, <2>10
  <2> QED
    BY <2>11 DEF b, u
<1>5. Nat \subseteq P
  <2> HIDE DEF P
  <2> QED
    BY <1>3, <1>4, NatSetInduction
<1> QED
  BY <1>1, <1>5 DEF Cumulative

\* The `le` line of a bound is the sum of the buckets up to it.
LEMMA MeaningLeIsTotal ==
  ASSUME TypeOK, NEW S \in SUBSET Requests, NEW i \in 1..Inf
  PROVE  MeaningLe(i, S) = Cumulative(BucketsOf(S), i)
<1> DEFINE R == {r \in S : setting.timing /\ (i \in DOMAIN BUCKETS => elapsed[r] <= BUCKETS[i])}
<1>1. MeaningLe(i, S) = Cardinality(R)
  BY DEF MeaningLe, Count
<1>2. ASSUME NEW r \in Requests
      PROVE  BucketOf(elapsed[r]) <= i <=> (i \in DOMAIN BUCKETS => elapsed[r] <= BUCKETS[i])
  <2>1. elapsed[r] \in Nat
    BY LatencyType
  <2>2. /\ BucketOf(elapsed[r]) \in 1..Inf
        /\ i \in DOMAIN BUCKETS => (elapsed[r] <= BUCKETS[i] <=> BucketOf(elapsed[r]) <= i)
    BY <2>1, BucketOfType
  <2>3. DOMAIN BUCKETS = 1..Len(BUCKETS) /\ Len(BUCKETS) \in Nat
    BY MetricsAssumption
  <2> QED
    BY <2>2, <2>3 DEF Inf
<1>3. \A r \in Requests : LeShare(i, S)[r] = IF r \in R THEN 1 ELSE 0
  BY <1>2 DEF LeShare
<1>4. R \in SUBSET Requests /\ IsFiniteSet(Requests)
  BY MetricsAssumption
<1>5. SumFunctionOnSet(LeShare(i, S), Requests) = Cardinality(R)
  <2> DEFINE w == LeShare(i, S)
  <2>1. \A r \in Requests : w[r] = IF r \in R THEN 1 ELSE 0
    BY <1>3
  <2> HIDE DEF w, R
  <2>2. SumFunctionOnSet(w, Requests) = Cardinality(R)
    BY <1>4, <2>1, SumOfOnes
  <2> QED
    BY <2>2 DEF w
<1>6. i \in 0..Inf
  BY LoadOrderType
<1> QED
  BY <1>1, <1>5, <1>6, FirstBuckets

\* Cumulative counts follow the buckets they are made of.
LEMMA CumulativeMonotonic ==
  ASSUME NEW a \in [1..Inf -> Nat], NEW b \in [1..Inf -> Nat], \A j \in 1..Inf : a[j] <= b[j],
         NEW i \in 1..Inf
  PROVE  Cumulative(a, i) <= Cumulative(b, i)
<1>1. IsFiniteSet(1..i)
  BY LoadOrderType, FS_Interval
<1>2. \A j \in 1..i : j \in 1..Inf
  BY LoadOrderType
<1>3. \A j \in 1..i : a[j] \in Nat /\ b[j] \in Nat /\ a[j] <= b[j]
  BY <1>2
<1> QED
  BY <1>1, <1>3, SumMonotonic DEF Cumulative

------------------------------------------------------------------------------
(* The properties *)

\* Of two scrapes one after the other no series goes back: an atomic only grows,
\* and each load of the second comes after the same load of the first.
THEOREM NeverBack == Spec => []ScrapesNeverGoBack
<1>1. ASSUME MetricsIInv PROVE ScrapesNeverGoBack
  <2> SUFFICES ASSUME Rendered PROVE ScrapesNeverGoBack
    BY DEF ScrapesNeverGoBack
  <2>1. load > 0
    BY LoadOrderType DEF Rendered
  <2>2. (\A c \in Scalars : last[c] <= shown[c]) /\ \A j \in 1..Inf : lastBucket[j] <= shownBucket[j]
    BY <1>1, <2>1 DEF MetricsIInv, ShownIsPast
  <2>3. lastBucket \in [1..Inf -> Nat] /\ shownBucket \in [1..Inf -> Nat]
    BY <1>1 DEF MetricsIInv, TypeOK
  <2>4. \A i \in 1..Inf : Cumulative(lastBucket, i) <= Cumulative(shownBucket, i)
    BY <2>2, <2>3, CumulativeMonotonic
  <2> QED
    BY <2>2, <2>4 DEF ScrapesNeverGoBack
<1> QED
  BY <1>1, MetricsInvariance, PTL

\* Whenever no lookup is being recorded every series is exactly what its HELP text
\* says, however the fetch_adds of any number of lookups were interleaved.
THEOREM Exactness == Spec => []ExactWhenQuiet
<1>1. ASSUME MetricsIInv PROVE ExactWhenQuiet
  <2> SUFFICES ASSUME Requested({"recording"}) = {} PROVE ExactWhenQuiet
    BY DEF ExactWhenQuiet
  <2>1. TypeOK
    BY <1>1 DEF MetricsIInv
  <2>2. Done \in SUBSET Requests /\ Begun = Done
    BY DEF Begun, Done, Requested
  <2>3. \A c : SeenBy(c) = Done
    BY <1>1, <2>2, DoneSeenBegun
  <2>4. ASSUME NEW c \in Scalars PROVE counter[c] = Meaning(c, Done)
    BY <1>1, <2>1, <2>2, <2>3, MeaningIsTotal DEF MetricsIInv, CountersAreSums
  <2>5. bucket = BucketsOf(Done)
    <3>1. bucket \in [1..Inf -> Nat]
      BY <2>1 DEF TypeOK
    <3>2. \A j \in 1..Inf : bucket[j] = BucketTotal(j, Done)
      BY <1>1, <2>3 DEF MetricsIInv, CountersAreSums
    <3> QED
      BY <3>1, <3>2 DEF BucketsOf
  <2>6. ASSUME NEW i \in 1..Inf PROVE Cumulative(bucket, i) = MeaningLe(i, Done)
    BY <2>1, <2>2, <2>5, MeaningLeIsTotal
  <2> QED
    BY <2>4, <2>6 DEF ExactWhenQuiet
<1> QED
  BY <1>1, MetricsInvariance, PTL

\* Amid any traffic every series of a scrape lies between the lookups done when it
\* began and those begun when it ends.
THEOREM Boundedness == Spec => []ScrapeIsBounded
<1>1. ASSUME MetricsIInv PROVE ScrapeIsBounded
  <2> SUFFICES ASSUME Rendered PROVE ScrapeIsBounded
    BY DEF ScrapeIsBounded
  <2>1. TypeOK
    BY <1>1 DEF MetricsIInv
  <2>2. load = Inf + 8 /\ Inf \in Nat \ {0} /\ load > 0
    BY LoadOrderType DEF Rendered
  <2>3. before \in SUBSET Requests /\ Begun \in SUBSET Requests
    BY <2>1 DEF TypeOK, Begun, Requested
  <2>4. ASSUME NEW c \in Scalars PROVE Loaded(c)
    <3>1. 1 < load /\ 2 < load /\ 3 < load /\ 4 < load /\ 5 < load /\ Inf + 6 < load /\ Inf + 7 < load
      BY <2>2
    <3>2. {1, 2, 3, 4, 5, Inf + 6, Inf + 7} \subseteq DOMAIN LoadOrder
      BY <2>2, LoadOrderType
    <3> QED
      BY <3>1, <3>2, LoadOrderType DEF Loaded, Scalars
  <2>5. ASSUME NEW j \in 1..Inf PROVE BucketLoaded(j)
    BY <2>2 DEF BucketLoaded, FirstBucket
  <2>6. ASSUME NEW c \in Scalars PROVE Meaning(c, before) <= shown[c] /\ shown[c] <= Meaning(c, Begun)
    <3>1. Total(c, before) <= shown[c]
      BY <1>1, <2>2, <2>4 DEF MetricsIInv, ShownCovers
    <3>2. shown[c] <= counter[c] /\ counter[c] = Total(c, SeenBy(c))
      BY <1>1 DEF MetricsIInv, ShownIsPast, CountersAreSums
    <3>3. Total(c, SeenBy(c)) <= Total(c, Begun)
      BY <1>1, <2>1, DoneSeenBegun, TotalMonotonic
    <3>4. shown[c] \in Nat /\ counter[c] \in Nat /\ Total(c, Begun) \in Nat
      BY <2>1, ShareType DEF TypeOK
    <3>5. Meaning(c, before) = Total(c, before) /\ Meaning(c, Begun) = Total(c, Begun)
      BY <2>1, <2>3, MeaningIsTotal
    <3> QED
      BY <3>1, <3>2, <3>3, <3>4, <3>5
  <2>7. shownBucket \in [1..Inf -> Nat]
    BY <2>1 DEF TypeOK
  <2>8. \A S : BucketsOf(S) \in [1..Inf -> Nat] /\ \A j \in 1..Inf : BucketsOf(S)[j] = BucketTotal(j, S)
    BY BucketShareType DEF BucketsOf
  <2>9. ASSUME NEW j \in 1..Inf
        PROVE  BucketsOf(before)[j] <= shownBucket[j] /\ shownBucket[j] <= BucketsOf(Begun)[j]
    <3>1. BucketTotal(j, before) <= shownBucket[j]
      BY <1>1, <2>2, <2>5 DEF MetricsIInv, ShownCovers
    <3>2. shownBucket[j] <= bucket[j] /\ bucket[j] = BucketTotal(j, SeenBy("bucket"))
      BY <1>1 DEF MetricsIInv, ShownIsPast, CountersAreSums
    <3>3. BucketTotal(j, SeenBy("bucket")) <= BucketTotal(j, Begun)
      BY <1>1, DoneSeenBegun, BucketTotalMonotonic
    <3>4. shownBucket[j] \in Nat /\ bucket[j] \in Nat /\ BucketTotal(j, Begun) \in Nat
      BY <2>1, BucketShareType DEF TypeOK
    <3> QED
      BY <2>8, <3>1, <3>2, <3>3, <3>4
  <2>10. ASSUME NEW i \in 1..Inf
         PROVE  /\ MeaningLe(i, before) <= Cumulative(shownBucket, i)
                /\ Cumulative(shownBucket, i) <= MeaningLe(i, Begun)
    <3>1. Cumulative(BucketsOf(before), i) <= Cumulative(shownBucket, i)
      BY <2>7, <2>8, <2>9, CumulativeMonotonic
    <3>2. Cumulative(shownBucket, i) <= Cumulative(BucketsOf(Begun), i)
      BY <2>7, <2>8, <2>9, CumulativeMonotonic
    <3> QED
      BY <2>1, <2>3, <3>1, <3>2, MeaningLeIsTotal
  <2> QED
    BY <2>6, <2>10 DEF ScrapeIsBounded
<1> QED
  BY <1>1, MetricsInvariance, PTL
==============================================================================
