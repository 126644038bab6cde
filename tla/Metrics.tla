------------------------------- MODULE Metrics -------------------------------
(***************************************************************************)
(* The counters of src/src/metrics.rs, the lookups that feed them          *)
(* (lookup in src/src/server/handlers.rs) and the /metrics scrapes that    *)
(* read them.  A record call is a series of fetch_adds and a render a      *)
(* series of loads, on different atomics and all Relaxed.  Lookups and     *)
(* scrapes run on different threads, so each fetch_add and each load is a  *)
(* step.  With reorder, other threads may see the fetch_adds of one call   *)
(* in any order, as on a weakly ordered machine.                           *)
(***************************************************************************)
EXTENDS Naturals, Sequences, FiniteSetsExt, Functions

CONSTANTS
  Requests,       \* lookups served during the run
  Settings,       \* settings to consider
  BUCKETS,        \* upper bounds of the histogram, increasing
  Latencies,      \* latencies a lookup may have
  BodyLen         \* BodyLen[o]: length of the body of outcome o

Outcomes == {"Hit", "Miss", "Default"}
Inf == Len(BUCKETS) + 1            \* the implicit last bucket
Scalars == {"requests", "bytes", "hits", "misses", "defaults", "sum_nanos", "timed"}

ASSUME MetricsAssumption ==
  /\ Settings \subseteq [default_value : BOOLEAN, timing : BOOLEAN, reorder : BOOLEAN, scrapes : Nat]
  /\ IsFiniteSet(Requests) /\ Latencies \subseteq Nat
  /\ BUCKETS \in Seq(Nat) /\ \A i, j \in DOMAIN BUCKETS : i < j => BUCKETS[i] < BUCKETS[j]
  /\ BodyLen \in [Outcomes -> Nat] /\ BodyLen["Miss"] = 0

VARIABLES
  setting,            \* default value or not, --no-metrics or not; whether fetch_adds
                      \* are seen out of order; how many scrapes follow one another
  outcome, method, elapsed,  \* of each lookup
  stage,              \* "idle", "recording" or "done"
  todo,               \* fetch_adds of the record call still to be seen
  counter, bucket,    \* the atomics
  load,               \* the next load of the scrape, 0 if there is none
  shown, shownBucket, \* what the scrape has read
  last, lastBucket,   \* what the previous scrape showed
  scrapes,            \* scrapes finished
  before              \* history: lookups done when the scrape began

lookupVars == <<setting, outcome, method, elapsed, stage, todo, counter, bucket>>
scrapeVars == <<load, shown, shownBucket, last, lastBucket, scrapes, before>>
vars == <<lookupVars, scrapeVars>>

Zero == [c \in Scalars |-> 0]
ZeroBucket == [i \in 1..Inf |-> 0]

Init ==
  /\ setting \in Settings
  /\ outcome = [r \in Requests |-> "Hit"]
  /\ method = [r \in Requests |-> "GET"]
  /\ elapsed = [r \in Requests |-> 0]
  /\ stage = [r \in Requests |-> "idle"]
  /\ todo = [r \in Requests |-> {}]
  /\ counter = Zero /\ bucket = ZeroBucket
  /\ load = 0
  /\ shown = Zero /\ shownBucket = ZeroBucket
  /\ last = Zero /\ lastBucket = ZeroBucket
  /\ scrapes = 0 /\ before = {}

------------------------------------------------------------------------------
(* lookup and record *)

\* The order of the fetch_adds in record.
AddOrder ==
  <<"requests", "bytes", "hits", "misses", "defaults", "bucket", "sum_nanos", "timed">>
Earlier(c, d) == \E i, j \in DOMAIN AddOrder : i < j /\ AddOrder[i] = c /\ AddOrder[j] = d

\* Mutant: a default is counted as a default only.
AddsDefaultApart(o) ==
  {"requests", "bytes"}
  \cup (CASE o = "Hit" -> {"hits"} [] o = "Miss" -> {"misses"} [] o = "Default" -> {"defaults"})
  \cup (IF setting.timing THEN {"bucket", "sum_nanos", "timed"} ELSE {})

\* The atomics record touches.  A default served is still a miss.
Adds(o) ==
  {"requests", "bytes"}
  \cup (CASE o = "Hit" -> {"hits"} [] o = "Miss" -> {"misses"}
          [] o = "Default" -> {"misses", "defaults"})
  \cup (IF setting.timing THEN {"bucket", "sum_nanos", "timed"} ELSE {})

\* The key is found, or it is not and there is a default, or there is none.
Lookup(r) ==
  /\ stage[r] = "idle"
  /\ \E o \in {"Hit", IF setting.default_value THEN "Default" ELSE "Miss"},
        m \in {"GET", "HEAD"}, t \in IF setting.timing THEN Latencies ELSE {0} :
       /\ outcome' = [outcome EXCEPT ![r] = o]
       /\ method' = [method EXCEPT ![r] = m]
       /\ elapsed' = [elapsed EXCEPT ![r] = t]
       /\ todo' = [todo EXCEPT ![r] = Adds(o)]
  /\ stage' = [stage EXCEPT ![r] = "recording"]
  /\ UNCHANGED <<setting, counter, bucket, scrapeVars>>

\* Mutant: the body of a HEAD is counted though axum strips it.
AmountOfAny(r, c) ==
  CASE c = "bytes" -> BodyLen[outcome[r]]
    [] c = "sum_nanos" -> elapsed[r]
    [] OTHER -> 1

\* Mutant: a HEAD takes the length of its body off again.
AmountSigned(r, c) ==
  CASE c = "bytes" -> IF method[r] = "HEAD" THEN 0 - BodyLen[outcome[r]] ELSE BodyLen[outcome[r]]
    [] c = "sum_nanos" -> elapsed[r]
    [] OTHER -> 1

\* A HEAD writes no body to the client.
Amount(r, c) ==
  CASE c = "bytes" -> IF method[r] = "HEAD" THEN 0 ELSE BodyLen[outcome[r]]
    [] c = "sum_nanos" -> elapsed[r]
    [] OTHER -> 1

\* Mutant: a latency on a bound goes to the bucket above.
BucketAbove(t) ==
  IF \E i \in DOMAIN BUCKETS : t < BUCKETS[i]
  THEN Min({i \in DOMAIN BUCKETS : t < BUCKETS[i]}) ELSE Inf

\* The first bound that is not below t.
BucketOf(t) ==
  IF \E i \in DOMAIN BUCKETS : t <= BUCKETS[i]
  THEN Min({i \in DOMAIN BUCKETS : t <= BUCKETS[i]}) ELSE Inf

\* One fetch_add becomes visible; the response goes out after the last one.
Record(r, c) ==
  /\ stage[r] = "recording"
  /\ c \in todo[r]
  /\ ~setting.reorder => \A d \in todo[r] : ~Earlier(d, c)
  /\ IF c = "bucket"
     THEN bucket' = [bucket EXCEPT ![BucketOf(elapsed[r])] = @ + 1] /\ UNCHANGED counter
     ELSE counter' = [counter EXCEPT ![c] = @ + Amount(r, c)] /\ UNCHANGED bucket
  /\ todo' = [todo EXCEPT ![r] = @ \ {c}]
  /\ stage' = [stage EXCEPT ![r] = IF todo[r] = {c} THEN "done" ELSE @]
  /\ UNCHANGED <<setting, outcome, method, elapsed, scrapeVars>>

------------------------------------------------------------------------------
(* render *)

LoadOrder ==
  <<"requests", "hits", "misses", "defaults", "bytes">>
  \o [i \in 1..Inf |-> "bucket"] \o <<"sum_nanos", "timed">>
FirstBucket == 6

Requested(st) == {r \in Requests : stage[r] \in st}
Done == Requested({"done"})
Begun == Requested({"recording", "done"})

ScrapeStart ==
  /\ load = 0 /\ scrapes < setting.scrapes
  /\ load' = 1
  /\ last' = shown /\ lastBucket' = shownBucket
  /\ before' = Done
  /\ UNCHANGED <<lookupVars, shown, shownBucket, scrapes>>

\* Mutant: load followed by store(0), a scrape that resets what it reads.
LoadAndReset ==
  /\ load \in DOMAIN LoadOrder
  /\ LET c == LoadOrder[load] IN
     IF c = "bucket"
     THEN /\ shownBucket' = [shownBucket EXCEPT ![load - FirstBucket + 1] = bucket[load - FirstBucket + 1]]
          /\ bucket' = [bucket EXCEPT ![load - FirstBucket + 1] = 0]
          /\ UNCHANGED <<shown, counter>>
     ELSE /\ shown' = [shown EXCEPT ![c] = counter[c]]
          /\ counter' = [counter EXCEPT ![c] = 0]
          /\ UNCHANGED <<shownBucket, bucket>>
  /\ load' = load + 1
  /\ UNCHANGED <<setting, outcome, method, elapsed, stage, todo, last, lastBucket, scrapes, before>>

Load ==
  /\ load \in DOMAIN LoadOrder
  /\ LET c == LoadOrder[load] IN
     IF c = "bucket"
     THEN LET i == load - FirstBucket + 1 IN
          shownBucket' = [shownBucket EXCEPT ![i] = bucket[i]] /\ UNCHANGED shown
     ELSE shown' = [shown EXCEPT ![c] = counter[c]] /\ UNCHANGED shownBucket
  /\ load' = load + 1
  /\ UNCHANGED <<lookupVars, last, lastBucket, scrapes, before>>

Rendered == load = Len(LoadOrder) + 1

ScrapeEnd ==
  /\ Rendered
  /\ load' = 0 /\ scrapes' = scrapes + 1
  /\ UNCHANGED <<lookupVars, shown, shownBucket, last, lastBucket, before>>

Next ==
  \/ \E r \in Requests : Lookup(r) \/ (\E c \in todo[r] : Record(r, c))
  \/ ScrapeStart \/ Load \/ ScrapeEnd

Spec == Init /\ [][Next]_vars
------------------------------------------------------------------------------
(* What the series mean, of a set S of lookups: their HELP texts. *)

Count(S, P(_)) == Cardinality({r \in S : P(r)})

Meaning(c, S) ==
  CASE c = "requests" -> Cardinality(S)
    [] c = "hits" -> Count(S, LAMBDA r : outcome[r] = "Hit")
    [] c = "misses" -> Count(S, LAMBDA r : outcome[r] # "Hit")
    [] c = "defaults" -> Count(S, LAMBDA r : outcome[r] = "Default")
    [] c = "bytes" -> SumFunctionOnSet([r \in S |-> BodyLen[outcome[r]]], {r \in S : method[r] = "GET"})
    [] c = "sum_nanos" -> IF setting.timing THEN SumFunctionOnSet(elapsed, S) ELSE 0
    [] c = "timed" -> IF setting.timing THEN Cardinality(S) ELSE 0

\* The `le` line of bound i: lookups that took at most that long.
MeaningLe(i, S) ==
  Count(S, LAMBDA r : setting.timing /\ (i \in DOMAIN BUCKETS => elapsed[r] <= BUCKETS[i]))

\* render sums the buckets up to a bound.
Cumulative(b, i) == SumFunctionOnSet(b, 1..i)
------------------------------------------------------------------------------
(* Properties *)

\* Types; no counter ever drops below zero.
TypeOK ==
  /\ setting \in Settings
  /\ outcome \in [Requests -> Outcomes]
  /\ method \in [Requests -> {"GET", "HEAD"}]
  /\ elapsed \in [Requests -> Latencies \cup {0}]
  /\ stage \in [Requests -> {"idle", "recording", "done"}]
  /\ todo \in [Requests -> SUBSET (Scalars \cup {"bucket"})]
  /\ counter \in [Scalars -> Nat] /\ bucket \in [1..Inf -> Nat]
  /\ load \in 0..Len(LoadOrder) + 1
  /\ shown \in [Scalars -> Nat] /\ shownBucket \in [1..Inf -> Nat]
  /\ last \in [Scalars -> Nat] /\ lastBucket \in [1..Inf -> Nat]
  /\ scrapes \in 0..setting.scrapes
  /\ before \subseteq Requests

\* When no lookup is in record, every series says exactly what its HELP text
\* promises of the lookups served, HEADs, defaults and latencies on a bound
\* included, in whatever order their fetch_adds ran.
ExactWhenQuiet ==
  Requested({"recording"}) = {} =>
    /\ \A c \in Scalars : counter[c] = Meaning(c, Done)
    /\ \A i \in 1..Inf : Cumulative(bucket, i) = MeaningLe(i, Done)

\* A scrape amid traffic loses nothing and invents nothing: every series counts
\* at least the lookups finished before it began and at most those begun when
\* it ends.
ScrapeIsBounded ==
  Rendered =>
    /\ \A c \in Scalars : Meaning(c, before) <= shown[c] /\ shown[c] <= Meaning(c, Begun)
    /\ \A i \in 1..Inf : /\ MeaningLe(i, before) <= Cumulative(shownBucket, i)
                         /\ Cumulative(shownBucket, i) <= MeaningLe(i, Begun)

\* Of two scrapes one after the other the second shows no counter lower, as
\* Prometheus requires of a counter.
ScrapesNeverGoBack ==
  Rendered =>
    /\ \A c \in Scalars : last[c] <= shown[c]
    /\ \A i \in 1..Inf : Cumulative(lastBucket, i) <= Cumulative(shownBucket, i)

\* "Lookups with no matching key, including those served a default."
\* (metrics.rs:112): in every scrape, misses include the defaults.
MissesIncludeDefaults == Rendered => shown["defaults"] <= shown["misses"]
==============================================================================
