------------------------------ MODULE MCMetrics ------------------------------
(* Instances of Metrics for TLC: one bound, latencies on and above it. *)
EXTENDS Metrics, TLC

MCBuckets == <<2>>
MCBodyLen == "Hit" :> 3 @@ "Miss" :> 0 @@ "Default" :> 1

\* Two scrapes amid fetch_adds seen in any order, without latencies; one amid
\* fetch_adds in program order, with them.
MCSettings ==
  [default_value : BOOLEAN, timing : {FALSE}, reorder : {TRUE}, scrapes : {2}]
    \cup [default_value : BOOLEAN, timing : {TRUE}, reorder : {FALSE}, scrapes : {1}]

\* Fetch_adds in program order, without latencies.
InOrder == [default_value : BOOLEAN, timing : {FALSE}, reorder : {FALSE}, scrapes : {1}]

\* Lookups are alike.
Symmetry == Permutations(Requests)
==============================================================================
