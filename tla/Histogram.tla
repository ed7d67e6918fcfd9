----------------------------- MODULE Histogram -----------------------------
(***************************************************************************)
(* bowst-telemetry: LatencyHistogram (histogram.rs), as the market-data    *)
(* session uses it: one histogram of the whole session and one of the      *)
(* current report's interval, which every report resets.                   *)
(*                                                                         *)
(* A u64 has ValueBits bits here, and a power of two 2^SubBits buckets.    *)
(* The counts are far from their limit; the sum saturates.                 *)
(***************************************************************************)
EXTENDS Integers, FiniteSets, FiniteSetsExt

CONSTANTS
  SubBits,      \* SUB_BITS
  ValueBits,    \* 64
  Samples,      \* the latencies that are measured
  MaxSamples    \* bound on how many are

ASSUME HistogramAssumption ==
  /\ {SubBits, ValueBits, MaxSamples} \subseteq Nat
  /\ SubBits < ValueBits
  /\ Samples \subseteq 0 .. 2 ^ ValueBits - 1

VARIABLES
  total,      \* MdSession::total_latency
  interval,   \* MdSession::interval_latency
  reported,   \* the intervals reported so far, merged
  measured    \* measured[v]: how often v was recorded

histogramVars == <<total, interval, reported, measured>>

SubBuckets == 2 ^ SubBits
Groups == ValueBits - SubBits + 1
Buckets == Groups * SubBuckets
MaxValue == 2 ^ ValueBits - 1

\* The highest bit that is set.
TopBit(v) == CHOOSE b \in 0 .. ValueBits - 1 : 2 ^ b <= v /\ v < 2 ^ (b + 1)

\* bucket_of
BucketOf(v) ==
  IF v < SubBuckets THEN v
  ELSE LET shift == TopBit(v) - SubBits
       IN  (shift + 1) * SubBuckets + ((v \div 2 ^ shift) - SubBuckets)

\* Mutant: the lower bound of the bucket.
LowerBound(index) ==
  IF index < SubBuckets THEN index
  ELSE (SubBuckets + (index % SubBuckets)) * 2 ^ ((index \div SubBuckets) - 1)

\* upper_bound
UpperBound(index) ==
  IF index < SubBuckets THEN index
  ELSE LET width == 2 ^ ((index \div SubBuckets) - 1)
       IN  (SubBuckets + (index % SubBuckets)) * width + width - 1

Larger(a, b) == IF a > b THEN a ELSE b
Smaller(a, b) == IF a < b THEN a ELSE b

\* LatencyHistogram::new and reset
NewHistogram ==
  [counts |-> [b \in 0 .. Buckets - 1 |-> 0], count |-> 0, sum |-> 0, max |-> 0, min |-> MaxValue]

\* LatencyHistogram::record
Recorded(h, v) ==
  [counts |-> [h.counts EXCEPT ![BucketOf(v)] = @ + 1],
   count  |-> h.count + 1,
   sum    |-> Smaller(h.sum + v, MaxValue),
   max    |-> Larger(h.max, v),
   min    |-> Smaller(h.min, v)]

\* LatencyHistogram::merge
Merged(g, h) ==
  [counts |-> [b \in 0 .. Buckets - 1 |-> g.counts[b] + h.counts[b]],
   count  |-> g.count + h.count,
   sum    |-> Smaller(g.sum + h.sum, MaxValue),
   max    |-> Larger(g.max, h.max),
   min    |-> Smaller(g.min, h.min)]

\* rank_for
Rank(count, ppm) == Larger((count * ppm + 999999) \div 1000000, 1)

\* value_at_ppm: the first bucket up to which there are `rank` values
ValueAt(h, ppm) ==
  LET rank == Rank(h.count, Smaller(ppm, 1000000))
      Seen(b) == MapThenSumSet(LAMBDA i : h.counts[i], 0 .. b)
      reached == {b \in 0 .. Buckets - 1 : Seen(b) >= rank}
  IN  IF h.count = 0 THEN 0
      ELSE IF reached = {} THEN h.max
      ELSE Smaller(UpperBound(CHOOSE b \in reached : \A c \in reached : b <= c), h.max)

-----------------------------------------------------------------------------

HistogramInit ==
  /\ total = NewHistogram
  /\ interval = NewHistogram
  /\ reported = NewHistogram
  /\ measured = [v \in Samples |-> 0]

\* MdSession::stream, after a message was applied
Measure(v) ==
  /\ total.count < MaxSamples
  /\ total' = Recorded(total, v)
  /\ interval' = Recorded(interval, v)
  /\ measured' = [measured EXCEPT ![v] = @ + 1]
  /\ UNCHANGED reported

\* MdSession::maybe_report
Report ==
  /\ reported' = Merged(reported, interval)
  /\ interval' = NewHistogram
  /\ UNCHANGED <<total, measured>>

HistogramNext == Report \/ \E v \in Samples : Measure(v)

-----------------------------------------------------------------------------

\* The value with `rank` values at or below it, by definition.
Exact(rank) ==
  LET AtMost(v) == MapThenSumSet(LAMBDA w : measured[w], {w \in Samples : w <= v})
  IN  CHOOSE v \in Samples : AtMost(v) >= rank /\ \A w \in Samples : w < v => AtMost(w) < rank

\* A percentile never understates a latency, overstates it by less than one part in
\* SubBuckets, and is never above the largest one, for one value or many, in the exact
\* buckets and in the last (histogram.rs:3-7).  Intervals reported one by one add up to
\* the whole session.
PercentilesAreClose ==
  /\ \A ppm \in {0, 1, 500000, 900000, 999000, 1000000} :
       total.count > 0 =>
         LET exact == Exact(Rank(total.count, ppm))
             given == ValueAt(total, ppm)
         IN  /\ exact <= given /\ given <= total.max
             /\ (given - exact) * SubBuckets <= exact
  /\ Merged(reported, interval) = total

=============================================================================
