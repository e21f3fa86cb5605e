------------------------------- MODULE Sizing -------------------------------
(***************************************************************************)
(* pkg/analyzer/recommender.go, and generateObservations of analyzer.go:   *)
(* sizes from percentiles, instance types, and what is said of containers. *)
(*                                                                         *)
(* Usage, headroom and memory are float64 in the code, hence multiples of  *)
(* some fraction of a percent or gigabyte: they are counted in these parts.*)
(***************************************************************************)
EXTENDS Integers, Sequences, FiniteSets

CONSTANTS
  Precision,     \* the parts of a percent and of a gigabyte
  Ulp            \* a computed number is off by at most one in Ulp; five
                 \* operations on float64 have more than 2^50

ASSUME SizingAssumption == Precision \in Nat \ {0} /\ Ulp \in Nat \ {0}

\* analyze/main.go: a flag of zero means what DetectSystemInfo found.
CurrentSize(flag, detected) == IF flag = 0 THEN detected ELSE flag

Ceil(n, d) == IF n % d = 0 THEN n \div d ELSE n \div d + 1

\* Bounds of a number that was computed instead of n.
Least(n) == n - Ceil(n, Ulp)
Most(n) == n + Ceil(n, Ulp)

\* Mutant of CeilFloat: rounding to the nearest integer.
CeilFloatRounds(n, d) == {(n + d \div 2) \div d}

\* math.Ceil of a float64 near n / d: 1.1 * 100 comes out above 110, and a
\* number a little above an integer may come out as the integer.
CeilFloat(n, d) == Ceil(Least(n), d) .. Ceil(Most(n), d)

AtLeastOne(n) == IF n < 1 THEN 1 ELSE n

\* What a usage of p of a size needs with the headroom; Whole stands for one
\* core or for one part of a gigabyte.
Need(size, p, headroom) == size * p * (100 * Precision + headroom)
Whole == 10000 * Precision * Precision

\* Mutant of RecommendedCPUs: the headroom of the flags is not used.
RecommendedCPUsBare(p, headroom, cores) ==
  {AtLeastOne(n) : n \in CeilFloat(Need(cores, p, 0), Whole)}

\* The cores for a usage of p of the current ones; if those are not known,
\* for a utilization of 80 percent of two.
RecommendedCPUs(p, headroom, cores) ==
  {AtLeastOne(n) : n \in IF cores > 0 THEN CeilFloat(Need(cores, p, headroom), Whole)
                                      ELSE CeilFloat(2 * p, 80 * Precision)}

\* The gigabytes for a usage of p of the current memory; if that is not known,
\* two for each recommended core, or four if p is high.
RecommendedMemory(p, headroom, memory, cpus) ==
  IF memory > 0 THEN CeilFloat(Need(memory, p, headroom), Precision * Whole)
  ELSE {IF p > 50 * Precision THEN 4 * cpus ELSE 2 * cpus}

\* generateObservations: is the 95th percentile low or high?
Observation(p95, low, high) ==
  IF p95 < low * Precision THEN "underutilized"
  ELSE IF p95 > high * Precision THEN "heavy"
  ELSE "none"

CPUObservation(p95) == Observation(p95, 30, 80)
MemoryObservation(p95) == Observation(p95, 40, 85)

\* What the rationale says; an increase comes with a warning.
Advice(recommended, current) ==
  IF current <= 0 THEN "unknown"
  ELSE IF recommended < current THEN "reduce"
  ELSE IF recommended > current THEN "increase"
  ELSE "appropriate"

-----------------------------------------------------------------------------
(***************************************************************************)
(* The tables of instance types.  A type is its series and the number of   *)
(* cores up to which it is suggested.                                      *)
(***************************************************************************)
Smallest(S) == {n \in S : \A m \in S : n <= m}

Types(series, S) == {<<series, n>> : n \in Smallest(S)}

\* Mutant of SuggestAWS: the last row of the table for t3 is missing.
SuggestAWSLess(cpus, memory, burstable) ==
  IF burstable
    THEN Types("t3", {n \in {2, 4} : cpus <= n /\ memory <= 4 * n})
  ELSE IF memory < 3 * cpus
    THEN Types("c5", {n \in {2, 4, 8, 16} : cpus <= n})
  ELSE Types("m5", {n \in {2, 4, 8, 16} : cpus <= n /\ memory <= 4 * n})

\* suggestAWSInstances: the memory is checked for t3 and m5, not for c5.
SuggestAWS(cpus, memory, burstable) ==
  IF burstable
    THEN Types("t3", {n \in {2, 4, 8} : cpus <= n /\ memory <= 4 * n})
  ELSE IF memory < 3 * cpus
    THEN Types("c5", {n \in {2, 4, 8, 16} : cpus <= n})
  ELSE Types("m5", {n \in {2, 4, 8, 16} : cpus <= n /\ memory <= 4 * n})

\* suggestOTCInstances, by the cores and the series only.
SuggestOTC(cpus, memory) ==
  IF memory < 3 * cpus THEN Types("c3", {n \in {2, 4, 8} : cpus <= n})
  ELSE IF memory > 6 * cpus THEN Types("m3", {n \in {2, 4, 8} : cpus <= n})
  ELSE Types("s3", {n \in {1, 2, 4, 8} : cpus <= n})

\* GenerateRecommendation asks for AWS types unless the pattern is scheduled.
Suggestions(pattern, cpus, memory) ==
  [AWS |-> IF pattern = "scheduled" THEN {}
           ELSE SuggestAWS(cpus, memory, pattern = "bursty"),
   OTC |-> SuggestOTC(cpus, memory)]

-----------------------------------------------------------------------------
(***************************************************************************)
(* Containers: p95 gives their 95th percentiles, host that of the host, in *)
(* percent.  A percentage of the host is zero if host is.                  *)
(***************************************************************************)
Above(used, host, percent) == host > 0 /\ 100 * used > percent * host
Below(used, host, percent) == host > 0 => 100 * used < percent * host

\* getTopN: the orders sort.Slice may give, which is not stable.
TopN(p95) ==
  {o \in [1 .. Cardinality(DOMAIN p95) -> DOMAIN p95] :
     \A i, j \in DOMAIN o :
       i < j => o[i] # o[j] /\ p95[o[i]] >= p95[o[j]]}

\* GenerateContainerInsights: what is said of the first container in an order,
\* and of the first three if there are three.
CPUInsight(p95, host, order) ==
  LET top == p95[order[1]]
      three == p95[order[1]] + p95[order[2]] + p95[order[3]]
  IN  [named |-> order[1],
       first |-> IF Above(top, host, 60) THEN "drives sizing"
                 ELSE IF Above(top, host, 40) THEN "largest"
                 ELSE "well-distributed",
       group |-> IF Len(order) < 3 THEN "none"
                 ELSE IF Above(three, host, 80) THEN "focus here"
                 ELSE IF Below(three, host, 30) THEN "evenly distributed"
                 ELSE "none"]

\* The same for memory, where p95 is in quarters of a gigabyte and host still
\* in percent: the code divides one by the other (container_analyzer.go:95).
MemoryInsight(p95, host, order) ==
  [named |-> order[1],
   first |-> IF Above(p95[order[1]], 4 * host, 60) THEN "uses much" ELSE "none",
   group |-> "none"]
=============================================================================
