----------------------------- MODULE Statistics -----------------------------
(***************************************************************************)
(* The statistics of the samples of a metric (pkg/analyzer/analyzer.go,    *)
(* with the same percentiles for containers).  Samples are a sequence of   *)
(* percentages; float64 arithmetic is exact here: a percentile is an       *)
(* integer in hundredths, a mean a sum to be divided by the number, and a  *)
(* standard deviation is compared by its square.                           *)
(***************************************************************************)
EXTENDS Integers, Sequences, FiniteSets, Functions

\* Mutant of Sorted: the samples are not sorted.
SortedNot(values, i) == values[i + 1]

\* sorted[i], counted from zero: the value with at most i samples below it
\* and more than i up to it.
Sorted(values, i) ==
  CHOOSE v \in {values[j] : j \in DOMAIN values} :
    /\ Cardinality({j \in DOMAIN values : values[j] < v}) <= i
    /\ Cardinality({j \in DOMAIN values : values[j] <= v}) > i

\* percentile: linear interpolation between the two samples at the index.
Percentile(values, p) ==
  LET index  == p * (Len(values) - 1)
      lower  == index \div 100
      weight == index % 100
  IN  IF weight = 0 THEN 100 * Sorted(values, lower)
      ELSE (100 - weight) * Sorted(values, lower) + weight * Sorted(values, lower + 1)

MinOf(values) == Sorted(values, 0)
MaxOf(values) == Sorted(values, Len(values) - 1)

Sum(values) == FoldFunction(LAMBDA x, y : x + y, 0, values)

\* Mutant of Spread: the sum of squares is not divided by the number.
SpreadUndivided(values) ==
  Len(values) * (Len(values) * Sum([i \in DOMAIN values |-> values[i] * values[i]])
                   - Sum(values) * Sum(values))

\* The square of the standard deviation, times the square of the number.
Spread(values) ==
  Len(values) * Sum([i \in DOMAIN values |-> values[i] * values[i]])
    - Sum(values) * Sum(values)

(***************************************************************************)
(* detectPattern, with its confidence in percent: by cv, the standard      *)
(* deviation divided by the mean, and by the maximum divided by the mean.  *)
(* When the mean is zero both are NaN and no comparison holds.             *)
(***************************************************************************)
DetectPattern(values) ==
  LET n == Len(values)
      s == Sum(values)
      cvBelow(a, b) == b * b * Spread(values) < a * a * s * s   \* cv < a / b
      cvAbove(a, b) == b * b * Spread(values) > a * a * s * s
      top == MaxOf(values) * n                                 \* to compare with s
  IN  IF cvBelow(1, 5) /\ 2 * top < 3 * s THEN <<"steady", 90>>
      ELSE IF cvAbove(1, 2) \/ top > 3 * s THEN <<"bursty", 80>>
      ELSE IF s > 0 /\ ~cvBelow(1, 5) /\ ~cvAbove(1, 2) THEN <<"scheduled", 60>>
      ELSE <<"steady", 50>>
=============================================================================
