------------------------------ MODULE Quantiles ------------------------------
(***************************************************************************)
(* The order statistics that the library computes in three places: when a  *)
(* case is summarised (src/bench/stats.rs), when the session summary       *)
(* compares two runs (src/session.rs) and when two persisted documents are *)
(* compared (src/comparison.rs).                                           *)
(*                                                                         *)
(* The code works on f64.  Here a sample is an integer and a percentile    *)
(* num/den is returned multiplied by den, so that the interpolation        *)
(* between two neighbours is exact: rounding is not modelled.              *)
(***************************************************************************)
EXTENDS Integers, SequencesExt

(* Fault: the caller forgets to sort before it asks for a percentile.      *)
Unsorted(values) == values

(* Each value in turn takes its place before the first that is greater.    *)
Placed(sorted, value) ==
  LET place == Min({i \in DOMAIN sorted : sorted[i] > value} \union {Len(sorted) + 1})
  IN  [i \in 1..(Len(sorted) + 1) |->
         IF i < place THEN sorted[i] ELSE IF i = place THEN value ELSE sorted[i - 1]]

Sorted(values) ==
  LET upTo[n \in 0..Len(values)] ==
        IF n = 0 THEN <<>> ELSE Placed(upTo[n - 1], values[n])
  IN  upTo[Len(values)]

Distance(a, b) == IF a < b THEN b - a ELSE a - b

Total(values) ==
  LET upTo[n \in 0..Len(values)] == IF n = 0 THEN 0 ELSE upTo[n - 1] + values[n]
  IN  upTo[Len(values)]

(* The values at some positions, in their order: filter_map and collect.   *)
ValuesAt(values, positions) ==
  LET upTo[n \in 0..Len(values)] ==
        IF n = 0 THEN <<>>
        ELSE IF n \in positions THEN Append(upTo[n - 1], values[n]) ELSE upTo[n - 1]
  IN  upTo[Len(values)]

(* Linear interpolation at position num*(n-1)/den of a sequence that the   *)
(* caller has sorted; a sequence that is not sorted is not noticed.        *)
PercentileOfSorted(sorted, num, den) ==
  LET position == num * (Len(sorted) - 1)
      lower    == position \div den
      weight   == position % den
  IN  IF sorted = <<>> THEN 0
      ELSE IF weight = 0 THEN sorted[lower + 1] * den
      ELSE sorted[lower + 1] * (den - weight) + sorted[lower + 2] * weight

(* The comparison's percentile sorts for itself.                           *)
Percentile(values, num, den) == PercentileOfSorted(Sorted(values), num, den)

(* 4 times the median of the distances to a median given times 2.          *)
MedianAbsoluteDeviation(values, median) ==
  LET deviations == [i \in DOMAIN values |-> Distance(2 * values[i], median)]
  IN  PercentileOfSorted(Sorted(deviations), 1, 2)

(* Samples further than one and a half interquartile ranges outside the    *)
(* quartiles; fewer than four samples have no outlier.                     *)
TukeyOutliers(sorted) ==
  LET q1  == PercentileOfSorted(sorted, 1, 4)
      q3  == PercentileOfSorted(sorted, 3, 4)
      out == {i \in DOMAIN sorted :
                \/ 8 * sorted[i] < 2 * q1 - 3 * (q3 - q1)
                \/ 8 * sorted[i] > 2 * q3 + 3 * (q3 - q1)}
  IN  IF Len(sorted) < 4 THEN 0 ELSE Cardinality(out)

(* The square of the coefficient of variation, as a fraction; there is     *)
(* none for an empty sequence or a mean of zero.                           *)
NoVariation == [over |-> 0, under |-> 0]
Variation(values) ==
  LET sum     == Total(values)
      squares == Total([i \in DOMAIN values |-> values[i] * values[i]])
  IN  IF values = <<>> \/ sum = 0 THEN NoVariation
      ELSE [over |-> Len(values) * squares - sum * sum, under |-> sum * sum]
==============================================================================
