-------------------------- MODULE StandardCase_proofs --------------------------
(***************************************************************************)
(* Proofs about StandardCase, for every list of cases, every limit of the  *)
(* calibration and every duration that a clock, a backend or a benchmark   *)
(* function may report.                                                    *)
(***************************************************************************)
EXTENDS StandardCase, SequenceTheorems, TLAPS

Running == {"search", "warm_up", "sample", "diagnose"}
Measured == [index : Nat, duration : Nat]
MetricSet == [pass : {"sample", "diagnostic", "failed"}, index : Nat]
Reported == [case : Nat, execution_index : Nat, count : Nat,
             samples : Seq(Measured), aggregated : Seq(MetricSet),
             sample_metrics : Seq([sample_index : Nat, metrics : MetricSet]),
             energy : Seq(Nat \X MetricSet)]

-------------------------------------------------------------------------------
(* The arithmetic of the calibration *)

\* Clamping puts a number between two limits that are in order.
LEMMA ClampIsBetween ==
    ASSUME NEW n \in Int, NEW low \in Int, NEW high \in Int, low <= high
    PROVE  Clamp(n, low, high) \in low..high
BY DEF Clamp

\* Dividing a natural number by a positive one leaves a natural number.
LEMMA QuotientIsNat ==
    ASSUME NEW a \in Nat, NEW b \in Nat \ {0}
    PROVE  a \div b \in Nat
OBVIOUS

\* A product of natural numbers is one, and is positive if both are.
LEMMA ProductIsNat ==
    ASSUME NEW a \in Nat, NEW b \in Nat
    PROVE  a * b \in Nat /\ (a > 0 /\ b > 0 => a * b > 0)
OBVIOUS

\* A pass of the search asks for a chunk that is neither empty nor too large,
\* however long the last chunk seemed to take.
LEMMA ScaledIsWithinLimits ==
    ASSUME CaseAssumption, NEW size \in Nat \ {0}, NEW duration \in Nat
    PROVE  Scaled(size, duration) \in 1..MaxChunk
<1>1. /\ MinChunk \in Nat \ {0} /\ MaxChunk \in Nat /\ MinChunk <= MaxChunk
      /\ TargetDuration \in Nat \ {0}
  BY DEF CaseAssumption
<1>2. CASE duration = 0
  <2>1. Clamp(size * 10, 0, MaxChunk) \in 0..MaxChunk
    BY <1>1, ClampIsBetween
  <2>2. Clamp(size * 10, 0, MaxChunk) # 0
    BY <1>1 DEF Clamp
  <2>3. QED
    BY <1>1, <1>2, <2>1, <2>2 DEF Scaled
<1>3. CASE duration # 0
  <2>1. size * TargetDuration \in Nat
    BY <1>1, ProductIsNat
  <2> DEFINE total == 2 * size * TargetDuration + duration
  <2>2. total \in Nat
    <3>1. 2 * size \in Nat
      OBVIOUS
    <3>2. (2 * size) * TargetDuration \in Nat
      BY <1>1, <3>1, ProductIsNat
    <3>3. QED
      BY <3>2
  <2>3. total \div (2 * duration) \in Nat
    <3>1. 2 * duration \in Nat \ {0}
      BY <1>3
    <3> HIDE DEF total
    <3>2. QED
      BY <2>2, <3>1, QuotientIsNat
  <2> DEFINE wanted == total \div (2 * duration)
  <2>4. wanted \in Int
    BY <2>3
  <2>5. Scaled(size, duration) = Clamp(wanted, MinChunk, MaxChunk)
    BY <1>3 DEF Scaled
  <2> HIDE DEF wanted
  <2>6. Clamp(wanted, MinChunk, MaxChunk) \in MinChunk..MaxChunk
    BY <1>1, <2>4, ClampIsBetween
  <2>7. QED
    BY <1>1, <2>5, <2>6
<1>4. QED
  BY <1>2, <1>3

\* Whatever a chunk is estimated to take, a case runs between min_samples and
\* max_samples samples.
LEMMA TargetIsWithinLimits ==
    ASSUME CaseAssumption, NEW estimate \in Nat \X Nat
    PROVE  target_sample_count(estimate) \in MinSamples..MaxSamples
<1>1. /\ MinSamples \in Nat \ {0} /\ MaxSamples \in Nat
      /\ MinSamples <= MaxSamples /\ BenchmarkDuration \in Nat
  BY DEF CaseAssumption
<1>2. estimate[1] \in Nat /\ estimate[2] \in Nat
  OBVIOUS
<1>3. CASE estimate[1] = 0 \/ estimate[2] = 0
  BY <1>1, <1>3 DEF target_sample_count
<1>4. CASE estimate[1] # 0 /\ estimate[2] # 0
  <2>1. BenchmarkDuration * estimate[2] \in Nat
    BY <1>1, <1>2, ProductIsNat
  <2>2. (BenchmarkDuration * estimate[2]) \div estimate[1] \in Nat
    BY <1>2, <1>4, <2>1, QuotientIsNat
  <2> DEFINE wanted == (BenchmarkDuration * estimate[2]) \div estimate[1]
  <2>3. target_sample_count(estimate) = Clamp(wanted, MinSamples, MaxSamples)
    BY <1>4 DEF target_sample_count
  <2>4. wanted \in Int
    BY <2>2
  <2> HIDE DEF wanted
  <2>5. Clamp(wanted, MinSamples, MaxSamples) \in MinSamples..MaxSamples
    BY <1>1, <2>4 DEF Clamp
  <2>6. QED
    BY <2>3, <2>5
<1>5. QED
  BY <1>2, <1>3, <1>4

-------------------------------------------------------------------------------
(* The inductive invariant *)

CaseTypes ==
    /\ case \in 0..Len(Cases)
    /\ stage \in Running \cup {"next", "panicked"}
    /\ started \in 0..case /\ cooled \in 0..started
    /\ chunk \in Nat /\ tried \in 0..Passes
    /\ rate = <<>> \/ rate \in Nat \X (Nat \ {0})
    /\ warmUps \in 0..MaxWarmUps /\ warmUpTime \in Nat
    /\ target \in 0..MaxSamples

DataTypes ==
    /\ sample \in 0..target
    /\ results \in Seq(Measured) /\ metrics \in Seq(MetricSet)
    /\ diagnosed \in Seq(MetricSet)
    /\ session \in Seq(Reported)

\* A case that runs is one of the list, and has not been reported yet.
CaseIsOpen ==
    /\ stage \in Running => case > 0 /\ Len(session) < case
    /\ Len(session) <= case

\* The loop has pushed each sample and its metrics once, numbered from zero.
SamplesAreNumbered ==
    /\ Len(results) = sample /\ Len(metrics) = sample
    /\ \A k \in 1..sample :
          /\ results[k].index = k - 1
          /\ metrics[k] = [pass |-> "sample", index |-> k - 1]

\* The loop is over when the diagnostic passes begin, whose metrics are not
\* those of a sample.
DiagnosisComesLast ==
    /\ stage = "diagnose" => sample = target
    /\ \A k \in DOMAIN diagnosed : diagnosed[k].pass # "sample"

\* Nothing is measured while a case is calibrated.
CalibrationLeavesNoSamples ==
    stage \in {"search", "warm_up"} => sample = 0

RunnerInv ==
    /\ CaseTypes /\ DataTypes /\ CaseIsOpen
    /\ CalibrationLeavesNoSamples /\ DiagnosisComesLast
    /\ CalibrationWithinLimits
    /\ SamplesAreNumbered /\ SamplesAreIdentified

\* Before the first case nothing has been measured or reported.
LEMMA InitIsSound ==
    ASSUME CaseAssumption, Init
    PROVE  RunnerInv
<1>1. /\ MinChunk \in Nat \ {0} /\ MaxChunk \in Nat /\ Cases \in Seq(BenchCase)
      /\ Passes \in Nat /\ MaxWarmUps \in Nat /\ MaxSamples \in Nat
      /\ Len(Cases) \in Nat
  BY DEF CaseAssumption
<1>2. CaseTypes
  BY <1>1 DEF Init, CaseTypes, Running
<1>3. DataTypes
  BY DEF Init, DataTypes
<1>4. CaseIsOpen /\ CalibrationWithinLimits /\ SamplesAreNumbered
      /\ SamplesAreIdentified /\ CalibrationLeavesNoSamples /\ DiagnosisComesLast
  BY DEF Init, CaseIsOpen, CalibrationLeavesNoSamples, CalibrationWithinLimits,
         SamplesAreNumbered, DiagnosisComesLast, SamplesAreIdentified, Running
<1>5. QED
  BY <1>2, <1>3, <1>4 DEF RunnerInv

\* A case of the list has a preferred chunk size, which may be 0 for none.
LEMMA CaseHasChunk ==
    ASSUME CaseAssumption, NEW i \in 1..Len(Cases)
    PROVE  Cases[i] \in BenchCase /\ Cases[i].preferred \in Nat
           /\ Cases[i].diagnostics \in Nat
<1>1. Cases[i] \in BenchCase
  BY DEF CaseAssumption
<1>2. QED
  BY <1>1 DEF BenchCase

\* What the function or the clock reports is a duration.
LEMMA PrimaryIsDuration ==
    ASSUME CaseAssumption, NEW primary \in Primaries
    PROVE  primary \in Nat \cup {None} /\ (primary # None => primary \in Nat)
BY DEF CaseAssumption, Primaries, None

-------------------------------------------------------------------------------
(* Every step preserves it. *)

\* What has been reported stays as it is while no case ends.
LEMMA ReportsAreKept ==
    ASSUME SamplesAreIdentified, session' = session
    PROVE  SamplesAreIdentified'
BY DEF SamplesAreIdentified

\* A step of the calibration that pushes nothing keeps what has been collected
\* and reported.
LEMMA DataIsKept ==
    ASSUME DataTypes, SamplesAreNumbered, SamplesAreIdentified,
           CalibrationLeavesNoSamples, DiagnosisComesLast,
           UNCHANGED <<target, sample, results, metrics, diagnosed, session>>,
           stage' = stage \/ (stage = "search" /\ stage' \in {"search", "warm_up"})
    PROVE  /\ DataTypes' /\ SamplesAreNumbered' /\ SamplesAreIdentified'
           /\ CalibrationLeavesNoSamples' /\ DiagnosisComesLast'
<1>1. DataTypes'
  BY DEF DataTypes
<1>2. SamplesAreNumbered'
  BY DEF SamplesAreNumbered
<1>3. SamplesAreIdentified'
  BY ReportsAreKept
<1>4. CalibrationLeavesNoSamples' /\ DiagnosisComesLast'
  BY DEF CalibrationLeavesNoSamples, DiagnosisComesLast
<1>5. QED
  BY <1>1, <1>2, <1>3, <1>4

\* The calibration: a case begins, its chunk is searched for and warmed up.
LEMMA CalibrationKeepsInv ==
    ASSUME CaseAssumption, RunnerInv,
           \/ SkipCase \/ BeginCase \/ EndSearch \/ EndWarmUp
           \/ \E primary \in Primaries :
                 \/ \E host \in HostDurations : SearchChunk(host, primary)
                 \/ \E host \in HostDurations \ {0}, left \in BackendDurations :
                       WarmUp(host, left, primary)
    PROVE  RunnerInv'
<1> USE DEF RunnerInv
<1>a. /\ MinChunk \in Nat \ {0} /\ MaxChunk \in Nat /\ MinChunk <= MaxChunk
      /\ Passes \in Nat /\ MaxWarmUps \in Nat /\ TargetDuration \in Nat
      /\ MinSamples \in Nat \ {0} /\ MaxSamples \in Nat /\ Len(Cases) \in Nat
      /\ HostDurations \subseteq Nat /\ BackendDurations \subseteq Nat
  BY DEF CaseAssumption
<1>b. Len(session) \in Nat /\ session \in Seq(Reported)
  BY DEF DataTypes
<1>1. CASE SkipCase
  <2>1. /\ case' = case + 1 /\ case < Len(Cases) /\ stage = "next"
        /\ UNCHANGED <<stage, started, cooled, chunk, tried, rate, warmUps,
                       warmUpTime, target, sample, results, metrics, diagnosed, session>>
    BY <1>1 DEF SkipCase, search, warm, collected
  <2>2. CaseTypes'
    BY <1>a, <2>1 DEF CaseTypes
  <2>3. CaseIsOpen'
    BY <1>b, <2>1 DEF CaseIsOpen, Running, CaseTypes
  <2>4. DataTypes' /\ SamplesAreNumbered' /\ SamplesAreIdentified'
        /\ CalibrationLeavesNoSamples' /\ DiagnosisComesLast'
    BY <2>1, DataIsKept
  <2>5. CalibrationWithinLimits'
    BY <2>1 DEF CalibrationWithinLimits
  <2>6. QED
    BY <2>2, <2>3, <2>4, <2>5
<1>2. CASE BeginCase
  <2>1. /\ case' = case + 1 /\ case < Len(Cases) /\ stage = "next"
        /\ cooled' = cooled + Cooldown /\ started' = started + 1
        /\ tried' = 0 /\ rate' = <<>> /\ warmUps' = 0 /\ warmUpTime' = 0
        /\ target' = 0 /\ sample' = 0
        /\ results' = <<>> /\ metrics' = <<>> /\ diagnosed' = <<>>
        /\ session' = session
    BY <1>2 DEF BeginCase
  <2>2. case' \in 1..Len(Cases) /\ case \in Nat
    BY <1>a, <2>1 DEF CaseTypes
  <2>3. Cases[case'].preferred \in Nat
    BY <2>2, CaseHasChunk
  <2>4. \/ /\ Cases[case'].preferred # 0
           /\ stage' = "warm_up" /\ chunk' = Cases[case'].preferred
        \/ stage' = "search" /\ chunk' = MinChunk
    BY <1>2, <2>1 DEF BeginCase
  <2>5. CaseTypes'
    <3>1. started' \in 0..case' /\ cooled' \in 0..started'
      BY <2>1, <2>2 DEF CaseTypes, Cooldown
    <3>2. stage' \in Running /\ chunk' \in Nat
      BY <1>a, <2>3, <2>4 DEF Running
    <3>3. QED
      BY <1>a, <2>1, <2>2, <3>1, <3>2 DEF CaseTypes
  <2>6. DataTypes' /\ SamplesAreNumbered' /\ SamplesAreIdentified'
        /\ CalibrationLeavesNoSamples' /\ DiagnosisComesLast'
    <3>1. SamplesAreIdentified'
      BY <2>1, ReportsAreKept
    <3>2. QED
      BY <2>1, <3>1 DEF DataTypes, SamplesAreNumbered,
                        CalibrationLeavesNoSamples, DiagnosisComesLast
  <2>7. CaseIsOpen'
    BY <1>b, <2>1, <2>2 DEF CaseIsOpen
  <2>8. CalibrationWithinLimits'
    BY <1>a, <2>3, <2>4 DEF CalibrationWithinLimits, Fixed, Case
  <2>9. QED
    BY <2>5, <2>6, <2>7, <2>8
<1>3. CASE EndSearch
  <2>1. /\ stage = "search" /\ stage' = "warm_up"
        /\ UNCHANGED <<case, started, cooled, chunk, tried, rate, warmUps,
                       warmUpTime, target, sample, results, metrics, diagnosed, session>>
    BY <1>3 DEF EndSearch, search, warm, collected
  <2>2. CaseTypes' /\ CaseIsOpen'
    BY <2>1 DEF CaseTypes, CaseIsOpen, Running
  <2>3. DataTypes' /\ SamplesAreNumbered' /\ SamplesAreIdentified'
        /\ CalibrationLeavesNoSamples' /\ DiagnosisComesLast'
    BY <2>1, DataIsKept
  <2>4. CalibrationWithinLimits'
    BY <2>1 DEF CalibrationWithinLimits, Fixed, Case
  <2>5. QED
    BY <2>2, <2>3, <2>4
<1>4. CASE EndWarmUp
  <2>1. /\ stage = "warm_up" /\ stage' = "sample"
        /\ target' = target_sample_count(Estimate)
        /\ UNCHANGED <<case, started, cooled, chunk, tried, rate, warmUps,
                       warmUpTime, sample, results, metrics, diagnosed, session>>
    BY <1>4 DEF EndWarmUp, search, warm, collected
  <2>2. Estimate \in Nat \X Nat
    <3>1. CASE Fixed
      BY <1>a, <3>1 DEF Estimate, CaseTypes
    <3>2. CASE ~Fixed /\ rate = <<>>
      BY <1>a, <3>2 DEF Estimate
    <3>3. CASE ~Fixed /\ rate # <<>>
      <4>1. rate[1] \in Nat /\ rate[2] \in Nat /\ chunk \in Nat
        BY <3>3 DEF CaseTypes
      <4>2. chunk * rate[2] \in Nat
        BY <4>1, ProductIsNat
      <4>3. QED
        BY <3>3, <4>1, <4>2 DEF Estimate
    <3>4. QED
      BY <3>1, <3>2, <3>3
  <2>3. target' \in MinSamples..MaxSamples
    BY <2>1, <2>2, TargetIsWithinLimits
  <2>4. CaseTypes' /\ CaseIsOpen'
    BY <1>a, <2>1, <2>3 DEF CaseTypes, CaseIsOpen, Running
  <2>5. DataTypes'
    <3>1. sample' = 0 /\ 0 \in 0..target'
      BY <1>a, <2>1, <2>3 DEF CalibrationLeavesNoSamples
    <3>2. QED
      BY <2>1, <3>1 DEF DataTypes
  <2>6. SamplesAreNumbered' /\ SamplesAreIdentified' /\ CalibrationLeavesNoSamples' /\ DiagnosisComesLast'
    <3>1. SamplesAreIdentified'
      BY <2>1, ReportsAreKept
    <3>2. QED
      BY <2>1, <3>1 DEF SamplesAreNumbered, CalibrationLeavesNoSamples,
                        DiagnosisComesLast
  <2>7. CalibrationWithinLimits'
    BY <2>1, <2>3 DEF CalibrationWithinLimits, Fixed, Case
  <2>8. QED
    BY <2>4, <2>5, <2>6, <2>7
<1>5. ASSUME NEW primary \in Primaries, NEW host \in HostDurations,
             SearchChunk(host, primary)
      PROVE  RunnerInv'
  <2> DEFINE duration == IF primary = None THEN host ELSE primary
             next == Scaled(chunk, duration)
             found == duration # 0 /\ OnTarget(duration)
  <2>1. /\ stage = "search" /\ tried < Passes /\ tried' = tried + 1
        /\ UNCHANGED <<case, started, cooled, warmUps, warmUpTime, target,
                       sample, results, metrics, diagnosed, session>>
    BY <1>5 DEF SearchChunk, warm, collected
  <2>2. /\ rate' = (IF duration = 0 THEN rate ELSE <<chunk, duration>>)
        /\ chunk' = (IF found THEN chunk ELSE next)
        /\ stage' = (IF found \/ next = chunk THEN "warm_up" ELSE stage)
    BY <1>5 DEF SearchChunk
  <2>3. duration \in Nat
    BY <1>a, PrimaryIsDuration
  <2>4. chunk \in Nat \ {0} /\ (Fixed \/ chunk <= MaxChunk)
    BY <2>1 DEF CaseTypes, CalibrationWithinLimits
  <2>5. next \in 1..MaxChunk
    BY <2>3, <2>4, ScaledIsWithinLimits
  <2> HIDE DEF duration, next, found
  <2>6. /\ chunk' \in Nat \ {0} /\ (Fixed \/ chunk' <= MaxChunk)
        /\ stage' \in {"search", "warm_up"}
    BY <1>a, <2>1, <2>2, <2>4, <2>5
  <2>7. CaseTypes'
    <3>1. rate' = <<>> \/ rate' \in Nat \X (Nat \ {0})
      BY <2>2, <2>3, <2>4 DEF CaseTypes
    <3>2. tried' \in 0..Passes
      BY <1>a, <2>1 DEF CaseTypes
    <3>3. QED
      BY <2>1, <2>6, <3>1, <3>2 DEF CaseTypes, Running
  <2>8. CaseIsOpen'
    BY <2>1, <2>6 DEF CaseIsOpen, Running
  <2>9. DataTypes' /\ SamplesAreNumbered' /\ SamplesAreIdentified'
        /\ CalibrationLeavesNoSamples' /\ DiagnosisComesLast'
    BY <2>1, <2>6, DataIsKept
  <2>10. CalibrationWithinLimits'
    BY <2>1, <2>6 DEF CalibrationWithinLimits, Fixed, Case
  <2>11. QED
    BY <2>7, <2>8, <2>9, <2>10
<1>6. ASSUME NEW primary \in Primaries, NEW host \in HostDurations \ {0},
             NEW left \in BackendDurations, WarmUp(host, left, primary)
      PROVE  RunnerInv'
  <2> DEFINE reported == IF primary = None THEN left ELSE primary
             counted == IF reported > 0 THEN reported ELSE host
  <2>1. /\ stage = "warm_up" /\ warmUps < MaxWarmUps /\ warmUps' = warmUps + 1
        /\ UNCHANGED <<case, stage, started, cooled, chunk, tried, rate, target,
                       sample, results, metrics, diagnosed, session>>
    BY <1>6 DEF WarmUp, search, collected
  <2>2. warmUpTime' = (IF ~Fixed THEN warmUpTime ELSE warmUpTime + counted)
    BY <1>6 DEF WarmUp
  <2>3. counted \in Nat
    BY <1>a, PrimaryIsDuration
  <2> HIDE DEF counted
  <2>4. CaseTypes'
    <3>1. warmUpTime' \in Nat /\ warmUps' \in 0..MaxWarmUps
      BY <1>a, <2>1, <2>2, <2>3 DEF CaseTypes
    <3>2. QED
      BY <2>1, <3>1 DEF CaseTypes
  <2>5. CaseIsOpen'
    BY <2>1 DEF CaseIsOpen
  <2>6. DataTypes' /\ SamplesAreNumbered' /\ SamplesAreIdentified'
        /\ CalibrationLeavesNoSamples' /\ DiagnosisComesLast'
    BY <2>1, DataIsKept
  <2>7. CalibrationWithinLimits'
    BY <2>1 DEF CalibrationWithinLimits, Fixed, Case
  <2>8. QED
    BY <2>4, <2>5, <2>6, <2>7
<1>7. QED
  BY <1>1, <1>2, <1>3, <1>4, <1>5, <1>6

\* What the loop and the diagnostic passes have pushed is cut and paired so that
\* every sample keeps its own metrics.
LEMMA ReportIsIdentified ==
    ASSUME CaseAssumption, RunnerInv, stage = "diagnose"
    PROVE  /\ AllMetrics \in Seq(MetricSet)
           /\ PersistedMetrics \in Seq([sample_index : Nat, metrics : MetricSet])
           /\ EnergyPairs \in Seq(Nat \X MetricSet)
           /\ Len(results) = target
           /\ Len(PersistedMetrics) = target /\ Len(EnergyPairs) = target
           /\ \A k \in 1..target :
                 /\ results[k].index = k - 1
                 /\ PersistedMetrics[k] =
                       [sample_index |-> k - 1,
                        metrics |-> [pass |-> "sample", index |-> k - 1]]
                 /\ EnergyPairs[k] =
                       <<k - 1, [pass |-> "sample", index |-> k - 1]>>
           /\ \A k \in DOMAIN AllMetrics :
                 AllMetrics[k].pass = "sample" <=> k <= target
<1>1. /\ results \in Seq(Measured) /\ metrics \in Seq(MetricSet)
      /\ diagnosed \in Seq(MetricSet) /\ target \in Nat
  BY DEF RunnerInv, DataTypes, CaseTypes, CaseAssumption
<1>2. sample = target
  BY DEF RunnerInv, DiagnosisComesLast
<1>3. /\ Len(results) = target /\ Len(metrics) = target
      /\ \A k \in 1..target :
            /\ results[k].index = k - 1
            /\ metrics[k] = [pass |-> "sample", index |-> k - 1]
  BY <1>2 DEF RunnerInv, SamplesAreNumbered
<1>4. \A k \in DOMAIN diagnosed : diagnosed[k].pass # "sample"
  BY DEF RunnerInv, DiagnosisComesLast
<1>5. /\ AllMetrics \in Seq(MetricSet)
      /\ Len(AllMetrics) = target + Len(diagnosed)
      /\ \A k \in 1..target : AllMetrics[k] = metrics[k]
      /\ \A k \in (target + 1)..(target + Len(diagnosed)) :
            AllMetrics[k] = diagnosed[k - target]
  <2>1. DOMAIN metrics = 1..target /\ Len(diagnosed) \in Nat
    BY <1>1, <1>3
  <2>2. \A k \in 1..target : AllMetrics[k] = metrics[k]
    BY <1>1, <1>3, <2>1 DEF AllMetrics
  <2>3. ASSUME NEW k \in (target + 1)..(target + Len(diagnosed))
        PROVE  AllMetrics[k] = diagnosed[k - target]
    BY <1>1, <1>3, <2>1 DEF AllMetrics
  <2>4. AllMetrics \in Seq(MetricSet) /\ Len(AllMetrics) = target + Len(diagnosed)
    BY <1>1, <1>3, ConcatProperties DEF AllMetrics
  <2>5. QED
    BY <2>2, <2>3, <2>4
<1>6. Clamp(target, 0, Len(AllMetrics)) = target
  BY <1>1, <1>5 DEF Clamp
<1>7. Clamp(target, 0, Len(results)) = target
  BY <1>1, <1>3 DEF Clamp
<1>8. PersistedMetrics =
         [k \in 1..target |-> [sample_index |-> k - 1, metrics |-> AllMetrics[k]]]
  BY <1>6 DEF PersistedMetrics
<1>9. EnergyPairs = [k \in 1..target |-> <<results[k].index, AllMetrics[k]>>]
  BY <1>6, <1>7 DEF EnergyPairs
<1>10. \A k \in 1..target : AllMetrics[k] = [pass |-> "sample", index |-> k - 1]
  BY <1>3, <1>5
<1>11. \A k \in 1..target : AllMetrics[k] \in MetricSet /\ k - 1 \in Nat
  BY <1>1, <1>3, <1>5
<1> HIDE DEF AllMetrics
<1>12. /\ PersistedMetrics \in Seq([sample_index : Nat, metrics : MetricSet])
       /\ Len(PersistedMetrics) = target
  BY <1>1, <1>8, <1>11
<1>13. /\ EnergyPairs \in Seq(Nat \X MetricSet) /\ Len(EnergyPairs) = target
  <2>1. \A k \in 1..target : <<results[k].index, AllMetrics[k]>> \in Nat \X MetricSet
    BY <1>3, <1>11
  <2> DEFINE pair(k) == <<results[k].index, AllMetrics[k]>>
  <2>2. EnergyPairs = [k \in 1..target |-> pair(k)]
    BY <1>9
  <2>3. \A k \in 1..target : pair(k) \in Nat \X MetricSet
    BY <2>1
  <2> HIDE DEF pair
  <2>4. QED
    BY <1>1, <2>2, <2>3
<1>14. ASSUME NEW k \in DOMAIN AllMetrics
       PROVE  AllMetrics[k].pass = "sample" <=> k <= target
  <2>1. k \in 1..(target + Len(diagnosed)) /\ Len(diagnosed) \in Nat
    BY <1>1, <1>5
  <2>2. CASE k <= target
    <3>1. k \in 1..target
      BY <1>1, <2>1, <2>2
    <3>2. AllMetrics[k] = [pass |-> "sample", index |-> k - 1]
      BY <1>10, <3>1
    <3>3. QED
      BY <2>2, <3>2
  <2>3. CASE ~(k <= target)
    <3>1. k - target \in DOMAIN diagnosed /\ AllMetrics[k] = diagnosed[k - target]
      BY <1>1, <1>5, <2>1, <2>3
    <3>2. QED
      BY <1>4, <2>3, <3>1
  <2>4. QED
    BY <2>2, <2>3
<1>15. QED
  BY <1>3, <1>5, <1>8, <1>9, <1>10, <1>12, <1>13, <1>14

\* The measurement: samples are taken, diagnosed and reported, or the case
\* panics.
LEMMA MeasurementKeepsInv ==
    ASSUME CaseAssumption, RunnerInv,
           \/ \E primary \in Primaries, left \in BackendDurations :
                 Sample(left, primary)
           \/ EndSamples \/ Report \/ CasePanics
           \/ \E outcome \in {"diagnostic", "failed"} : Diagnose(outcome)
    PROVE  RunnerInv'
<1> USE DEF RunnerInv
<1>a. BackendDurations \subseteq Nat /\ MaxSamples \in Nat
  BY DEF CaseAssumption
<1>b. /\ results \in Seq(Measured) /\ metrics \in Seq(MetricSet)
      /\ session \in Seq(Reported) /\ Len(session) \in Nat
      /\ diagnosed \in Seq(MetricSet)
      /\ target \in Nat /\ sample \in 0..target
      /\ Len(results) = sample /\ Len(metrics) = sample
  BY <1>a DEF DataTypes, CaseTypes, SamplesAreNumbered
<1>1. ASSUME NEW primary \in Primaries, NEW left \in BackendDurations,
             Sample(left, primary)
      PROVE  RunnerInv'
  <2> DEFINE taken == Measurement(left, primary)
             left_metrics == SampleMetrics
  <2>1. /\ stage = "sample" /\ sample < target
        /\ results' = Append(results, taken)
        /\ metrics' = Append(metrics, left_metrics)
        /\ sample' = sample + 1
        /\ UNCHANGED <<case, stage, started, cooled, chunk, tried, rate, warmUps,
                       warmUpTime, target, diagnosed, session>>
    BY <1>1 DEF Sample, search, warm
  <2>2. /\ taken \in Measured /\ taken.index = sample
        /\ left_metrics \in MetricSet
        /\ left_metrics = [pass |-> "sample", index |-> sample]
    BY <1>a, <1>b, PrimaryIsDuration
    DEF Measurement, Measured, SampleMetrics, MetricSet, ChunkIndex
  <2> HIDE DEF taken, left_metrics
  <2>3. /\ results' \in Seq(Measured) /\ Len(results') = sample + 1
        /\ \A k \in 1..sample : results'[k] = results[k]
        /\ results'[sample + 1] = taken
    BY <1>b, <2>1, <2>2
  <2>4. /\ metrics' \in Seq(MetricSet) /\ Len(metrics') = sample + 1
        /\ \A k \in 1..sample : metrics'[k] = metrics[k]
        /\ metrics'[sample + 1] = left_metrics
    <3>1. left_metrics \in MetricSet /\ metrics' = Append(metrics, left_metrics)
      BY <2>1, <2>2
    <3>2. QED
      BY <1>b, <3>1, AppendProperties
  <2>5. CaseTypes' /\ CaseIsOpen'
    BY <2>1 DEF CaseTypes, CaseIsOpen
  <2>6. DataTypes'
    BY <1>b, <2>1, <2>3, <2>4 DEF DataTypes
  <2>7. SamplesAreNumbered'
    <3> SUFFICES ASSUME NEW k \in 1..(sample + 1)
                 PROVE  /\ results'[k].index = k - 1
                        /\ metrics'[k] = [pass |-> "sample", index |-> k - 1]
      BY <2>1, <2>3, <2>4 DEF SamplesAreNumbered
    <3>1. CASE k \in 1..sample
      BY <2>3, <2>4, <3>1 DEF SamplesAreNumbered
    <3>2. CASE k = sample + 1
      BY <1>b, <2>2, <2>3, <2>4, <3>2
    <3>3. QED
      BY <1>b, <3>1, <3>2
  <2>8. SamplesAreIdentified' /\ CalibrationLeavesNoSamples' /\ DiagnosisComesLast'
    <3>1. SamplesAreIdentified'
      BY <2>1, ReportsAreKept
    <3>2. QED
      BY <2>1, <3>1 DEF CalibrationLeavesNoSamples, DiagnosisComesLast
  <2>9. CalibrationWithinLimits'
    BY <2>1 DEF CalibrationWithinLimits, Fixed, Case
  <2>10. QED
    BY <2>5, <2>6, <2>7, <2>8, <2>9
<1>2. ASSUME EndSamples \/ CasePanics
      PROVE  RunnerInv'
  <2>1. /\ \/ stage = "sample" /\ stage' = "diagnose" /\ sample = target
           \/ stage' = "panicked"
        /\ UNCHANGED <<case, started, cooled, chunk, tried, rate, warmUps,
                       warmUpTime, target, sample, results, metrics, diagnosed,
                       session>>
    BY <1>2 DEF EndSamples, CasePanics, search, warm, collected
  <2>2. CaseTypes' /\ CaseIsOpen'
    BY <2>1 DEF CaseTypes, CaseIsOpen, Running
  <2>3. DataTypes' /\ SamplesAreNumbered' /\ SamplesAreIdentified'
        /\ CalibrationLeavesNoSamples' /\ DiagnosisComesLast'
    <3>1. DataTypes'
      BY <2>1 DEF DataTypes
    <3>2. SamplesAreNumbered'
      BY <2>1 DEF SamplesAreNumbered
    <3>3. SamplesAreIdentified'
      BY <2>1, ReportsAreKept
    <3>4. CalibrationLeavesNoSamples' /\ DiagnosisComesLast'
      BY <2>1 DEF CalibrationLeavesNoSamples, DiagnosisComesLast
    <3>5. QED
      BY <3>1, <3>2, <3>3, <3>4
  <2>4. CalibrationWithinLimits'
    BY <2>1 DEF CalibrationWithinLimits, Fixed, Case
  <2>5. QED
    BY <2>2, <2>3, <2>4
<1>3. ASSUME NEW outcome \in {"diagnostic", "failed"}, Diagnose(outcome)
      PROVE  RunnerInv'
  <2> DEFINE entry == [pass |-> outcome, index |-> Len(diagnosed)]
  <2>1. /\ diagnosed' = Append(diagnosed, entry) /\ stage = "diagnose"
        /\ UNCHANGED <<case, stage, started, cooled, chunk, tried, rate, warmUps,
                       warmUpTime, target, sample, results, metrics, session>>
    BY <1>3 DEF Diagnose, search, warm
  <2>2. entry \in MetricSet /\ entry.pass # "sample"
    BY <1>b DEF MetricSet
  <2> HIDE DEF entry
  <2>3. /\ diagnosed' \in Seq(MetricSet)
        /\ \A k \in DOMAIN diagnosed' : k \in DOMAIN diagnosed \/ diagnosed'[k] = entry
        /\ \A k \in DOMAIN diagnosed : diagnosed'[k] = diagnosed[k]
    BY <1>b, <2>1, <2>2
  <2>4. CaseTypes' /\ CaseIsOpen' /\ DataTypes'
    BY <2>1, <2>3 DEF CaseTypes, CaseIsOpen, DataTypes
  <2>5. DiagnosisComesLast'
    BY <2>1, <2>2, <2>3 DEF DiagnosisComesLast
  <2>6. SamplesAreNumbered' /\ SamplesAreIdentified' /\ CalibrationLeavesNoSamples'
    <3>1. SamplesAreIdentified'
      BY <2>1, ReportsAreKept
    <3>2. QED
      BY <2>1, <3>1 DEF SamplesAreNumbered, CalibrationLeavesNoSamples
  <2>7. CalibrationWithinLimits'
    BY <2>1 DEF CalibrationWithinLimits, Fixed, Case
  <2>8. QED
    BY <2>4, <2>5, <2>6, <2>7
<1>4. CASE Report
  <2> DEFINE record == [case |-> case, execution_index |-> Len(session),
                        count |-> target, samples |-> results,
                        aggregated |-> AllMetrics,
                        sample_metrics |-> PersistedMetrics,
                        energy |-> EnergyPairs]
             Identified(of) ==
                /\ Len(of.samples) = of.count /\ Len(of.sample_metrics) = of.count
                /\ Len(of.energy) = of.count
                /\ \A k \in 1..of.count :
                      /\ of.samples[k].index = k - 1
                      /\ of.sample_metrics[k] =
                            [sample_index |-> k - 1,
                             metrics |-> [pass |-> "sample", index |-> k - 1]]
                      /\ of.energy[k] =
                            <<k - 1, [pass |-> "sample", index |-> k - 1]>>
                /\ \A k \in DOMAIN of.aggregated :
                      of.aggregated[k].pass = "sample" <=> k <= of.count
  <2>1. /\ stage = "diagnose" /\ stage' = "next"
        /\ session' = Append(session, record)
        /\ UNCHANGED <<case, started, cooled, chunk, tried, rate, warmUps,
                       warmUpTime, target, sample, results, metrics, diagnosed>>
    BY <1>4 DEF Report, search, warm, collected
  <2>2. record \in Reported
    <3>1. case \in Nat
      BY DEF CaseTypes
    <3>2. /\ AllMetrics \in Seq(MetricSet)
          /\ PersistedMetrics \in Seq([sample_index : Nat, metrics : MetricSet])
          /\ EnergyPairs \in Seq(Nat \X MetricSet)
      BY <2>1, ReportIsIdentified
    <3>3. QED
      BY <1>b, <3>1, <3>2 DEF Reported
  <2>3. Identified(record)
    BY <2>1, ReportIsIdentified
  <2> HIDE DEF record
  <2>4. /\ session' \in Seq(Reported) /\ Len(session') = Len(session) + 1
        /\ \A i \in 1..Len(session) : session'[i] = session[i]
        /\ session'[Len(session) + 1] = record
    BY <1>b, <2>1, <2>2
  <2>5. CaseTypes'
    BY <2>1 DEF CaseTypes, Running
  <2>6. CaseIsOpen'
    <3>1. case \in Nat /\ Len(session) < case
      BY <2>1 DEF CaseTypes, CaseIsOpen, Running
    <3>2. Len(session') <= case' /\ stage' \notin Running
      BY <1>b, <2>1, <2>4, <3>1 DEF Running
    <3>3. QED
      BY <3>2 DEF CaseIsOpen
  <2>7. DataTypes' /\ SamplesAreNumbered' /\ CalibrationLeavesNoSamples'
        /\ DiagnosisComesLast'
    BY <2>1, <2>4 DEF DataTypes, SamplesAreNumbered, CalibrationLeavesNoSamples,
                      DiagnosisComesLast
  <2>8. SamplesAreIdentified'
    <3>1. \A i \in DOMAIN session : Identified(session[i])
      BY DEF SamplesAreIdentified
    <3> HIDE DEF Identified
    <3>2. \A i \in DOMAIN session' : Identified(session'[i])
      <4> SUFFICES ASSUME NEW i \in 1..(Len(session) + 1)
                   PROVE  Identified(session'[i])
        BY <2>4
      <4>1. CASE i \in 1..Len(session)
        <5>1. session'[i] = session[i] /\ i \in DOMAIN session
          BY <1>b, <2>4, <4>1
        <5>2. QED
          BY <3>1, <5>1
      <4>2. CASE i = Len(session) + 1
        BY <2>3, <2>4, <4>2
      <4>3. QED
        BY <1>b, <4>1, <4>2
    <3>3. QED
      BY <3>2 DEF SamplesAreIdentified, Identified
  <2>9. CalibrationWithinLimits'
    BY <2>1 DEF CalibrationWithinLimits
  <2>10. QED
    BY <2>5, <2>6, <2>7, <2>8, <2>9
<1>5. QED
  BY <1>1, <1>2, <1>3, <1>4

\* Every step of the runner keeps its invariant.
LEMMA StepKeepsInv ==
    ASSUME CaseAssumption, RunnerInv, [Next]_vars
    PROVE  RunnerInv'
<1>1. CASE UNCHANGED vars
  <2>1. UNCHANGED <<case, stage, started, cooled, chunk, tried, rate, warmUps,
                    warmUpTime, target, sample, results, metrics, diagnosed, session>>
    BY <1>1 DEF vars, search, warm, collected
  <2>2. QED
    BY <2>1 DEF RunnerInv, CaseTypes, DataTypes, CaseIsOpen, SamplesAreNumbered,
                CalibrationLeavesNoSamples, DiagnosisComesLast,
                CalibrationWithinLimits, Fixed, Case,
                SamplesAreIdentified
<1>2. CASE RunnerStep
  BY <1>2, CalibrationKeepsInv, MeasurementKeepsInv DEF RunnerStep
<1>3. QED
  BY <1>1, <1>2 DEF Next, Terminating

-------------------------------------------------------------------------------
(* What the runner guarantees, in every reachable state *)

\* The inductive invariant of the runner holds in every behaviour.
THEOREM RunnerInvHolds == Spec => []RunnerInv
<1>1. Init => RunnerInv
  BY CaseAssumption, InitIsSound
<1>2. RunnerInv /\ [Next]_vars => RunnerInv'
  BY CaseAssumption, StepKeepsInv
<1>3. QED
  BY <1>1, <1>2, PTL DEF Spec

\* Every variable of the runner keeps its type and its bound.
THEOREM RunnerTypeCorrect == Spec => []TypeOK
<1>1. RunnerInv => TypeOK
  BY DEF RunnerInv, CaseTypes, DataTypes, CaseIsOpen, SamplesAreNumbered, TypeOK, Running
<1>2. QED
  BY <1>1, RunnerInvHolds, PTL

\* calibrate_engine: whatever is measured, a chunk is neither empty nor larger
\* than the limit of the search, and a case runs between min_samples and
\* max_samples samples.
THEOREM CalibrationIsBounded == Spec => []CalibrationWithinLimits
<1>1. RunnerInv => CalibrationWithinLimits
  BY DEF RunnerInv
<1>2. QED
  BY <1>1, RunnerInvHolds, PTL

\* run_with_chunk_factory_and_throughput and benchmark_stats_from_samples: a case
\* persists as many samples as it was to take, each with the metrics and the
\* energy of its own window and none of a diagnostic pass, although the passes
\* extend the same vector.
THEOREM PersistedSamplesAreSound == Spec => []SamplesAreIdentified
<1>1. RunnerInv => SamplesAreIdentified
  BY DEF RunnerInv
<1>2. QED
  BY <1>1, RunnerInvHolds, PTL
===============================================================================
