-------------------------- MODULE Comparison_proofs --------------------------
(***************************************************************************)
(* Lemmas about the operators that the summary of a session and the        *)
(* comparison of two documents are built from: recursion along a list,     *)
(* totals, sorting and quantiles, and the pairing of equal identities.     *)
(***************************************************************************)
EXTENDS Comparison, FiniteSetTheorems, WellFoundedInduction, TLAPS

-------------------------------------------------------------------------------
(* Least indices *)

\* A set of indices has a least one.
LEMMA LeastIndex ==
    ASSUME NEW I, I \subseteq Nat, I # {}
    PROVE  Min(I) \in I /\ \A i \in I : Min(I) <= i
<1> DEFINE R == OpToRel(<, Nat)
<1>1. \E i \in I : \A j \in I : ~ (<<j, i>> \in R)
  BY WFMin, NatLessThanWellFounded
<1>2. \A i, j \in I : j < i => <<j, i>> \in R
  BY DEF OpToRel
<1> HIDE DEF R
<1>3. PICK i \in I : \A j \in I : ~ (<<j, i>> \in R)
  BY <1>1
<1>4. \A j \in I : i <= j
  <2> SUFFICES ASSUME NEW j \in I PROVE i <= j
    OBVIOUS
  <2>1. i \in Nat /\ j \in Nat
    OBVIOUS
  <2>2. ~(j < i)
    BY <1>2, <1>3
  <2>3. QED
    BY <2>1, <2>2
<1>5. QED
  BY <1>4 DEF Min

-------------------------------------------------------------------------------
(* Recursion along a list *)

\* Induction up to a number, over a set of numbers
LEMMA UpTo ==
    ASSUME NEW N \in Nat, NEW Good, 0 \in Good,
           \A i \in 1..N : i - 1 \in Good => i \in Good
    PROVE  \A i \in 0..N : i \in Good
<1> DEFINE Bad == {i \in 0..N : i \notin Good}
<1>1. SUFFICES ASSUME Bad # {} PROVE FALSE
  OBVIOUS
<1>2. Bad \subseteq Nat
  OBVIOUS
<1>3. PICK m \in Bad : \A i \in Bad : m <= i
  BY <1>1, <1>2, LeastIndex
<1>4. m \in 1..N /\ m - 1 \in 0..N /\ ~(m <= m - 1)
  BY <1>3
<1>5. m - 1 \in Good
  BY <1>3, <1>4
<1>6. QED
  BY <1>3, <1>4, <1>5

\* f has what a recursion gives after each element of a list.
Follows(f, N, S, base, step) ==
    /\ f \in [0..N -> S] /\ f[0] = base
    /\ \A i \in 1..N : f[i] = step[<<f[i - 1], i>>]

\* A recursion along a list has a solution.
LEMMA ListRecursion ==
    ASSUME NEW N \in Nat, NEW S, NEW base \in S, NEW step \in [S \X (1..N) -> S]
    PROVE  \E f : Follows(f, N, S, base, step)
<1> DEFINE Solves(f, n) == /\ f \in [0..n -> S] /\ f[0] = base
                           /\ \A i \in 1..n : f[i] = step[<<f[i - 1], i>>]
           Good == {n \in Nat : \E f : Solves(f, n)}
<1>1. 0 \in Good
  <2>1. Solves([i \in 0..0 |-> base], 0)
    OBVIOUS
  <2>2. QED
    BY <2>1
<1>2. ASSUME NEW n \in 1..N, n - 1 \in Good PROVE n \in Good
  <2>1. PICK f : Solves(f, n - 1)
    BY <1>2
  <2> DEFINE g == [i \in 0..n |-> IF i = n THEN step[<<f[n - 1], n>>] ELSE f[i]]
  <2>2. \A i \in 0..n : i # n => i \in 0..(n - 1)
    OBVIOUS
  <2>3. n - 1 \in 0..(n - 1) /\ n \in 0..n /\ 0 \in 0..n /\ n # 0
    OBVIOUS
  <2>4. f[n - 1] \in S /\ <<f[n - 1], n>> \in S \X (1..N)
    BY <2>1, <2>3
  <2>5. g \in [0..n -> S]
    BY <2>1, <2>2, <2>4
  <2>6. g[0] = base
    BY <2>1, <2>3
  <2>7. ASSUME NEW i \in 1..n PROVE g[i] = step[<<g[i - 1], i>>]
    <3>1. i - 1 \in 0..n /\ i - 1 # n /\ i \in 0..n
      OBVIOUS
    <3>2. g[i - 1] = f[i - 1]
      BY <3>1
    <3>3. CASE i = n
      BY <3>1, <3>2, <3>3
    <3>4. CASE i # n
      <4>1. i \in 1..(n - 1) /\ g[i] = f[i]
        BY <3>1, <3>4
      <4>2. QED
        BY <2>1, <3>2, <4>1
    <3>5. QED
      BY <3>3, <3>4
  <2> HIDE DEF g
  <2>8. Solves(g, n)
    BY <2>5, <2>6, <2>7
  <2>9. QED
    BY <2>8
<1> HIDE DEF Good
<1>3. N \in Good
  BY <1>1, <1>2, UpTo
<1>4. PICK f : Solves(f, N)
  BY <1>3 DEF Good
<1>5. QED
  BY <1>4 DEF Follows
-------------------------------------------------------------------------------
(* Totals *)

\* What Total has after each value
TotalUpTo(values) ==
    CHOOSE f : f = [n \in 0..Len(values) |-> IF n = 0 THEN 0 ELSE f[n - 1] + values[n]]

\* A total of whole numbers grows by each of them.
LEMMA TotalStep ==
    ASSUME NEW values \in Seq(Int)
    PROVE  /\ Total(values) = TotalUpTo(values)[Len(values)]
           /\ TotalUpTo(values)[0] = 0
           /\ \A n \in 1..Len(values) :
                 TotalUpTo(values)[n] = TotalUpTo(values)[n - 1] + values[n]
           /\ \A n \in 0..Len(values) : TotalUpTo(values)[n] \in Int
<1> DEFINE N == Len(values)
           step == [at \in Int \X (1..N) |-> at[1] + values[at[2]]]
           f == TotalUpTo(values)
<1>1. N \in Nat /\ \A n \in 1..N : values[n] \in Int
  OBVIOUS
<1>2. step \in [Int \X (1..N) -> Int]
  BY <1>1
<1>3. \A s \in Int, n \in 1..N : step[<<s, n>>] = s + values[n]
  OBVIOUS
<1> HIDE DEF step, N
<1>4. PICK g \in [0..N -> Int] :
        g[0] = 0 /\ \A i \in 1..N : g[i] = step[<<g[i - 1], i>>]
  <2> DEFINE sums == Int
             none == 0
  <2>1. none \in sums /\ N \in Nat
    BY <1>1
  <2>2. step \in [sums \X (1..N) -> sums]
    BY <1>2
  <2> HIDE DEF sums, none
  <2>3. \E g : Follows(g, N, sums, none, step)
    BY <2>1, <2>2, ListRecursion
  <2>4. QED
    BY <2>3 DEF Follows, sums, none
<1>5. ASSUME NEW i \in 0..N, i # 0
      PROVE  g[i] = g[i - 1] + values[i]
  <2>1. i \in 1..N /\ i - 1 \in 0..N
    BY <1>1, <1>5
  <2>2. g[i - 1] \in Int
    BY <1>4, <2>1
  <2>3. QED
    BY <1>3, <1>4, <2>1, <2>2
<1>6. g = [i \in 0..N |-> IF i = 0 THEN 0 ELSE g[i - 1] + values[i]]
  BY <1>4, <1>5
<1>7. f = [n \in 0..N |-> IF n = 0 THEN 0 ELSE f[n - 1] + values[n]]
  BY <1>6 DEF TotalUpTo, N
<1>8. 0 \in 0..N /\ \A n \in 1..N : n \in 0..N /\ n # 0
  BY <1>1
<1> HIDE DEF f
<1>9. f[0] = 0 /\ \A n \in 1..N : f[n] = f[n - 1] + values[n]
  BY <1>7, <1>8
<1>10. \A n \in 0..N : f[n] \in Int
  <2> DEFINE Good == {n \in 0..N : f[n] \in Int}
  <2>1. 0 \in Good
    BY <1>8, <1>9
  <2>2. ASSUME NEW n \in 1..N, n - 1 \in Good PROVE n \in Good
    <3>1. f[n] = f[n - 1] + values[n] /\ values[n] \in Int /\ n \in 0..N
      BY <1>1, <1>8, <1>9
    <3>2. f[n - 1] \in Int
      BY <2>2
    <3>3. QED
      BY <3>1, <3>2
  <2> HIDE DEF Good
  <2>3. \A n \in 0..N : n \in Good
    BY <1>1, <2>1, <2>2, UpTo
  <2>4. QED
    BY <2>3 DEF Good
<1>11. Total(values) = f[N]
  BY DEF Total, TotalUpTo, f, N
<1>12. QED
  BY <1>9, <1>10, <1>11 DEF f, N

\* A total of natural numbers is one.
LEMMA TotalIsNatural ==
    ASSUME NEW values \in Seq(Nat)
    PROVE  Total(values) \in Nat
<1> DEFINE N == Len(values)
           f == TotalUpTo(values)
           Good == {n \in 0..N : f[n] \in Nat}
<1>1. N \in Nat /\ values \in Seq(Int) /\ \A n \in 1..N : values[n] \in Nat
  OBVIOUS
<1>2. /\ Total(values) = f[N] /\ f[0] = 0
      /\ \A n \in 1..N : f[n] = f[n - 1] + values[n]
  BY <1>1, TotalStep
<1> HIDE DEF N, f
<1>3. 0 \in Good
  BY <1>1, <1>2
<1>4. ASSUME NEW n \in 1..N, n - 1 \in Good PROVE n \in Good
  <2>1. f[n] = f[n - 1] + values[n] /\ values[n] \in Nat /\ n \in 0..N
    BY <1>1, <1>2
  <2>2. f[n - 1] \in Nat
    BY <1>4
  <2>3. QED
    BY <2>1, <2>2
<1> HIDE DEF Good
<1>5. \A n \in 0..N : n \in Good
  BY <1>1, <1>3, <1>4, UpTo
<1>6. N \in Good
  BY <1>1, <1>5
<1>7. QED
  BY <1>2, <1>6 DEF Good

\* The squares of differences, of a number and of a list
LEMMA SquareOfDifference ==
    ASSUME NEW a \in Int, NEW b \in Int
    PROVE  a * a + b * b - 2 * a * b >= 0
<1>1. (a - b) * (a - b) >= 0
  <2>1. \A d \in Int : d * d >= 0
    OBVIOUS
  <2>2. QED
    BY <2>1
<1>2. (a - b) * (a - b) = a * a + b * b - 2 * a * b
  OBVIOUS
<1>3. QED
  BY <1>1, <1>2

\* What one more value adds to the squares of the differences to x
LEMMA SquaresGrow ==
    ASSUME NEW n \in Int, NEW g \in Int, NEW f \in Int, NEW v \in Int, NEW x \in Int,
           g + (n - 1) * (x * x) - 2 * x * f >= 0
    PROVE  (g + v * v) + n * (x * x) - 2 * x * (f + v) >= 0
<1>1. x * x + v * v - 2 * x * v >= 0
  BY SquareOfDifference
<1>2. (g + v * v) + n * (x * x) - 2 * x * (f + v)
        = (g + (n - 1) * (x * x) - 2 * x * f) + (x * x + v * v - 2 * x * v)
  OBVIOUS
<1>3. QED
  BY <1>1, <1>2

\* ... and to n times the sum of squares, less the square of the sum
LEMMA DeviationGrows ==
    ASSUME NEW n \in Int, NEW g \in Int, NEW f \in Int, NEW v \in Int,
           (n - 1) * g - f * f >= 0,
           g + (n - 1) * (v * v) - 2 * v * f >= 0
    PROVE  n * (g + v * v) - (f + v) * (f + v) >= 0
<1>1. n * (g + v * v) - (f + v) * (f + v)
        = ((n - 1) * g - f * f) + (g + (n - 1) * (v * v) - 2 * v * f)
  OBVIOUS
<1>2. QED
  BY <1>1

\* A variance is not negative: n times the sum of the squares is at least the
\* square of the sum.
LEMMA VariationIsNatural ==
    ASSUME NEW values \in Seq(Nat)
    PROVE  Variation(values).over \in Nat /\ Variation(values).under \in Nat
<1> DEFINE N == Len(values)
           squares == [i \in DOMAIN values |-> values[i] * values[i]]
           f == TotalUpTo(values)
           g == TotalUpTo(squares)
<1>1. /\ N \in Nat /\ values \in Seq(Int) /\ \A n \in 1..N : values[n] \in Int
      /\ DOMAIN values = 1..N
  OBVIOUS
<1>2. /\ squares \in Seq(Int) /\ Len(squares) = N
      /\ \A n \in 1..N : squares[n] = values[n] * values[n]
  <2>1. \A n \in 1..N : values[n] * values[n] \in Int
    BY <1>1
  <2>2. squares = [i \in 1..N |-> values[i] * values[i]]
    BY <1>1
  <2>3. QED
    BY <1>1, <2>1, <2>2
<1> HIDE DEF N, squares
<1>3. /\ Total(values) = f[N] /\ f[0] = 0 /\ \A n \in 0..N : f[n] \in Int
      /\ \A n \in 1..N : f[n] = f[n - 1] + values[n]
  BY <1>1, TotalStep DEF N
<1>4. /\ Total(squares) = g[N] /\ g[0] = 0 /\ \A n \in 0..N : g[n] \in Int
      /\ \A n \in 1..N : g[n] = g[n - 1] + values[n] * values[n]
  BY <1>2, TotalStep
<1> HIDE DEF f, g
<1>5. \A n \in 1..N : n - 1 \in 0..N /\ n \in 0..N /\ n \in Int
  BY <1>1
<1>6. ASSUME NEW x \in Int
      PROVE  \A n \in 0..N : g[n] + n * (x * x) - 2 * x * f[n] >= 0
  <2> DEFINE Good == {n \in 0..N : g[n] + n * (x * x) - 2 * x * f[n] >= 0}
  <2>1. 0 \in Good
    <3>1. x * x \in Int /\ 0 + 0 * (x * x) - 2 * x * 0 = 0
      OBVIOUS
    <3>2. QED
      BY <1>1, <1>3, <1>4, <3>1
  <2>2. ASSUME NEW n \in 1..N, n - 1 \in Good PROVE n \in Good
    <3>1. g[n - 1] + (n - 1) * (x * x) - 2 * x * f[n - 1] >= 0
      BY <2>2
    <3>2. g[n - 1] \in Int /\ f[n - 1] \in Int /\ values[n] \in Int /\ n \in Int
      BY <1>1, <1>3, <1>4, <1>5
    <3>3. (g[n - 1] + values[n] * values[n]) + n * (x * x) - 2 * x * (f[n - 1] + values[n]) >= 0
      BY <3>1, <3>2, SquaresGrow
    <3>4. QED
      BY <1>3, <1>4, <1>5, <3>3
  <2> HIDE DEF Good
  <2>3. \A n \in 0..N : n \in Good
    BY <1>1, <2>1, <2>2, UpTo
  <2>4. QED
    BY <2>3 DEF Good
<1>7. \A n \in 0..N : n * g[n] - f[n] * f[n] >= 0
  <2> DEFINE Good == {n \in 0..N : n * g[n] - f[n] * f[n] >= 0}
  <2>1. 0 \in Good
    <3>1. 0 * g[0] - f[0] * f[0] = 0
      BY <1>3, <1>4
    <3>2. QED
      BY <1>1, <3>1
  <2>2. ASSUME NEW n \in 1..N, n - 1 \in Good PROVE n \in Good
    <3>1. (n - 1) * g[n - 1] - f[n - 1] * f[n - 1] >= 0
      BY <2>2
    <3>2. g[n - 1] \in Int /\ f[n - 1] \in Int /\ values[n] \in Int /\ n \in Int
      BY <1>1, <1>3, <1>4, <1>5
    <3>3. g[n - 1] + (n - 1) * (values[n] * values[n]) - 2 * values[n] * f[n - 1] >= 0
      BY <1>5, <1>6, <3>2
    <3>4. n * (g[n - 1] + values[n] * values[n])
             - (f[n - 1] + values[n]) * (f[n - 1] + values[n]) >= 0
      BY <3>1, <3>2, <3>3, DeviationGrows
    <3>5. QED
      BY <1>3, <1>4, <1>5, <3>4
  <2> HIDE DEF Good
  <2>3. \A n \in 0..N : n \in Good
    BY <1>1, <2>1, <2>2, UpTo
  <2>4. QED
    BY <2>3 DEF Good
<1> DEFINE sum == Total(values)
           total == Total(squares)
<1>8. sum \in Int /\ total \in Int /\ N * total - sum * sum >= 0
  BY <1>1, <1>3, <1>4, <1>7
<1>9. Variation(values) = IF values = <<>> \/ sum = 0 THEN NoVariation
                          ELSE [over |-> N * total - sum * sum, under |-> sum * sum]
  BY DEF Variation, N, squares
<1> HIDE DEF sum, total
<1>10. sum * sum \in Nat /\ N * total - sum * sum \in Nat
  <2>1. sum * sum >= 0 /\ sum * sum \in Int
    BY <1>8
  <2>2. N * total - sum * sum \in Int
    BY <1>1, <1>8
  <2>3. QED
    BY <1>8, <2>1, <2>2
<1>11. QED
  BY <1>9, <1>10 DEF NoVariation

-------------------------------------------------------------------------------
(* Values at positions *)

\* What ValuesAt has after each value
KeptUpTo(values, positions) ==
    CHOOSE f : f = [n \in 0..Len(values) |->
                      IF n = 0 THEN <<>>
                      ELSE IF n \in positions THEN Append(f[n - 1], values[n]) ELSE f[n - 1]]

\* The values at some positions are a list of values.
LEMMA ValuesAtIsList ==
    ASSUME NEW V, NEW values \in Seq(V), NEW positions
    PROVE  ValuesAt(values, positions) \in Seq(V)
<1> DEFINE N == Len(values)
           Kept(s, n) == IF n \in positions THEN Append(s, values[n]) ELSE s
           step == [at \in Seq(V) \X (1..N) |-> Kept(at[1], at[2])]
           f == KeptUpTo(values, positions)
<1>1. N \in Nat /\ \A n \in 1..N : values[n] \in V
  OBVIOUS
<1>2. \A s \in Seq(V), n \in 1..N : Kept(s, n) \in Seq(V)
  BY <1>1
<1>3. \A s \in Seq(V), n \in 1..N : step[<<s, n>>] = Kept(s, n)
  OBVIOUS
<1> HIDE DEF N, Kept
<1>4. step \in [Seq(V) \X (1..N) -> Seq(V)]
  BY <1>2
<1> HIDE DEF step
<1>5. PICK g \in [0..N -> Seq(V)] :
        g[0] = <<>> /\ \A i \in 1..N : g[i] = step[<<g[i - 1], i>>]
  <2> DEFINE lists == Seq(V)
             nothing == <<>>
  <2>1. nothing \in lists /\ N \in Nat
    BY <1>1
  <2>2. step \in [lists \X (1..N) -> lists]
    BY <1>4
  <2> HIDE DEF lists, nothing
  <2>3. \E g : Follows(g, N, lists, nothing, step)
    BY <2>1, <2>2, ListRecursion
  <2>4. QED
    BY <2>3 DEF Follows, lists, nothing
<1>6. ASSUME NEW i \in 0..N, i # 0
      PROVE  g[i] = Kept(g[i - 1], i)
  <2>1. i \in 1..N /\ i - 1 \in 0..N
    BY <1>1, <1>6
  <2>2. g[i - 1] \in Seq(V)
    BY <1>5, <2>1
  <2>3. QED
    BY <1>3, <1>5, <2>1, <2>2
<1>7. g = [i \in 0..N |-> IF i = 0 THEN <<>> ELSE Kept(g[i - 1], i)]
  BY <1>5, <1>6
<1>8. f = [n \in 0..N |-> IF n = 0 THEN <<>> ELSE Kept(f[n - 1], n)]
  BY <1>7 DEF KeptUpTo, N, Kept
<1> HIDE DEF f
<1>9. 0 \in 0..N /\ \A n \in 1..N : n \in 0..N /\ n # 0
  BY <1>1
<1>10. f[0] = <<>> /\ \A n \in 1..N : f[n] = Kept(f[n - 1], n)
  BY <1>8, <1>9
<1> DEFINE Good == {n \in 0..N : f[n] \in Seq(V)}
<1>11. 0 \in Good
  <2>1. <<>> \in Seq(V)
    OBVIOUS
  <2>2. f[0] \in Seq(V)
    BY <1>10, <2>1
  <2>3. QED
    BY <1>9, <2>2
<1>12. ASSUME NEW n \in 1..N, n - 1 \in Good PROVE n \in Good
  <2>1. f[n - 1] \in Seq(V)
    BY <1>12
  <2>2. f[n] \in Seq(V)
    BY <1>2, <1>10, <2>1
  <2>3. QED
    BY <1>9, <2>2
<1> HIDE DEF Good
<1>13. \A n \in 0..N : n \in Good
  BY <1>1, <1>11, <1>12, UpTo
<1>14. N \in Good
  BY <1>1, <1>13
<1>15. ValuesAt(values, positions) = f[N]
  BY DEF ValuesAt, KeptUpTo, f, N
<1>16. QED
  BY <1>14, <1>15 DEF Good

-------------------------------------------------------------------------------
(* Sorting *)

Ordered(sorted) == \A i, j \in DOMAIN sorted : i <= j => sorted[i] <= sorted[j]

\* A value takes its place.
LEMMA PlacedInOrder ==
    ASSUME NEW sorted \in Seq(Int), NEW value \in Int
    PROVE  /\ Placed(sorted, value) \in Seq(Int)
           /\ Len(Placed(sorted, value)) = Len(sorted) + 1
           /\ Ordered(sorted) => Ordered(Placed(sorted, value))
<1> DEFINE n == Len(sorted)
           I == {i \in DOMAIN sorted : sorted[i] > value} \union {n + 1}
           place == Min(I)
           placed == [i \in 1..(n + 1) |-> IF i < place THEN sorted[i]
                                           ELSE IF i = place THEN value ELSE sorted[i - 1]]
<1>1. n \in Nat /\ DOMAIN sorted = 1..n /\ \A i \in 1..n : sorted[i] \in Int
  OBVIOUS
<1>2. I \subseteq 1..(n + 1) /\ n + 1 \in I
  BY <1>1
<1>3. I \subseteq Nat
  BY <1>1, <1>2
<1>4. place \in I /\ \A i \in I : place <= i
  BY <1>2, <1>3, LeastIndex
<1>5. place \in 1..(n + 1)
  BY <1>2, <1>4
<1>6. /\ \A i \in 1..n : i < place => sorted[i] <= value
      /\ place # n + 1 => sorted[place] > value /\ place \in 1..n
  <2>1. ASSUME NEW i \in 1..n, i < place PROVE sorted[i] <= value
    <3> HIDE DEF place
    <3>1. ~(place <= i)
      BY <1>1, <1>5, <2>1
    <3>2. i \notin I
      BY <1>4, <3>1, Zenon
    <3>3. QED
      BY <1>1, <3>2
  <2>2. QED
    BY <1>1, <1>4, <1>5, <2>1
<1> HIDE DEF place, I
<1>7. placed \in Seq(Int) /\ Len(placed) = n + 1 /\ DOMAIN placed = 1..(n + 1)
  <2>1. ASSUME NEW i \in 1..(n + 1) PROVE placed[i] \in Int
    <3>1. i < place => i \in 1..n
      BY <1>1, <1>5
    <3>2. ~(i < place) /\ i # place => i - 1 \in 1..n
      BY <1>1, <1>5
    <3>3. QED
      BY <1>1, <3>1, <3>2
  <2>2. placed \in [1..(n + 1) -> Int]
    BY <2>1
  <2>3. n + 1 \in Nat
    BY <1>1
  <2> HIDE DEF placed
  <2>4. QED
    BY <2>2, <2>3
<1>8. ASSUME Ordered(sorted), NEW i \in 1..(n + 1), NEW j \in 1..(n + 1), i < j
      PROVE  placed[i] <= placed[j]
  <2>1. \A k, l \in 1..n : k <= l => sorted[k] <= sorted[l]
    BY <1>1, <1>8 DEF Ordered
  <2>2. CASE j < place
    <3>1. i < place /\ i \in 1..n /\ j \in 1..n /\ i <= j
      BY <1>1, <1>5, <1>8, <2>2
    <3>2. QED
      BY <2>1, <2>2, <3>1
  <2>3. CASE j = place
    <3>1. i < place /\ i \in 1..n
      BY <1>1, <1>5, <1>8, <2>3
    <3>2. placed[i] = sorted[i] /\ placed[j] = value
      BY <1>5, <2>3, <3>1
    <3>3. QED
      BY <1>6, <3>1, <3>2
  <2>4. CASE j > place
    <3>1. j - 1 \in 1..n /\ placed[j] = sorted[j - 1]
      BY <1>1, <1>5, <2>4
    <3>2. CASE i < place
      <4>1. i \in 1..n /\ i <= j - 1 /\ placed[i] = sorted[i]
        BY <1>1, <1>5, <1>8, <3>2
      <4>2. QED
        BY <2>1, <3>1, <4>1
    <3>3. CASE i = place
      <4>1. place \in 1..n /\ place <= j - 1 /\ placed[i] = value
        BY <1>1, <1>5, <1>8, <2>4, <3>3
      <4>2. sorted[place] > value /\ sorted[place] <= sorted[j - 1]
        BY <1>1, <1>6, <2>1, <3>1, <4>1
      <4>3. sorted[place] \in Int /\ sorted[j - 1] \in Int
        BY <1>1, <3>1, <4>1
      <4>4. QED
        BY <3>1, <4>1, <4>2, <4>3
    <3>4. CASE i > place
      <4>1. i - 1 \in 1..n /\ i - 1 <= j - 1 /\ placed[i] = sorted[i - 1]
        BY <1>1, <1>5, <1>8, <3>4
      <4>2. QED
        BY <2>1, <3>1, <4>1
    <3>5. QED
      BY <1>5, <3>2, <3>3, <3>4
  <2>5. QED
    BY <1>5, <2>2, <2>3, <2>4
<1>9. Ordered(sorted) => Ordered(placed)
  <2> HIDE DEF placed
  <2>1. ASSUME Ordered(sorted), NEW i \in 1..(n + 1), NEW j \in 1..(n + 1), i <= j
        PROVE  placed[i] <= placed[j]
    <3>1. placed[i] \in Int
      BY <1>7
    <3>2. i < j \/ i = j
      BY <2>1
    <3>3. QED
      BY <1>8, <2>1, <3>1, <3>2
  <2>2. QED
    BY <1>7, <2>1 DEF Ordered
<1>10. Placed(sorted, value) = placed
  BY DEF Placed, place, I
<1> HIDE DEF placed
<1>11. QED
  BY <1>7, <1>9, <1>10

\* What Sorted has after each value
SortedUpTo(values) ==
    CHOOSE f : f = [n \in 0..Len(values) |->
                      IF n = 0 THEN <<>> ELSE Placed(f[n - 1], values[n])]

LEMMA SortedStep ==
    ASSUME NEW values \in Seq(Int)
    PROVE  /\ Sorted(values) = SortedUpTo(values)[Len(values)]
           /\ SortedUpTo(values)[0] = <<>>
           /\ \A n \in 1..Len(values) :
                 SortedUpTo(values)[n] = Placed(SortedUpTo(values)[n - 1], values[n])
<1> DEFINE N == Len(values)
           step == [at \in Seq(Int) \X (1..N) |-> Placed(at[1], values[at[2]])]
           f == SortedUpTo(values)
<1>1. N \in Nat /\ \A n \in 1..N : values[n] \in Int
  OBVIOUS
<1>2. step \in [Seq(Int) \X (1..N) -> Seq(Int)]
  BY <1>1, PlacedInOrder
<1> DEFINE lists == Seq(Int)
           nothing == <<>>
<1>3. nothing \in lists
  OBVIOUS
<1>4. \A s \in Seq(Int), n \in 1..N : step[<<s, n>>] = Placed(s, values[n])
  OBVIOUS
<1> HIDE DEF step, N
<1>5. PICK g \in [0..N -> Seq(Int)] :
        g[0] = <<>> /\ \A i \in 1..N : g[i] = step[<<g[i - 1], i>>]
  <2> HIDE DEF lists, nothing
  <2>1. step \in [lists \X (1..N) -> lists]
    BY <1>2 DEF lists
  <2>2. \E g : Follows(g, N, lists, nothing, step)
    <3>1. N \in Nat
      BY <1>1
    <3>2. QED
      BY <1>3, <2>1, <3>1, ListRecursion
  <2>3. QED
    BY <2>2 DEF Follows, lists, nothing
<1>6. ASSUME NEW i \in 0..N, i # 0
      PROVE  g[i] = Placed(g[i - 1], values[i])
  <2>1. i \in 1..N /\ i - 1 \in 0..N
    BY <1>1, <1>6
  <2>2. g[i - 1] \in Seq(Int)
    BY <1>5, <2>1
  <2>3. QED
    BY <1>4, <1>5, <2>1, <2>2
<1>7. g = [i \in 0..N |-> IF i = 0 THEN <<>> ELSE Placed(g[i - 1], values[i])]
  BY <1>5, <1>6
<1>8. f = [n \in 0..N |-> IF n = 0 THEN <<>> ELSE Placed(f[n - 1], values[n])]
  BY <1>7 DEF SortedUpTo, N
<1>9. 0 \in 0..N /\ \A n \in 1..N : n \in 0..N /\ n # 0
  BY <1>1
<1> HIDE DEF f
<1>10. f[0] = <<>> /\ \A n \in 1..N : f[n] = Placed(f[n - 1], values[n])
  BY <1>8, <1>9
<1>11. Sorted(values) = f[N]
  BY DEF Sorted, SortedUpTo, f, N
<1>12. QED
  BY <1>10, <1>11 DEF f, N

\* Sorted gives a list of the same length, in order.
LEMMA SortedInOrder ==
    ASSUME NEW values \in Seq(Int)
    PROVE  /\ Sorted(values) \in Seq(Int) /\ Len(Sorted(values)) = Len(values)
           /\ Ordered(Sorted(values))
<1> DEFINE N == Len(values)
           f == SortedUpTo(values)
           Good == {n \in Nat : f[n] \in Seq(Int) /\ Len(f[n]) = n /\ Ordered(f[n])}
<1>1. N \in Nat /\ \A n \in 1..N : values[n] \in Int
  OBVIOUS
<1> HIDE DEF N
<1>2. f[0] = <<>> /\ \A n \in 1..N : f[n] = Placed(f[n - 1], values[n])
  BY SortedStep DEF N
<1> HIDE DEF f
<1>3. 0 \in Good
  <2>1. <<>> \in Seq(Int) /\ Len(<<>>) = 0 /\ Ordered(<<>>)
    BY DEF Ordered
  <2>2. QED
    BY <1>2, <2>1
<1>4. ASSUME NEW n \in 1..N, n - 1 \in Good PROVE n \in Good
  <2>1. f[n] = Placed(f[n - 1], values[n]) /\ n \in Nat /\ values[n] \in Int
    BY <1>1, <1>2
  <2>2. f[n - 1] \in Seq(Int) /\ Len(f[n - 1]) = n - 1 /\ Ordered(f[n - 1])
    BY <1>4
  <2>3. f[n] \in Seq(Int) /\ Len(f[n]) = (n - 1) + 1 /\ Ordered(f[n])
    BY <2>1, <2>2, PlacedInOrder
  <2>4. QED
    BY <2>1, <2>3
<1>5. N \in Good
  <2> HIDE DEF Good
  <2>1. \A i \in 0..N : i \in Good
    BY <1>1, <1>3, <1>4, UpTo
  <2>2. QED
    BY <1>1, <2>1
<1>6. QED
  BY <1>5, SortedStep DEF f, N

\* The median of a list of whole numbers, doubled, is whole.
LEMMA MedianIsWhole ==
    ASSUME NEW values \in Seq(Int)
    PROVE  Percentile(values, 1, 2) \in Int
<1> DEFINE s == Sorted(values)
           n == Len(s)
<1>1. s \in Seq(Int)
  BY SortedInOrder
<1> HIDE DEF s
<1>2. n \in Nat /\ DOMAIN s = 1..n /\ \A i \in 1..n : s[i] \in Int
  BY <1>1
<1>3. (s # <<>> => n >= 1) /\ 1 * (Len(s) - 1) = n - 1
  BY <1>1
<1> HIDE DEF n
<1>4. ASSUME n >= 1
      PROVE  /\ ((n - 1) \div 2) + 1 \in 1..n /\ (n - 1) % 2 \in 0..1
             /\ (n - 1) % 2 # 0 => ((n - 1) \div 2) + 2 \in 1..n
  BY <1>2, <1>4
<1>5. Percentile(values, 1, 2) = PercentileOfSorted(s, 1, 2)
  BY DEF Percentile, s
<1>6. CASE s = <<>>
  BY <1>5, <1>6 DEF PercentileOfSorted
<1>7. CASE s # <<>>
  <2> DEFINE lower == (n - 1) \div 2
             weight == (n - 1) % 2
  <2>2. PercentileOfSorted(s, 1, 2) = IF weight = 0 THEN s[lower + 1] * 2
                                      ELSE s[lower + 1] * (2 - weight) + s[lower + 2] * weight
    BY <1>3, <1>7 DEF PercentileOfSorted
  <2>3. /\ s[lower + 1] \in Int /\ weight \in 0..1
        /\ weight # 0 => s[lower + 2] \in Int
    BY <1>2, <1>3, <1>4, <1>7
  <2> HIDE DEF lower, weight
  <2>4. QED
    BY <1>5, <2>2, <2>3
<1>8. QED
  BY <1>6, <1>7
-------------------------------------------------------------------------------
(* Pairing *)

\* Which elements of two lists are paired, said in a way that is the same from
\* either side: equal ones, each at most once, equal ones in order and without a
\* gap, and as many as possible.
Pairing(P, keys, others) ==
    /\ P \subseteq (DOMAIN keys) \X (DOMAIN others)
    /\ \A i, j : <<i, j>> \in P => keys[i] = others[j]
    /\ \A i, j, k, l : <<i, j>> \in P /\ <<k, l>> \in P => (i = k <=> j = l)
    /\ \A i, j, k, l :
          <<i, j>> \in P /\ <<k, l>> \in P /\ keys[i] = keys[k] => (i < k <=> j < l)
    /\ \A i \in DOMAIN keys : \A k, l :
          <<k, l>> \in P /\ keys[i] = keys[k] /\ i < k => \E j : <<i, j>> \in P
    /\ \A j \in DOMAIN others : \A k, l :
          <<k, l>> \in P /\ others[j] = others[l] /\ j < l => \E i : <<i, j>> \in P
    /\ \A i \in DOMAIN keys, j \in DOMAIN others :
          keys[i] = others[j] => (\E l : <<i, l>> \in P) \/ (\E k : <<k, j>> \in P)

Transposed(P) == {<<p[2], p[1]>> : p \in P}

\* Pairs as OneToOne has them after n keys
Chosen(pairs, n, keys, others) ==
    /\ pairs \in Seq(Nat \X Nat)
    /\ \A m \in DOMAIN pairs :
          /\ pairs[m][1] \in 1..n /\ pairs[m][2] \in DOMAIN others
          /\ keys[pairs[m][1]] = others[pairs[m][2]]
    /\ \A m, k \in DOMAIN pairs :
          m < k => pairs[m][1] < pairs[k][1] /\ pairs[m][2] # pairs[k][2]
    /\ \A m, k \in DOMAIN pairs :
          m < k /\ others[pairs[m][2]] = others[pairs[k][2]] => pairs[m][2] < pairs[k][2]
    /\ \A m \in DOMAIN pairs, j \in DOMAIN others :
          others[j] = others[pairs[m][2]] /\ j < pairs[m][2] =>
             \E k \in DOMAIN pairs : pairs[k][2] = j
    /\ \A i \in 1..n :
          \/ \E m \in DOMAIN pairs : pairs[m][1] = i
          \/ \A j \in DOMAIN others : others[j] = keys[i] =>
                \E m \in DOMAIN pairs : pairs[m][2] = j /\ pairs[m][1] < i

\* Each key pairs as it should, given that those before it did.
LEMMA PairChooses ==
    ASSUME NEW K, NEW O, NEW keys \in Seq(K), NEW others \in Seq(O),
           NEW n \in 1..Len(keys), NEW pairs, Chosen(pairs, n - 1, keys, others)
    PROVE  Chosen(Pair(pairs, n, keys, others), n, keys, others)
<1> DEFINE free == Free(pairs, keys[n], others)
           longer == Append(pairs, <<n, Min(free)>>)
           m1 == Len(pairs) + 1
<1>1. /\ Len(keys) \in Nat /\ Len(others) \in Nat
      /\ DOMAIN keys = 1..Len(keys) /\ DOMAIN others = 1..Len(others)
      /\ n \in Nat /\ n - 1 \in Nat /\ \A i \in 1..(n - 1) : i \in 1..n /\ i < n
      /\ \A i \in 1..n : i = n \/ i \in 1..(n - 1)
  OBVIOUS
<1>2. /\ pairs \in Seq(Nat \X Nat) /\ Len(pairs) \in Nat /\ DOMAIN pairs = 1..Len(pairs)
      /\ \A m \in DOMAIN pairs : pairs[m][1] \in Nat /\ pairs[m][2] \in Nat
  BY DEF Chosen
<1>3. CASE free = {}
  <2>1. Pair(pairs, n, keys, others) = pairs
    BY <1>3 DEF Pair
  <2>2. \A j \in DOMAIN others : others[j] = keys[n] =>
           \E m \in DOMAIN pairs : pairs[m][2] = j /\ pairs[m][1] < n
    <3>1. ASSUME NEW j \in DOMAIN others, others[j] = keys[n]
          PROVE  \E m \in DOMAIN pairs : pairs[m][2] = j /\ pairs[m][1] < n
      <4>1. PICK m \in DOMAIN pairs : pairs[m][2] = j
        BY <1>3, <3>1 DEF Free
      <4>2. pairs[m][1] \in 1..(n - 1)
        BY DEF Chosen
      <4>3. QED
        BY <1>1, <4>1, <4>2
    <3>2. QED
      BY <3>1
  <2>3. \A m \in DOMAIN pairs : pairs[m][1] \in 1..n
    BY <1>1 DEF Chosen
  <2> HIDE DEF free
  <2>4. \A i \in 1..n :
           \/ \E m \in DOMAIN pairs : pairs[m][1] = i
           \/ \A j \in DOMAIN others : others[j] = keys[i] =>
                 \E m \in DOMAIN pairs : pairs[m][2] = j /\ pairs[m][1] < i
    <3>1. \A i \in 1..(n - 1) :
             \/ \E m \in DOMAIN pairs : pairs[m][1] = i
             \/ \A j \in DOMAIN others : others[j] = keys[i] =>
                   \E m \in DOMAIN pairs : pairs[m][2] = j /\ pairs[m][1] < i
      BY DEF Chosen
    <3>2. QED
      BY <1>1, <2>2, <3>1
  <2>5. Chosen(pairs, n, keys, others)
    BY <2>3, <2>4 DEF Chosen
  <2>6. QED
    BY <2>1, <2>5
<1>4. CASE free # {}
  <2> DEFINE new == Min(free)
  <2>1. free \subseteq DOMAIN others /\ free \subseteq Nat
    BY <1>1 DEF Free
  <2>2. new \in free /\ \A j \in free : new <= j
    BY <1>4, <2>1, LeastIndex
  <2>3. new \in Nat /\ new \in DOMAIN others
    BY <2>1, <2>2
  <2>4. others[new] = keys[n] /\ \A m \in DOMAIN pairs : pairs[m][2] # new
    BY <2>2 DEF Free
  <2>5. \A j \in DOMAIN others : others[j] = keys[n] /\ j < new =>
           \E m \in DOMAIN pairs : pairs[m][2] = j
    <3>1. ASSUME NEW j \in DOMAIN others, others[j] = keys[n], j < new
          PROVE  \E m \in DOMAIN pairs : pairs[m][2] = j
      <4>1. j \in Nat /\ ~(new <= j)
        BY <1>1, <2>3, <3>1
      <4>2. j \notin free
        BY <2>2, <4>1
      <4>3. QED
        BY <3>1, <4>2 DEF Free
    <3>2. QED
      BY <3>1
  <2>6. Pair(pairs, n, keys, others) = longer
    BY <1>4 DEF Pair
  <2> HIDE DEF new, free
  <2>7. /\ longer \in Seq(Nat \X Nat) /\ DOMAIN longer = 1..m1
        /\ longer[m1] = <<n, new>> /\ longer[m1][1] = n /\ longer[m1][2] = new
        /\ \A m \in DOMAIN pairs : m \in DOMAIN longer /\ longer[m] = pairs[m] /\ m < m1
        /\ \A m \in DOMAIN longer : m = m1 \/ m \in DOMAIN pairs
        /\ m1 \in DOMAIN longer /\ m1 \in Nat
    BY <1>1, <1>2, <2>3 DEF new
  <2> HIDE DEF longer, m1
  <2>8. \A m, k \in DOMAIN longer :
           m < k => m \in DOMAIN pairs /\ (k \in DOMAIN pairs \/ k = m1)
    <3>1. SUFFICES ASSUME NEW m \in DOMAIN longer, NEW k \in DOMAIN longer, m < k, m = m1
                   PROVE  FALSE
      BY <2>7
    <3>2. k \in 1..m1 /\ m1 \in Nat
      BY <2>7
    <3>3. QED
      BY <3>1, <3>2
  <2>9. \A m \in DOMAIN longer :
          /\ longer[m][1] \in 1..n /\ longer[m][2] \in DOMAIN others
          /\ keys[longer[m][1]] = others[longer[m][2]]
    <3>1. \A m \in DOMAIN pairs :
          /\ pairs[m][1] \in 1..n /\ pairs[m][2] \in DOMAIN others
          /\ keys[pairs[m][1]] = others[pairs[m][2]]
      BY <1>1 DEF Chosen
    <3>2. n \in 1..n
      BY <1>1
    <3>3. QED
      BY <2>3, <2>4, <2>7, <3>1, <3>2
  <2>10. ASSUME NEW m \in DOMAIN longer, NEW k \in DOMAIN longer, m < k
         PROVE  longer[m][1] < longer[k][1] /\ longer[m][2] # longer[k][2]
    <3>1. m \in DOMAIN pairs /\ longer[m] = pairs[m] /\ (k \in DOMAIN pairs \/ k = m1)
      BY <2>7, <2>8, <2>10
    <3>2. CASE k \in DOMAIN pairs
      <4>1. pairs[m][1] < pairs[k][1] /\ pairs[m][2] # pairs[k][2]
        BY <2>10, <3>1, <3>2 DEF Chosen
      <4>2. QED
        BY <2>7, <3>1, <3>2, <4>1
    <3>3. CASE k = m1
      <4>1. pairs[m][1] \in 1..(n - 1)
        BY <3>1 DEF Chosen
      <4>2. QED
        BY <1>1, <2>4, <2>7, <3>1, <3>3, <4>1
    <3>4. QED
      BY <3>1, <3>2, <3>3
  <2>11. ASSUME NEW m \in DOMAIN longer, NEW k \in DOMAIN longer, m < k,
                others[longer[m][2]] = others[longer[k][2]]
         PROVE  longer[m][2] < longer[k][2]
    <3>1. m \in DOMAIN pairs /\ longer[m] = pairs[m] /\ (k \in DOMAIN pairs \/ k = m1)
      BY <2>7, <2>8, <2>11
    <3>2. CASE k \in DOMAIN pairs
      BY <2>7, <2>11, <3>1, <3>2 DEF Chosen
    <3>3. CASE k = m1
      <4>1. others[new] = others[pairs[m][2]]
        BY <2>7, <2>11, <3>1, <3>3
      <4>2. ~(new < pairs[m][2])
        BY <2>3, <2>4, <3>1, <4>1 DEF Chosen
      <4>3. pairs[m][2] # new /\ pairs[m][2] \in Nat
        BY <1>2, <2>4, <3>1
      <4>4. QED
        BY <2>3, <2>7, <3>1, <3>3, <4>2, <4>3
    <3>4. QED
      BY <3>1, <3>2, <3>3
  <2>12. ASSUME NEW m \in DOMAIN longer, NEW j \in DOMAIN others,
                others[j] = others[longer[m][2]], j < longer[m][2]
         PROVE  \E k \in DOMAIN longer : longer[k][2] = j
    <3>1. CASE m \in DOMAIN pairs
      <4>1. longer[m] = pairs[m]
        BY <2>7, <3>1
      <4>2. PICK k \in DOMAIN pairs : pairs[k][2] = j
        BY <2>12, <3>1, <4>1 DEF Chosen
      <4>3. QED
        BY <2>7, <4>2
    <3>2. CASE m = m1
      <4>1. others[j] = keys[n] /\ j < new
        BY <2>4, <2>7, <2>12, <3>2
      <4>2. PICK k \in DOMAIN pairs : pairs[k][2] = j
        BY <2>5, <4>1
      <4>3. QED
        BY <2>7, <4>2
    <3>3. QED
      BY <2>7, <3>1, <3>2
  <2>13. ASSUME NEW i \in 1..n
         PROVE  \/ \E m \in DOMAIN longer : longer[m][1] = i
                \/ \A j \in DOMAIN others : others[j] = keys[i] =>
                      \E m \in DOMAIN longer : longer[m][2] = j /\ longer[m][1] < i
    <3>1. CASE i = n
      BY <2>7, <3>1
    <3>2. CASE i \in 1..(n - 1)
      <4>1. \/ \E m \in DOMAIN pairs : pairs[m][1] = i
            \/ \A j \in DOMAIN others : others[j] = keys[i] =>
                  \E m \in DOMAIN pairs : pairs[m][2] = j /\ pairs[m][1] < i
        BY <3>2 DEF Chosen
      <4>2. QED
        BY <2>7, <4>1
    <3>3. QED
      BY <1>1, <3>1, <3>2
  <2>14. Chosen(longer, n, keys, others)
    <3>1. \A m, k \in DOMAIN longer :
             m < k => longer[m][1] < longer[k][1] /\ longer[m][2] # longer[k][2]
      BY <2>10
    <3>2. \A m, k \in DOMAIN longer :
             m < k /\ others[longer[m][2]] = others[longer[k][2]] =>
                longer[m][2] < longer[k][2]
      BY <2>11
    <3>3. \A m \in DOMAIN longer, j \in DOMAIN others :
             others[j] = others[longer[m][2]] /\ j < longer[m][2] =>
                \E k \in DOMAIN longer : longer[k][2] = j
      BY <2>12
    <3>4. QED
      BY <2>7, <2>9, <2>13, <3>1, <3>2, <3>3 DEF Chosen
  <2>15. QED
    BY <2>6, <2>14
<1>5. QED
  BY <1>3, <1>4
\* What OneToOne has after each key
PairedUpTo(keys, others) ==
    CHOOSE f : f = [n \in 0..Len(keys) |->
                      IF n = 0 THEN <<>> ELSE Pair(f[n - 1], n, keys, others)]

LEMMA PairingStep ==
    ASSUME NEW K, NEW O, NEW keys \in Seq(K), NEW others \in Seq(O)
    PROVE  /\ OneToOne(keys, others) = PairedUpTo(keys, others)[Len(keys)]
           /\ PairedUpTo(keys, others)[0] = <<>>
           /\ \A n \in 1..Len(keys) :
                 PairedUpTo(keys, others)[n]
                   = Pair(PairedUpTo(keys, others)[n - 1], n, keys, others)
<1> DEFINE N == Len(keys)
           lists == Seq(Nat \X Nat)
           nothing == <<>>
           step == [at \in lists \X (1..N) |-> Pair(at[1], at[2], keys, others)]
           f == PairedUpTo(keys, others)
<1>1. N \in Nat /\ DOMAIN others = 1..Len(others) /\ Len(others) \in Nat
  OBVIOUS
<1>2. step \in [lists \X (1..N) -> lists]
  <2>1. ASSUME NEW pairs \in lists, NEW n \in 1..N
        PROVE  Pair(pairs, n, keys, others) \in lists
    <3> DEFINE free == Free(pairs, keys[n], others)
    <3>1. free \subseteq Nat
      BY <1>1 DEF Free
    <3>2. free # {} => Min(free) \in Nat
      BY <3>1, LeastIndex
    <3>3. n \in Nat
      BY <1>1
    <3> HIDE DEF free
    <3>4. free # {} => Append(pairs, <<n, Min(free)>>) \in lists
      BY <3>2, <3>3
    <3>5. QED
      BY <3>4 DEF Pair, free
  <2>2. QED
    BY <2>1
<1>3. nothing \in lists
  OBVIOUS
<1>4. \A s \in lists, n \in 1..N : step[<<s, n>>] = Pair(s, n, keys, others)
  OBVIOUS
<1> HIDE DEF step, N, lists, nothing
<1>5. PICK g : Follows(g, N, lists, nothing, step)
  BY <1>1, <1>2, <1>3, ListRecursion
<1>6. ASSUME NEW i \in 0..N, i # 0
      PROVE  g[i] = Pair(g[i - 1], i, keys, others)
  <2>1. i \in 1..N /\ i - 1 \in 0..N
    BY <1>1, <1>6
  <2>2. g[i - 1] \in lists
    BY <1>5, <2>1 DEF Follows
  <2>3. QED
    BY <1>4, <1>5, <2>1, <2>2 DEF Follows
<1>7. g = [i \in 0..N |-> IF i = 0 THEN <<>> ELSE Pair(g[i - 1], i, keys, others)]
  <2>1. g = [i \in 0..N |-> g[i]] /\ g[0] = <<>>
    BY <1>5 DEF Follows, nothing
  <2>2. QED
    BY <1>6, <2>1
<1>8. f = [n \in 0..N |-> IF n = 0 THEN <<>> ELSE Pair(f[n - 1], n, keys, others)]
  BY <1>7 DEF PairedUpTo, N
<1>9. 0 \in 0..N /\ \A n \in 1..N : n \in 0..N /\ n # 0
  BY <1>1
<1> HIDE DEF f
<1>10. f[0] = <<>> /\ \A n \in 1..N : f[n] = Pair(f[n - 1], n, keys, others)
  BY <1>8, <1>9
<1>11. OneToOne(keys, others) = f[N]
  BY DEF OneToOne, PairedUpTo, f, N
<1>12. QED
  BY <1>10, <1>11 DEF f, N

\* OneToOne pairs the elements of two lists as it should, each once.
LEMMA OneToOnePairs ==
    ASSUME NEW K, NEW O, NEW keys \in Seq(K), NEW others \in Seq(O)
    PROVE  LET pairs == OneToOne(keys, others)
           IN  /\ pairs \in Seq(Nat \X Nat) /\ Pairing(Range(pairs), keys, others)
               /\ \A m, k \in DOMAIN pairs : m < k => pairs[m] # pairs[k]
<1> DEFINE N == Len(keys)
           f == PairedUpTo(keys, others)
           Good == {n \in Nat : Chosen(f[n], n, keys, others)}
           pairs == OneToOne(keys, others)
<1>1. /\ N \in Nat /\ DOMAIN keys = 1..N
      /\ DOMAIN others = 1..Len(others) /\ Len(others) \in Nat
  OBVIOUS
<1>2. f[0] = <<>> /\ \A n \in 1..N : f[n] = Pair(f[n - 1], n, keys, others)
  BY PairingStep
<1> HIDE DEF f
<1>3. 0 \in Good
  <2>1. <<>> \in Seq(Nat \X Nat) /\ DOMAIN <<>> = {} /\ 1..0 = {}
    OBVIOUS
  <2>2. Chosen(<<>>, 0, keys, others)
    BY <2>1 DEF Chosen
  <2>3. QED
    BY <1>2, <2>2
<1>4. ASSUME NEW n \in 1..N, n - 1 \in Good PROVE n \in Good
  <2>1. Chosen(f[n - 1], n - 1, keys, others) /\ n \in Nat
    BY <1>1, <1>4
  <2>2. Chosen(Pair(f[n - 1], n, keys, others), n, keys, others)
    BY <2>1, PairChooses
  <2>3. QED
    BY <1>2, <2>1, <2>2
<1>5. Chosen(pairs, N, keys, others)
  <2> HIDE DEF Good, N
  <2>1. \A i \in 0..N : i \in Good
    BY <1>1, <1>3, <1>4, UpTo
  <2>2. N \in Good
    BY <1>1, <2>1
  <2>3. QED
    BY <2>2, PairingStep DEF Good, f, N
<1> HIDE DEF pairs, N
<1>6. /\ pairs \in Seq(Nat \X Nat) /\ DOMAIN pairs = 1..Len(pairs) /\ Len(pairs) \in Nat
      /\ \A m \in DOMAIN pairs :
            /\ pairs[m] = <<pairs[m][1], pairs[m][2]>>
            /\ pairs[m][1] \in Nat /\ pairs[m][2] \in Nat
  BY <1>5 DEF Chosen
<1> DEFINE P == Range(pairs)
<1>7. \A i, j : <<i, j>> \in P <=> \E m \in DOMAIN pairs : pairs[m][1] = i /\ pairs[m][2] = j
  <2>1. ASSUME NEW i, NEW j, <<i, j>> \in P
        PROVE  \E m \in DOMAIN pairs : pairs[m][1] = i /\ pairs[m][2] = j
    <3>1. PICK m \in DOMAIN pairs : pairs[m] = <<i, j>>
      BY <2>1 DEF Range
    <3>2. QED
      BY <3>1
  <2>2. ASSUME NEW m \in DOMAIN pairs PROVE <<pairs[m][1], pairs[m][2]>> \in P
    <3>1. pairs[m] \in P
      BY DEF Range
    <3>2. QED
      BY <1>6, <3>1
  <2> HIDE DEF P
  <2>3. ASSUME NEW i, NEW j, NEW m \in DOMAIN pairs, pairs[m][1] = i, pairs[m][2] = j
        PROVE  <<i, j>> \in P
    BY <2>2, <2>3
  <2>4. ASSUME NEW i, NEW j
        PROVE  <<i, j>> \in P <=> \E m \in DOMAIN pairs : pairs[m][1] = i /\ pairs[m][2] = j
    <3>1. <<i, j>> \in P => \E m \in DOMAIN pairs : pairs[m][1] = i /\ pairs[m][2] = j
      BY <2>1
    <3>2. (\E m \in DOMAIN pairs : pairs[m][1] = i /\ pairs[m][2] = j) => <<i, j>> \in P
      BY <2>3
    <3>3. QED
      BY <3>1, <3>2
  <2>5. QED
    BY <2>4
<1>8. \A p \in P : p = <<p[1], p[2]>>
  BY <1>6 DEF Range
<1> HIDE DEF P
<1>9. ASSUME NEW i, NEW j, <<i, j>> \in P
      PROVE  i \in DOMAIN keys /\ j \in DOMAIN others /\ keys[i] = others[j]
  BY <1>1, <1>5, <1>7, <1>9 DEF Chosen
<1>10. ASSUME NEW i, NEW j, NEW k, NEW l, <<i, j>> \in P, <<k, l>> \in P
       PROVE  /\ i = k <=> j = l
              /\ keys[i] = keys[k] => (i < k <=> j < l)
  <2>1. PICK m \in DOMAIN pairs : pairs[m][1] = i /\ pairs[m][2] = j
    BY <1>7, <1>10
  <2>2. PICK o \in DOMAIN pairs : pairs[o][1] = k /\ pairs[o][2] = l
    BY <1>7, <1>10
  <2>3. i \in Nat /\ j \in Nat /\ k \in Nat /\ l \in Nat /\ m \in Nat /\ o \in Nat
    BY <1>6, <2>1, <2>2
  <2>4. keys[i] = others[j] /\ keys[k] = others[l]
    BY <1>9, <1>10
  <2> DEFINE Before(a, c) == /\ pairs[a][1] < pairs[c][1] /\ pairs[a][2] # pairs[c][2]
                             /\ others[pairs[a][2]] = others[pairs[c][2]] =>
                                   pairs[a][2] < pairs[c][2]
  <2>5. /\ \A a, c \in DOMAIN pairs :
              a < c => pairs[a][1] < pairs[c][1] /\ pairs[a][2] # pairs[c][2]
        /\ \A a, c \in DOMAIN pairs :
              a < c /\ others[pairs[a][2]] = others[pairs[c][2]] => pairs[a][2] < pairs[c][2]
    BY <1>5 DEF Chosen
  <2>6. (m < o => Before(m, o)) /\ (o < m => Before(o, m))
    BY <2>5
  <2>7. m < o => i < k /\ j # l /\ (keys[i] = keys[k] => j < l)
    BY <2>1, <2>2, <2>4, <2>6
  <2>8. o < m => k < i /\ l # j /\ (keys[i] = keys[k] => l < j)
    BY <2>1, <2>2, <2>4, <2>6
  <2>9. m = o => i = k /\ j = l
    BY <2>1, <2>2
  <2>10. QED
    BY <2>3, <2>7, <2>8, <2>9
<1>11. ASSUME NEW i \in DOMAIN keys, NEW j \in DOMAIN others, keys[i] = others[j],
              ~ \E l : <<i, l>> \in P
       PROVE  \E k : <<k, j>> \in P /\ k < i
  <2>1. ~ \E m \in DOMAIN pairs : pairs[m][1] = i
    <3>1. \A m \in DOMAIN pairs : <<pairs[m][1], pairs[m][2]>> \in P
      BY <1>7
    <3>2. QED
      BY <1>11, <3>1
  <2>2. PICK m \in DOMAIN pairs : pairs[m][2] = j /\ pairs[m][1] < i
    BY <1>1, <1>5, <1>11, <2>1 DEF Chosen
  <2>3. QED
    BY <1>7, <2>2
<1>12. ASSUME NEW i \in DOMAIN keys, NEW k, NEW l, <<k, l>> \in P, keys[i] = keys[k], i < k
       PROVE  \E j : <<i, j>> \in P
  <2>1. SUFFICES ASSUME ~ \E j : <<i, j>> \in P PROVE FALSE
    OBVIOUS
  <2>2. l \in DOMAIN others /\ keys[i] = others[l] /\ k \in DOMAIN keys
    BY <1>9, <1>12
  <2>3. PICK h : <<h, l>> \in P /\ h < i
    BY <1>11, <2>1, <2>2
  <2>4. h = k
    BY <1>10, <1>12, <2>3
  <2>5. i \in Nat /\ k \in Nat
    BY <1>1, <2>2
  <2>6. QED
    BY <1>12, <2>3, <2>4, <2>5
<1>13. ASSUME NEW j \in DOMAIN others, NEW k, NEW l, <<k, l>> \in P,
              others[j] = others[l], j < l
       PROVE  \E i : <<i, j>> \in P
  <2>1. PICK m \in DOMAIN pairs : pairs[m][1] = k /\ pairs[m][2] = l
    BY <1>7, <1>13
  <2>2. PICK o \in DOMAIN pairs : pairs[o][2] = j
    BY <1>5, <1>13, <2>1 DEF Chosen
  <2>3. QED
    BY <1>7, <2>2
<1>14. P \subseteq (DOMAIN keys) \X (DOMAIN others)
  <2>1. ASSUME NEW p \in P PROVE p \in (DOMAIN keys) \X (DOMAIN others)
    <3>1. p = <<p[1], p[2]>> /\ <<p[1], p[2]>> \in P
      BY <1>8
    <3>2. p[1] \in DOMAIN keys /\ p[2] \in DOMAIN others
      BY <1>9, <3>1
    <3>3. <<p[1], p[2]>> \in (DOMAIN keys) \X (DOMAIN others)
      BY <3>2
    <3>4. QED
      BY <3>1, <3>3, Zenon
  <2>2. QED
    BY <2>1
<1>15. Pairing(P, keys, others)
  BY <1>9, <1>10, <1>11, <1>12, <1>13, <1>14 DEF Pairing
<1>16. \A m, k \in DOMAIN pairs : m < k => pairs[m] # pairs[k]
  BY <1>5 DEF Chosen
<1>17. QED
  BY <1>6, <1>15, <1>16 DEF P, pairs

\* Membership of a transposed set of pairs
LEMMA TransposedHas ==
    ASSUME NEW P, \A p \in P : p = <<p[1], p[2]>>
    PROVE  \A i, j : <<j, i>> \in Transposed(P) <=> <<i, j>> \in P
<1>1. ASSUME NEW i, NEW j, <<j, i>> \in Transposed(P) PROVE <<i, j>> \in P
  <2>1. PICK p \in P : <<j, i>> = <<p[2], p[1]>>
    BY <1>1 DEF Transposed
  <2>2. p = <<p[1], p[2]>> /\ p[1] = i /\ p[2] = j
    BY <2>1, Zenon
  <2>3. QED
    BY <2>2
<1>2. ASSUME NEW i, NEW j, <<i, j>> \in P PROVE <<j, i>> \in Transposed(P)
  <2>1. <<i, j>>[1] = i /\ <<i, j>>[2] = j
    OBVIOUS
  <2>2. QED
    BY <1>2, <2>1 DEF Transposed
<1>3. QED
  BY <1>1, <1>2

\* A pairing read from the other side is one.
LEMMA PairingTransposed ==
    ASSUME NEW P, NEW keys, NEW others, Pairing(P, keys, others)
    PROVE  Pairing(Transposed(P), others, keys)
<1> DEFINE Q == Transposed(P)
<1>1. P \subseteq (DOMAIN keys) \X (DOMAIN others)
  BY DEF Pairing
<1>2. \A i, j : <<j, i>> \in Q <=> <<i, j>> \in P
  <2>1. \A p \in P : p = <<p[1], p[2]>>
    BY <1>1
  <2>2. QED
    BY <2>1, TransposedHas
<1>3. Q \subseteq (DOMAIN others) \X (DOMAIN keys)
  <2>1. ASSUME NEW q \in Q PROVE q \in (DOMAIN others) \X (DOMAIN keys)
    <3>1. PICK p \in P : q = <<p[2], p[1]>>
      BY DEF Transposed
    <3>2. p \in (DOMAIN keys) \X (DOMAIN others)
      BY <1>1, <3>1
    <3>3. p[1] \in DOMAIN keys /\ p[2] \in DOMAIN others
      BY <3>2
    <3>4. QED
      BY <3>1, <3>3
  <2>2. QED
    BY <2>1
<1> HIDE DEF Q
<1>4. \A i, j : <<i, j>> \in Q => others[i] = keys[j]
  BY <1>2 DEF Pairing
<1>5. \A i, j, k, l : <<i, j>> \in Q /\ <<k, l>> \in Q => (i = k <=> j = l)
  <2> SUFFICES ASSUME NEW i, NEW j, NEW k, NEW l, <<i, j>> \in Q, <<k, l>> \in Q
               PROVE  i = k <=> j = l
    OBVIOUS
  <2>1. <<j, i>> \in P /\ <<l, k>> \in P
    BY <1>2
  <2>2. QED
    BY <2>1 DEF Pairing
<1>6. \A i, j, k, l :
         <<i, j>> \in Q /\ <<k, l>> \in Q /\ others[i] = others[k] => (i < k <=> j < l)
  <2> SUFFICES ASSUME NEW i, NEW j, NEW k, NEW l, <<i, j>> \in Q, <<k, l>> \in Q,
                      others[i] = others[k]
               PROVE  i < k <=> j < l
    OBVIOUS
  <2>1. <<j, i>> \in P /\ <<l, k>> \in P /\ keys[j] = keys[l]
    BY <1>2, <1>4
  <2>2. QED
    BY <2>1 DEF Pairing
<1>7. \A i \in DOMAIN others : \A k, l :
         <<k, l>> \in Q /\ others[i] = others[k] /\ i < k => \E j : <<i, j>> \in Q
  <2> SUFFICES ASSUME NEW i \in DOMAIN others, NEW k, NEW l, <<k, l>> \in Q,
                      others[i] = others[k], i < k
               PROVE  \E j : <<i, j>> \in Q
    OBVIOUS
  <2>1. <<l, k>> \in P
    BY <1>2
  <2>2. PICK j : <<j, i>> \in P
    BY <2>1 DEF Pairing
  <2>3. QED
    BY <1>2, <2>2
<1>8. \A j \in DOMAIN keys : \A k, l :
         <<k, l>> \in Q /\ keys[j] = keys[l] /\ j < l => \E i : <<i, j>> \in Q
  <2> SUFFICES ASSUME NEW j \in DOMAIN keys, NEW k, NEW l, <<k, l>> \in Q,
                      keys[j] = keys[l], j < l
               PROVE  \E i : <<i, j>> \in Q
    OBVIOUS
  <2>1. <<l, k>> \in P
    BY <1>2
  <2>2. PICK i : <<j, i>> \in P
    BY <2>1 DEF Pairing
  <2>3. QED
    BY <1>2, <2>2
<1>9. \A i \in DOMAIN others, j \in DOMAIN keys :
         others[i] = keys[j] => (\E l : <<i, l>> \in Q) \/ (\E k : <<k, j>> \in Q)
  BY <1>2 DEF Pairing
<1>10. Pairing(Q, others, keys)
  BY <1>3, <1>4, <1>5, <1>6, <1>7, <1>8, <1>9 DEF Pairing
<1>11. QED
  BY <1>10 DEF Q
\* A list without repetition has as many elements as its length.
LEMMA RangeOfDistinct ==
    ASSUME NEW T, NEW s \in Seq(T), \A m, k \in DOMAIN s : m < k => s[m] # s[k]
    PROVE  IsFiniteSet(Range(s)) /\ Cardinality(Range(s)) = Len(s)
<1> DEFINE n == Len(s)
           S == Range(s)
<1>1. n \in Nat /\ DOMAIN s = 1..n
  OBVIOUS
<1> HIDE DEF n
<1>2. s \in [1..n -> S] /\ \A t \in S : \E i \in 1..n : s[i] = t
  <2>1. s = [i \in 1..n |-> s[i]]
    BY <1>1
  <2>2. \A i \in 1..n : s[i] \in S
    BY <1>1 DEF Range
  <2>3. \A t \in S : \E i \in 1..n : s[i] = t
    BY <1>1 DEF Range
  <2> HIDE DEF S
  <2>4. QED
    BY <2>1, <2>2, <2>3
<1> HIDE DEF S
<1>3. \A i, j \in 1..n : s[i] = s[j] => i = j
  <2>1. \A i, j \in 1..n : i < j \/ j < i \/ i = j
    BY <1>1
  <2>2. QED
    BY <1>1, <2>1
<1>4. s \in Bijection(1..n, S)
  BY <1>1, <1>2, <1>3 DEF Bijection, Injection, Surjection, IsInjective
<1>5. ExistsBijection(1..n, S)
  BY <1>4 DEF ExistsBijection
<1>6. QED
  BY <1>1, <1>5, FS_CountingElements, FS_NatBijection DEF S, n

\* Two pairings that agree on the keys before one agree on where it is paired.
LEMMA PairingAgrees ==
    ASSUME NEW K, NEW O, NEW keys \in Seq(K), NEW others \in Seq(O), NEW P, NEW Q,
           Pairing(P, keys, others), Pairing(Q, keys, others),
           NEW i \in DOMAIN keys,
           \A h \in DOMAIN keys : \A l : h < i => (<<h, l>> \in P <=> <<h, l>> \in Q),
           NEW j, <<i, j>> \in P
    PROVE  <<i, j>> \in Q
<1>1. /\ \A h \in DOMAIN keys : h \in Nat
      /\ \A l \in DOMAIN others : l \in Nat
  OBVIOUS
<1>2. \A R \in {P, Q} : \A h, l : <<h, l>> \in R =>
         h \in DOMAIN keys /\ l \in DOMAIN others /\ keys[h] = others[l]
  BY DEF Pairing
<1>3. \A R \in {P, Q} : \A h, l, m, n : <<h, l>> \in R /\ <<m, n>> \in R =>
         (h = m <=> l = n) /\ (keys[h] = keys[m] => (h < m <=> l < n))
  BY DEF Pairing
<1>4. \A l \in DOMAIN others : \A m, n :
         /\ <<m, n>> \in P /\ others[l] = others[n] /\ l < n => \E h : <<h, l>> \in P
         /\ <<m, n>> \in Q /\ others[l] = others[n] /\ l < n => \E h : <<h, l>> \in Q
  BY DEF Pairing
<1>5. j \in DOMAIN others /\ keys[i] = others[j]
  BY <1>2
<1>6. ASSUME NEW l, <<i, l>> \in Q PROVE l = j
  <2>1. l \in DOMAIN others /\ keys[i] = others[l]
    BY <1>2, <1>6
  <2>2. ASSUME l < j PROVE FALSE
    <3>1. PICK h : <<h, l>> \in P
      BY <1>4, <1>5, <2>1, <2>2
    <3>2. h \in DOMAIN keys /\ keys[h] = keys[i]
      BY <1>2, <2>1, <3>1
    <3>3. h < i
      BY <1>3, <2>2, <3>1, <3>2
    <3>4. <<h, l>> \in Q
      BY <3>1, <3>2, <3>3
    <3>5. h = i
      BY <1>3, <1>6, <3>4
    <3>6. QED
      BY <1>1, <3>3, <3>5
  <2>3. ASSUME j < l PROVE FALSE
    <3>1. PICK h : <<h, j>> \in Q
      BY <1>4, <1>5, <1>6, <2>1, <2>3
    <3>2. h \in DOMAIN keys /\ keys[h] = keys[i]
      BY <1>2, <1>5, <3>1
    <3>3. h < i
      BY <1>3, <1>6, <2>3, <3>1, <3>2
    <3>4. <<h, j>> \in P
      BY <3>1, <3>2, <3>3
    <3>5. h = i
      BY <1>3, <3>4
    <3>6. QED
      BY <1>1, <3>3, <3>5
  <2>4. l \in Nat /\ j \in Nat
    BY <1>1, <1>5, <2>1
  <2>5. QED
    BY <2>2, <2>3, <2>4
<1>7. CASE \E l : <<i, l>> \in Q
  BY <1>6, <1>7
<1>8. CASE \E k : <<k, j>> \in Q
  <2>1. PICK k : <<k, j>> \in Q
    BY <1>8
  <2>2. k \in DOMAIN keys /\ keys[k] = keys[i]
    BY <1>2, <1>5, <2>1
  <2>3. CASE k < i
    <3>1. <<k, j>> \in P
      BY <2>1, <2>2, <2>3
    <3>2. k = i
      BY <1>3, <3>1
    <3>3. QED
      BY <2>1, <3>2
  <2>4. CASE i < k
    <3>1. \E l : <<i, l>> \in Q
      BY <2>1, <2>2, <2>4 DEF Pairing
    <3>2. QED
      BY <1>7, <3>1
  <2>5. CASE k = i
    BY <2>1, <2>5
  <2>6. QED
    BY <1>1, <2>2, <2>3, <2>4, <2>5
<1>9. QED
  BY <1>5, <1>7, <1>8 DEF Pairing

\* There is one pairing of two lists.
LEMMA PairingIsUnique ==
    ASSUME NEW K, NEW O, NEW keys \in Seq(K), NEW others \in Seq(O), NEW P, NEW Q,
           Pairing(P, keys, others), Pairing(Q, keys, others)
    PROVE  P = Q
<1> DEFINE Bad == {i \in DOMAIN keys : \E j : ~(<<i, j>> \in P <=> <<i, j>> \in Q)}
<1>1. ASSUME Bad # {} PROVE FALSE
  <2>1. Bad \subseteq Nat /\ \A h \in DOMAIN keys : h \in Nat
    OBVIOUS
  <2>2. PICK i \in Bad : \A h \in Bad : i <= h
    BY <1>1, <2>1, LeastIndex
  <2>3. i \in DOMAIN keys
    OBVIOUS
  <2>4. ASSUME NEW h \in DOMAIN keys, NEW l, h < i
        PROVE  <<h, l>> \in P <=> <<h, l>> \in Q
    <3>1. ~(i <= h)
      BY <2>1, <2>3, <2>4
    <3>2. h \notin Bad
      BY <2>2, <3>1
    <3>3. QED
      BY <3>2
  <2>5. ASSUME NEW j, <<i, j>> \in P PROVE <<i, j>> \in Q
    BY <2>3, <2>4, <2>5, PairingAgrees
  <2>6. ASSUME NEW j, <<i, j>> \in Q PROVE <<i, j>> \in P
    BY <2>3, <2>4, <2>6, PairingAgrees
  <2>7. QED
    BY <2>5, <2>6
<1>2. P \subseteq (DOMAIN keys) \X (DOMAIN others) /\ Q \subseteq (DOMAIN keys) \X (DOMAIN others)
  BY DEF Pairing
<1>3. \A i \in DOMAIN keys : \A j : <<i, j>> \in P <=> <<i, j>> \in Q
  BY <1>1
<1>4. ASSUME NEW p \in (DOMAIN keys) \X (DOMAIN others) PROVE p \in P <=> p \in Q
  <2>1. PICK i \in DOMAIN keys, j \in DOMAIN others : p = <<i, j>>
    OBVIOUS
  <2>2. QED
    BY <1>3, <2>1
<1>5. QED
  BY <1>2, <1>4

\* Pairing reads the same from either side.
LEMMA PairsReverse ==
    ASSUME NEW K, NEW O, NEW keys \in Seq(K), NEW others \in Seq(O)
    PROVE  /\ Range(OneToOne(others, keys)) = Transposed(Range(OneToOne(keys, others)))
           /\ Len(OneToOne(others, keys)) = Len(OneToOne(keys, others))
<1> DEFINE pairs == OneToOne(keys, others)
           back == OneToOne(others, keys)
<1>1. /\ pairs \in Seq(Nat \X Nat) /\ Pairing(Range(pairs), keys, others)
      /\ \A m, k \in DOMAIN pairs : m < k => pairs[m] # pairs[k]
  BY OneToOnePairs
<1>2. /\ back \in Seq(Nat \X Nat) /\ Pairing(Range(back), others, keys)
      /\ \A m, k \in DOMAIN back : m < k => back[m] # back[k]
  BY OneToOnePairs
<1> HIDE DEF pairs, back
<1>3. Range(back) = Transposed(Range(pairs))
  <2>1. Pairing(Transposed(Range(pairs)), others, keys)
    BY <1>1, PairingTransposed
  <2>2. QED
    BY <1>2, <2>1, PairingIsUnique
<1>4. /\ IsFiniteSet(Range(pairs)) /\ Cardinality(Range(pairs)) = Len(pairs)
      /\ IsFiniteSet(Range(back)) /\ Cardinality(Range(back)) = Len(back)
  BY <1>1, <1>2, RangeOfDistinct
<1>5. Cardinality(Range(back)) = Cardinality(Range(pairs))
  <2> DEFINE flip == [p \in Range(pairs) |-> <<p[2], p[1]>>]
  <2>1. \A p \in Range(pairs) : p = <<p[1], p[2]>>
    <3>1. \A m \in DOMAIN pairs : pairs[m] \in Nat \X Nat
      BY <1>1
    <3>2. \A p \in Range(pairs) : p \in Nat \X Nat
      BY <3>1 DEF Range
    <3>3. QED
      BY <3>2
  <2>2. \A p, q \in Range(pairs) : <<p[2], p[1]>> = <<q[2], q[1]>> => p = q
    BY <2>1
  <2>3. flip \in Bijection(Range(pairs), Range(back))
    <3>1. flip \in [Range(pairs) -> Range(back)]
      BY <1>3 DEF Transposed
    <3>2. \A p, q \in Range(pairs) : flip[p] = flip[q] => p = q
      BY <2>2
    <3>3. \A q \in Range(back) : \E p \in Range(pairs) : flip[p] = q
      BY <1>3 DEF Transposed
    <3> HIDE DEF flip
    <3>4. QED
      BY <3>1, <3>2, <3>3 DEF Bijection, Injection, Surjection, IsInjective
  <2>4. QED
    BY <1>4, <2>3, FS_Bijection DEF ExistsBijection
<1>6. QED
  BY <1>3, <1>4, <1>5 DEF pairs, back

-------------------------------------------------------------------------------
(* Sorting arranges *)

\* p says where each of the first n values is in a sorted list.
Arranges(p, n, sorted, values) ==
    /\ p \in [1..n -> 1..n]
    /\ \A i, j \in 1..n : p[i] = p[j] => i = j
    /\ \A k \in 1..n : \E i \in 1..n : p[i] = k
    /\ \A i \in 1..n : sorted[p[i]] = values[i]

\* What taking a place is
LEMMA PlacedAt ==
    ASSUME NEW sorted \in Seq(Int), NEW value \in Int
    PROVE  \E place \in 1..(Len(sorted) + 1) :
              Placed(sorted, value) =
                 [i \in 1..(Len(sorted) + 1) |->
                    IF i < place THEN sorted[i]
                    ELSE IF i = place THEN value ELSE sorted[i - 1]]
<1> DEFINE n == Len(sorted)
           I == {i \in DOMAIN sorted : sorted[i] > value} \union {n + 1}
<1>1. n \in Nat /\ DOMAIN sorted = 1..n
  OBVIOUS
<1>2. I \subseteq 1..(n + 1) /\ I # {}
  BY <1>1
<1>3. I \subseteq Nat
  BY <1>1, <1>2
<1>4. Min(I) \in 1..(n + 1)
  BY <1>2, <1>3, LeastIndex
<1>5. QED
  BY <1>4 DEF Placed

\* A value that takes its place keeps the others in the list.
LEMMA PlacedArranges ==
    ASSUME NEW n \in Nat, n >= 1, NEW sorted \in Seq(Int), Len(sorted) = n - 1,
           NEW values, values[n] \in Int, NEW p, Arranges(p, n - 1, sorted, values)
    PROVE  \E q : Arranges(q, n, Placed(sorted, values[n]), values)
<1>1. PICK place \in 1..n : Placed(sorted, values[n]) =
                 [i \in 1..n |-> IF i < place THEN sorted[i]
                                 ELSE IF i = place THEN values[n] ELSE sorted[i - 1]]
  <2>1. Len(sorted) + 1 = n
    OBVIOUS
  <2>2. \E place \in 1..(Len(sorted) + 1) : Placed(sorted, values[n]) =
           [i \in 1..(Len(sorted) + 1) |-> IF i < place THEN sorted[i]
                                          ELSE IF i = place THEN values[n] ELSE sorted[i - 1]]
    BY PlacedAt
  <2>3. QED
    BY <2>1, <2>2
<1> DEFINE placed == Placed(sorted, values[n])
           q == [i \in 1..n |-> IF i = n THEN place
                                ELSE IF p[i] < place THEN p[i] ELSE p[i] + 1]
<1>2. \A i \in 1..n : i = n \/ i \in 1..(n - 1)
  OBVIOUS
<1>3. \A i \in 1..(n - 1) : p[i] \in 1..(n - 1) /\ i \in 1..n /\ i # n
  <2>1. p \in [1..(n - 1) -> 1..(n - 1)]
    BY DEF Arranges
  <2>2. \A i \in 1..(n - 1) : i \in 1..n /\ i # n
    OBVIOUS
  <2>3. QED
    BY <2>1, <2>2
<1>4. /\ q[n] = place
      /\ \A i \in 1..(n - 1) : q[i] = IF p[i] < place THEN p[i] ELSE p[i] + 1
  BY <1>3
<1>5. q \in [1..n -> 1..n]
  <2>1. q[n] \in 1..n
    BY <1>1, <1>4
  <2>2. ASSUME NEW i \in 1..(n - 1) PROVE q[i] \in 1..n
    <3> DEFINE e == p[i]
    <3>1. e \in 1..(n - 1)
      BY <1>3
    <3> HIDE DEF e
    <3>2. e \in 1..n /\ e + 1 \in 1..n
      BY <3>1
    <3>3. q[i] = e \/ q[i] = e + 1
      BY <1>4 DEF e
    <3>4. QED
      BY <3>2, <3>3
  <2>3. \A i \in 1..n : q[i] \in 1..n
    BY <1>2, <2>1, <2>2
  <2>4. q = [i \in 1..n |-> q[i]]
    OBVIOUS
  <2> HIDE DEF q
  <2>5. QED
    BY <2>3, <2>4
<1> HIDE DEF q
<1>6. \A i \in 1..(n - 1) : q[i] # place
  BY <1>3, <1>4
<1>7. ASSUME NEW i \in 1..n, NEW j \in 1..n, q[i] = q[j] PROVE i = j
  <2>1. CASE i \in 1..(n - 1) /\ j \in 1..(n - 1)
    <3>1. p[i] \in Int /\ p[j] \in Int /\ place \in Int
      BY <1>1, <1>3, <2>1
    <3>2. (IF p[i] < place THEN p[i] ELSE p[i] + 1) = (IF p[j] < place THEN p[j] ELSE p[j] + 1)
      BY <1>4, <1>7, <2>1
    <3>3. p[i] = p[j]
      BY <3>1, <3>2
    <3>4. QED
      BY <2>1, <3>3 DEF Arranges
  <2>2. QED
    BY <1>2, <1>4, <1>6, <1>7, <2>1
<1>8. ASSUME NEW k \in 1..n PROVE \E i \in 1..n : q[i] = k
  <2>1. CASE k = place
    BY <1>4, <2>1
  <2>2. CASE k < place
    <3>1. k \in 1..(n - 1)
      BY <2>2
    <3>2. PICK i \in 1..(n - 1) : p[i] = k
      BY <3>1 DEF Arranges
    <3>3. QED
      BY <1>3, <1>4, <2>2, <3>2
  <2>3. CASE k > place
    <3>1. k - 1 \in 1..(n - 1) /\ ~(k - 1 < place) /\ (k - 1) + 1 = k
      BY <2>3
    <3>2. PICK i \in 1..(n - 1) : p[i] = k - 1
      BY <3>1 DEF Arranges
    <3>3. QED
      BY <1>3, <1>4, <3>1, <3>2
  <2>4. QED
    BY <2>1, <2>2, <2>3
<1>9. ASSUME NEW i \in 1..n PROVE placed[q[i]] = values[i]
  <2>1. CASE i = n
    BY <1>1, <1>4, <2>1
  <2>2. CASE i \in 1..(n - 1)
    <3>1. p[i] \in 1..(n - 1) /\ sorted[p[i]] = values[i]
      BY <1>3, <2>2 DEF Arranges
    <3>2. CASE p[i] < place
      BY <1>1, <1>4, <2>2, <3>1, <3>2
    <3>3. CASE ~(p[i] < place)
      <4> q[i] = p[i] + 1
        BY <1>4, <2>2, <3>3
      <4> p[i] \in Nat /\ place \in Nat /\ p[i] + 1 \in 1..n
        BY <1>1, <3>1
      <4>0. \A k \in Nat : ~(k < place) =>
               ~(k + 1 < place) /\ k + 1 # place /\ (k + 1) - 1 = k
        OBVIOUS
      <4>1. q[i] \in 1..n /\ ~(q[i] < place) /\ q[i] # place /\ q[i] - 1 = p[i]
        BY <3>3, <4>0
      <4>2. placed[q[i]] = sorted[q[i] - 1]
        BY <1>1, <4>1
      <4>3. QED
        BY <3>1, <4>1, <4>2
    <3>4. QED
      BY <3>2, <3>3
  <2>3. QED
    BY <1>2, <2>1, <2>2
<1>10. Arranges(q, n, placed, values)
  BY <1>5, <1>7, <1>8, <1>9 DEF Arranges
<1>11. QED
  BY <1>10

\* Sorted is an arrangement of the values.
LEMMA SortedArranges ==
    ASSUME NEW values \in Seq(Int)
    PROVE  \E p : Arranges(p, Len(values), Sorted(values), values)
<1> DEFINE N == Len(values)
           f == SortedUpTo(values)
           Good == {n \in Nat : /\ f[n] \in Seq(Int) /\ Len(f[n]) = n
                                /\ \E p : Arranges(p, n, f[n], values)}
<1>1. N \in Nat /\ \A n \in 1..N : values[n] \in Int
  OBVIOUS
<1> HIDE DEF N
<1>2. f[0] = <<>> /\ \A n \in 1..N : f[n] = Placed(f[n - 1], values[n])
  BY SortedStep DEF N
<1> HIDE DEF f
<1>3. 0 \in Good
  <2>1. <<>> \in Seq(Int) /\ Len(<<>>) = 0 /\ 1..0 = {}
    OBVIOUS
  <2>2. Arranges([i \in 1..0 |-> 0], 0, <<>>, values)
    BY <2>1 DEF Arranges
  <2>3. QED
    BY <1>2, <2>1, <2>2
<1>4. ASSUME NEW n \in 1..N, n - 1 \in Good PROVE n \in Good
  <2>1. f[n] = Placed(f[n - 1], values[n]) /\ n \in Nat /\ n >= 1 /\ values[n] \in Int
    BY <1>1, <1>2
  <2>2. f[n - 1] \in Seq(Int) /\ Len(f[n - 1]) = n - 1
    BY <1>4
  <2>3. f[n] \in Seq(Int) /\ Len(f[n]) = (n - 1) + 1
    BY <2>1, <2>2, PlacedInOrder
  <2>4. PICK p : Arranges(p, n - 1, f[n - 1], values)
    BY <1>4
  <2>5. \E q : Arranges(q, n, f[n], values)
    BY <2>1, <2>2, <2>4, PlacedArranges
  <2>6. QED
    BY <2>1, <2>3, <2>5
<1>5. N \in Good
  <2> HIDE DEF Good
  <2>1. \A i \in 0..N : i \in Good
    BY <1>1, <1>3, <1>4, UpTo
  <2>2. QED
    BY <1>1, <2>1
<1>6. QED
  BY <1>5, SortedStep DEF f, N

-------------------------------------------------------------------------------
(* Quantiles of natural numbers *)

\* Sorting keeps natural numbers.
LEMMA SortedIsNatural ==
    ASSUME NEW values \in Seq(Nat)
    PROVE  /\ Sorted(values) \in Seq(Nat) /\ Len(Sorted(values)) = Len(values)
<1> DEFINE s == Sorted(values)
           n == Len(values)
<1>1. values \in Seq(Int) /\ n \in Nat /\ \A i \in 1..n : values[i] \in Nat
  OBVIOUS
<1>2. s \in Seq(Int) /\ Len(s) = n
  BY <1>1, SortedInOrder
<1>3. PICK p : Arranges(p, n, s, values)
  BY <1>1, SortedArranges
<1> HIDE DEF s, n
<1>4. ASSUME NEW k \in 1..n PROVE s[k] \in Nat
  <2>1. PICK i \in 1..n : p[i] = k
    BY <1>3 DEF Arranges
  <2>2. s[p[i]] = values[i]
    BY <1>3 DEF Arranges
  <2>3. QED
    BY <1>1, <2>1, <2>2
<1>5. s \in Seq(Nat)
  <2>1. s \in [1..n -> Nat]
    BY <1>2, <1>4
  <2>2. QED
    BY <1>1, <2>1
<1>6. QED
  BY <1>2, <1>5 DEF s, n

\* What a part of a length is: a position, and how far it is to the next
LEMMA PositionInList ==
    ASSUME NEW n \in Nat, n >= 1, NEW num \in Nat, NEW den \in Nat, num < den
    PROVE  LET position == num * (n - 1)
           IN  /\ position \div den + 1 \in 1..n /\ position % den \in 0..(den - 1)
               /\ position % den # 0 => position \div den + 2 \in 1..n
<1> DEFINE position == num * (n - 1)
           q == position \div den
           r == position % den
<1>1. position \in Nat /\ position <= (den - 1) * (n - 1)
  <2>1. \A a, b, c \in Nat : a <= b => a * c <= b * c /\ a * c \in Nat
    OBVIOUS
  <2>2. num <= den - 1 /\ den - 1 \in Nat /\ n - 1 \in Nat
    OBVIOUS
  <2>3. QED
    BY <2>1, <2>2
<1> HIDE DEF position
<1>2. position = den * q + r /\ r \in 0..(den - 1) /\ q \in Nat
  <2>1. den > 0 /\ den \in Nat
    OBVIOUS
  <2>2. \A a \in Nat, d \in Nat : d > 0 => /\ a = (d * (a \div d)) + (a % d)
                                         /\ a % d \in 0..(d - 1) /\ a \div d \in Nat
    OBVIOUS
  <2>3. QED
    BY <1>1, <2>1, <2>2
<1> HIDE DEF q, r
<1>3. q <= n - 1
  <2>1. SUFFICES ASSUME q >= n PROVE FALSE
    BY <1>2
  <2>2. \A a, b, d \in Nat : a >= b => d * a >= d * b
    OBVIOUS
  <2>3. den * q >= den * n
    BY <1>2, <2>1, <2>2
  <2>4. (den - 1) * (n - 1) = den * n - den - n + 1
    OBVIOUS
  <2>5. den * q \in Nat /\ den * n \in Nat
    BY <1>2
  <2>6. QED
    BY <1>1, <1>2, <2>3, <2>4, <2>5
<1>4. ASSUME r # 0 PROVE q <= n - 2
  <2>1. SUFFICES ASSUME q = n - 1 PROVE FALSE
    BY <1>2, <1>3
  <2>2. den * q = den * (n - 1)
    BY <2>1
  <2>3. (den - 1) * (n - 1) = den * (n - 1) - (n - 1)
    OBVIOUS
  <2>4. den * (n - 1) \in Int
    OBVIOUS
  <2>5. QED
    BY <1>1, <1>2, <1>4, <2>2, <2>3, <2>4
<1>5. QED
  BY <1>2, <1>3, <1>4 DEF position, q, r

\* A quantile of natural numbers is one.
LEMMA PercentileIsNatural ==
    ASSUME NEW sorted \in Seq(Nat), NEW num \in Nat, NEW den \in Nat, num < den
    PROVE  PercentileOfSorted(sorted, num, den) \in Nat
<1> DEFINE n == Len(sorted)
           position == num * (n - 1)
           lower == position \div den
           weight == position % den
<1>1. n \in Nat /\ (sorted # <<>> => n >= 1) /\ \A i \in 1..n : sorted[i] \in Nat
  OBVIOUS
<1>2. PercentileOfSorted(sorted, num, den)
        = IF sorted = <<>> THEN 0
          ELSE IF weight = 0 THEN sorted[lower + 1] * den
          ELSE sorted[lower + 1] * (den - weight) + sorted[lower + 2] * weight
  BY DEF PercentileOfSorted
<1>3. CASE sorted = <<>>
  BY <1>2, <1>3
<1>4. CASE sorted # <<>>
  <2>1. /\ lower + 1 \in 1..n /\ weight \in 0..(den - 1)
        /\ weight # 0 => lower + 2 \in 1..n
    BY <1>1, <1>4, PositionInList
  <2> HIDE DEF lower, weight, n
  <2>2. sorted[lower + 1] \in Nat /\ (weight # 0 => sorted[lower + 2] \in Nat)
    BY <1>1, <2>1
  <2>3. weight \in Nat /\ den - weight \in Nat
    BY <2>1
  <2>4. \A a, b \in Nat : a * b \in Nat /\ a + b \in Nat
    OBVIOUS
  <2>5. CASE weight = 0
    BY <1>2, <1>4, <2>2, <2>4, <2>5
  <2>6. CASE weight # 0
    <3>1. /\ sorted[lower + 1] * (den - weight) \in Nat
          /\ sorted[lower + 2] * weight \in Nat
      BY <2>2, <2>3, <2>4, <2>6
    <3>2. QED
      BY <1>2, <1>4, <2>4, <2>6, <3>1
  <2>7. QED
    BY <2>5, <2>6
<1>5. QED
  BY <1>3, <1>4

\* So are its median absolute deviation, and what Percentile gives.
LEMMA QuantilesAreNatural ==
    ASSUME NEW values \in Seq(Nat)
    PROVE  /\ Percentile(values, 1, 2) \in Nat /\ Percentile(values, 19, 20) \in Nat
           /\ \A median \in Nat : MedianAbsoluteDeviation(values, median) \in Nat
<1>1. Sorted(values) \in Seq(Nat)
  BY SortedIsNatural
<1>2. Percentile(values, 1, 2) \in Nat
  BY <1>1, PercentileIsNatural DEF Percentile
<1>3. Percentile(values, 19, 20) \in Nat
  BY <1>1, PercentileIsNatural DEF Percentile
<1>4. ASSUME NEW median \in Nat PROVE MedianAbsoluteDeviation(values, median) \in Nat
  <2> DEFINE deviations == [i \in DOMAIN values |-> Distance(2 * values[i], median)]
  <2>1. \A v \in Nat : Distance(2 * v, median) \in Nat
    BY DEF Distance
  <2>2. DOMAIN values = 1..Len(values) /\ Len(values) \in Nat
    OBVIOUS
  <2>3. \A i \in 1..Len(values) : values[i] \in Nat
    OBVIOUS
  <2>4. deviations \in [1..Len(values) -> Nat]
    BY <2>1, <2>2, <2>3
  <2>5. deviations \in Seq(Nat)
    BY <2>2, <2>4
  <2> HIDE DEF deviations
  <2>6. PercentileOfSorted(Sorted(deviations), 1, 2) \in Nat
    BY <2>5, SortedIsNatural, PercentileIsNatural
  <2>7. QED
    BY <2>6 DEF MedianAbsoluteDeviation, deviations
<1>5. QED
  BY <1>2, <1>3, <1>4
===============================================================================
