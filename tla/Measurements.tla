---------------------------- MODULE Measurements ----------------------------
(***************************************************************************)
(* Measurements of a table, made on two neighbouring tables at once: what  *)
(* the measurement claims its privacy loss is (privacy_function), and what *)
(* the loss is on these two tables.                                        *)
(*                                                                         *)
(* A chain of transformations (TableTransformations) ends in a table or,   *)
(* after GroupBy, in groups; a measurement is made of either.  `made' is   *)
(* the measurement last made.  Its claim, and the d_out that was asked     *)
(* for, are counted per unit of the chain's distance d, or per d * d for   *)
(* zCDP, whose square is `apart'.  The loss is the sum, over the groups,   *)
(* of what the noise has to make up for: |x - x'| / scale for Laplace and  *)
(* geometric noise, (x - x')^2 / (2 sigma^2) for Gaussian noise.           *)
(***************************************************************************)
EXTENDS TableTransformations, Rationals

CONSTANTS
  Num,              \* the numbers that cells stand for, in halves
  Bounds,           \* clipping bounds, in halves
  Budgets,          \* d_outs asked for, per d, or per d * d for zCDP
  Scales,           \* noise scales of measurements of one number
  Quantiles,        \* quantiles, as pairs <<n, d>>
  QuantileOver,     \* aggregations under which pure quantiles are asked for
  Ranks,            \* buckets of int and of float columns
  Fractions,        \* threshold fractions, as pairs <<n, d>>
  Growth,           \* e ^ (1 / alpha) of partition selection
  PartitionDeltas,  \* deltas asked of partition selection
  SelectThresholds, \* thresholds of partition selection
  MaxParts          \* bound: measurements in a composition

ASSUME GrowthAssumption == Growth \in Nat \ {0, 1}
ASSUME NumbersAssumption ==
  /\ \A q \in Budgets \cup Scales : IsNumber(q)
  /\ \A b \in Bounds : b \in Int \X Int
  /\ \A q \in Quantiles \cup Fractions : q \in Nat \X (Nat \ {0}) /\ q[1] <= q[2]
  /\ \A kind \in {"int", "float"} :
       IsFiniteSet(Ranks[kind]) /\ Ranks[kind] # {} /\ Ranks[kind] \subseteq Int
(* Budgets of partition selection are finite, with a delta less than 1     *)
(* (ApproxDPBudget.is_finite); a delta of 0 has no threshold.              *)
ASSUME SelectionAssumption ==
  /\ SelectThresholds \subseteq Int
  /\ \A delta \in PartitionDeltas :
       /\ IsNumber(delta) /\ delta # Zero
       /\ delta.n < delta.d
(* The parts of a chain are groups here, never the tables of a list, which *)
(* are measured through ParallelComposition.                               *)
ASSUME NoListsAssumption == PartitionColumns = {}

VARIABLE made
measureVars == <<schema, metric, left, right, bound, steps, made>>

Nothing == [measure |-> "none"]

MeasureInit == Init /\ made = Nothing

TransformStep == Next /\ made = Nothing /\ UNCHANGED made

(* ChainTM: the measurement takes up where the chain of transformations    *)
(* ends, at a distance of which `apart' is the square.                     *)
Make(m) ==
  /\ made = Nothing
  /\ bound > 0
  /\ made' = m
  /\ UNCHANGED vars

-----------------------------------------------------------------------------
(* Noise mechanisms (noise_mechanisms.py) and their scales.                *)
PureMechanisms == {"laplace", "geometric"}
Mechanisms == PureMechanisms \cup {"gaussian", "discrete gaussian"}
IntMechanisms == {"geometric", "discrete gaussian"}

SupportedMeasures(mech) ==   \* ApproxDP through PureDPToApproxDP
  IF mech \in PureMechanisms THEN {"pure", "approx", "rho"} ELSE {"rho"}
FitsColumn(mech, kind) == mech \in IntMechanisms => kind = "int"
(* The metric that noise on a column is measured under.                    *)
NoiseOver(mech) == IF mech \in PureMechanisms THEN "sum" ELSE "l2"

(* calculate_noise_scale, squared.                                         *)
NoiseScale(sensitivity, q, measure) ==
  IF q = Zero THEN Infinity
  ELSE IF q = Infinity THEN Zero
  ELSE Divided(Whole(sensitivity * sensitivity),
               IF measure = "rho" THEN Times(Whole(2), q) ELSE Squared(q))

(* Scales that the constructors accept.                                    *)
ValidScale(mech, scale) == mech \in IntMechanisms => scale # Infinity

(* privacy_function: of epsilon the square.  `l1' is the distance of the   *)
(* numbers, `l2' the square of their distance as vectors.                  *)
AddLaplaceNoise(l1, scale) == IF l1 = 0 THEN Zero ELSE Divided(Whole(l1 * l1), scale)
AddGeometricNoise(l1, alpha) == AddLaplaceNoise(l1, alpha)
AddGaussianNoise(l2, sigma2) ==
  IF l2 = 0 THEN Zero ELSE Divided(Whole(l2), Times(Whole(2), sigma2))
AddDiscreteGaussianNoise(l2, sigma2) == AddGaussianNoise(l2, sigma2)

Spent(mech, l1, l2, scale) ==
  CASE mech = "laplace" -> AddLaplaceNoise(l1, scale)
    [] mech = "geometric" -> AddGeometricNoise(l1, scale)
    [] mech = "gaussian" -> AddGaussianNoise(l2, scale)
    [] mech = "discrete gaussian" -> AddDiscreteGaussianNoise(l2, scale)

(* PureDPToRhoZCDP: epsilon ^ 2 / 2; PureDPToApproxDP: epsilon, with no    *)
(* delta.                                                                  *)
Converted(measure, mech, spent) ==
  IF mech \notin PureMechanisms THEN spent
  ELSE IF measure = "rho" THEN Divided(spent, Whole(2))
  ELSE SquareRoot(spent)

Measurement(measure, apart, asked, claim, loss) ==
  [measure |-> measure, apart |-> apart, asked |-> asked, claim |-> claim,
   loss |-> loss, delta |-> Zero, deltaAsked |-> Zero, leak |-> Zero,
   parts |-> 1]

(* Noise of a scale on numbers that differ by `l1' and `l2', when they may *)
(* differ by `sensitivity' for each unit of distance.                      *)
Noisy(measure, mech, scale, sensitivity, asked, l1, l2) ==
  Measurement(measure, bound, asked,
    Converted(measure, mech,
              Spent(mech, sensitivity, sensitivity * sensitivity, scale)),
    Converted(measure, mech, Spent(mech, l1, l2, scale)))

PostProcess(m) == m

(* Composition: measurements of one input under one measure.               *)
Composed(ms) ==
  LET sum(field) == FoldSeq(Plus, Zero, [i \in DOMAIN ms |-> ms[i][field]])
  IN [ms[1] EXCEPT !.claim = sum("claim"), !.loss = sum("loss"),
                   !.asked = sum("asked"), !.delta = sum("delta"),
                   !.deltaAsked = sum("deltaAsked"), !.leak = sum("leak"),
                   !.parts = FoldSeq(LAMBDA m, n : m.parts + n, 0, ms)]

-----------------------------------------------------------------------------
(* Clipping.  Bounds are exact, what they are compared with are floats:    *)
(* multiples of some grid.  The bounds are rounded inwards.                *)
RoundedUp(x, grid) == -((-x) \div grid) * grid
RoundedDown(x, grid) == (x \div grid) * grid

(* Mutant: bounds are rounded outwards.                                    *)
ClippedOutside(x, b, grid) ==
  LET lower == RoundedDown(b[1], grid)
      upper == RoundedUp(b[2], grid)
  IN IF x < lower THEN lower ELSE IF x > upper THEN upper ELSE x

Clipped(x, b, grid) ==
  LET lower == RoundedUp(b[1], grid)
      upper == IF b[1] = b[2] THEN lower ELSE RoundedDown(b[2], grid)
  IN IF x < lower THEN lower ELSE IF x > upper THEN upper ELSE x

Abs(x) == IF x < 0 THEN -x ELSE x
Larger(x, y) == IF x < y THEN y ELSE x
Smaller(x, y) == IF x < y THEN x ELSE y
Largest(b) == Larger(Abs(b[1]), Abs(b[2]))
Halves == 2      \* the grid: the floats of the model are whole numbers

ValidBounds(c, b) ==
  /\ b[1] <= b[2]
  /\ schema[c].kind = "int" => b[1] % 2 = 0 /\ b[2] % 2 = 0

(* Sums over the copies of a row of V(r), clipped to bounds.               *)
ClippedSum(T, V(_), b, grid) ==
  SumFunction([r \in BagToSet(T) |-> T[r] * Clipped(V(r), b, grid)])

-----------------------------------------------------------------------------
(* Measurements of one number: Count, CountDistinct or Sum of a table,     *)
(* chained with one of the mechanisms.                                     *)
OfOneTable == metric \in {SymmetricDifference, HammingDistance}
Number(measure, mech, scale, sensitivity, change) ==
  LET m == Noisy(measure, mech, Squared(scale), sensitivity, Zero,
                 Abs(change), change * change)
  IN Make([m EXCEPT !.asked = m.claim])
ScaledNoise(kind, sensitivity, change) ==
  \E mech \in Mechanisms, scale \in Scales :
    \E measure \in SupportedMeasures(mech) :
      /\ FitsColumn(mech, kind)
      /\ ValidScale(mech, scale)
      /\ Number(measure, mech, scale, sensitivity, change)

CountSensitivity == IF metric = HammingDistance THEN 2 ELSE 1

Count ==
  /\ OfOneTable
  /\ ScaledNoise("int", CountSensitivity,
                 NumRows(left[<<>>]) - NumRows(right[<<>>]))

CountDistinct ==
  /\ OfOneTable
  /\ ScaledNoise("int", CountSensitivity,
                 Cardinality(BagToSet(left[<<>>]))
                   - Cardinality(BagToSet(right[<<>>])))

SumSensitivity(b) ==
  IF metric = HammingDistance THEN b[2] - b[1] ELSE Largest(b)

(* Measure columns hold neither nulls nor NaNs; infinities are clipped.    *)
CanSum(c) ==
  schema[c].kind \in {"int", "float"} /\ schema[c].allows \cap {Null, NaN} = {}

Sum ==
  /\ OfOneTable
  /\ \E c \in DOMAIN schema, b \in Bounds :
       /\ CanSum(c)
       /\ ValidBounds(c, b)
       /\ LET sum(T) == ClippedSum(T, LAMBDA r : Num[r[c]], b, Halves)
          IN ScaledNoise(schema[c].kind, SumSensitivity(b),
                         sum(left[<<>>]) - sum(right[<<>>]))

-----------------------------------------------------------------------------
(* Measurements of groups: one number, or one quantile, for each group key.*)
(* A total aggregation is the one of the single group with the empty key.  *)
IsGrouped == metric.over # "table"
GroupColumns == DOMAIN (CHOOSE k \in DOMAIN left : TRUE)

(* Whether noise may be added to the numbers of the groups.                *)
CanAddNoise(mech, kind, measure, q) ==
  /\ IsGrouped
  /\ metric.over = NoiseOver(mech)
  /\ FitsColumn(mech, kind)
  /\ measure \in SupportedMeasures(mech)
  /\ ValidScale(mech, NoiseScale(1, q, measure))

(* change[k] is by how much the number of group k changes, F the           *)
(* aggregation of a group.                                                 *)
Total(change) == SumFunction([k \in DOMAIN change |-> Abs(change[k])])
TotalOfSquares(change) == SumFunction([k \in DOMAIN change |-> change[k] * change[k]])
NoisyChanges(change, sensitivity, mech, measure, q) ==
  Noisy(measure, mech, NoiseScale(sensitivity, q, measure), sensitivity, q,
        Total(change), TotalOfSquares(change))
NoisyGroups(F(_), sensitivity, mech, measure, q) ==
  NoisyChanges([k \in DOMAIN left |-> F(left[k]) - F(right[k])],
               sensitivity, mech, measure, q)

NoisyCount(mech, measure, q) ==
  NoisyGroups(NumRows, 1, mech, measure, q)
NoisyCountDistinct(mech, measure, q) ==
  NoisyGroups(LAMBDA T : Cardinality(BagToSet(T)), 1, mech, measure, q)
NoisySum(V(_), b, grid, mech, measure, q) ==
  NoisyGroups(LAMBDA T : ClippedSum(T, V, b, grid), Largest(b), mech, measure, q)

CreateCountMeasurement ==
  \E mech \in Mechanisms, q \in Budgets :
    \E measure \in SupportedMeasures(mech) :
      /\ CanAddNoise(mech, "int", measure, q)
      /\ Make(NoisyCount(mech, measure, q))

CreateCountDistinctMeasurement ==
  \E mech \in Mechanisms, q \in Budgets :
    \E measure \in SupportedMeasures(mech) :
      /\ CanAddNoise(mech, "int", measure, q)
      /\ Make(NoisyCountDistinct(mech, measure, q))

(* Noise is not added to columns with infinities.                          *)
MeasureColumns(b) ==
  {c \in DOMAIN schema \ GroupColumns :
     CanSum(c) /\ schema[c].allows = {} /\ ValidBounds(c, b)}

CreateSumMeasurement ==
  \E mech \in Mechanisms, q \in Budgets, b \in Bounds :
    \E measure \in SupportedMeasures(mech), c \in MeasureColumns(b) :
      /\ CanAddNoise(mech, schema[c].kind, measure, q)
      /\ Make(NoisySum(LAMBDA r : Num[r[c]], b, Halves, mech, measure, q))

(* get_midpoint, of bounds counted in halves of `one', doubled: the float  *)
(* that is subtracted from the column, and the exact number that is        *)
(* subtracted from the bounds.  Midpoints of ints are rounded to an int,   *)
(* to an even one if there are two.                                        *)
RoundedHalf(n, one) ==   \* n / 2, rounded to a multiple of one
  LET below == (n \div (2 * one)) * one
      rest == n - 2 * below
  IN IF rest < one \/ (rest = one /\ (below \div one) % 2 = 0) THEN below
     ELSE below + one
Midpoint(b, kind, one) ==
  IF kind = "int" THEN 2 * RoundedHalf(b[1] + b[2], one)
  ELSE RoundedUp(b[1], one) + RoundedDown(b[2], one)
MovedBounds(b, kind, one) ==
  LET mid == IF kind = "int" THEN Midpoint(b, kind, one) ELSE b[1] + b[2]
  IN <<2 * b[1] - mid, 2 * b[2] - mid>>

(* The sum of the deviations from the midpoint, of numbers V(r) whose ones *)
(* are `one', and the same of their squares.                               *)
NoisyDeviations(V(_), b, kind, one, mech, measure, q) ==
  NoisySum(LAMBDA r : 2 * V(r) - Midpoint(b, kind, one),
           MovedBounds(b, kind, one), 2 * one, mech, measure, q)
SquaredBounds(b) ==
  LET l == b[1] * b[1]
      u == b[2] * b[2]
  IN <<IF b[1] <= 0 /\ 0 <= b[2] THEN 0 ELSE Smaller(l, u), Larger(l, u)>>

Part(q, n) == IF q = Infinity THEN q ELSE Divided(q, Whole(n))

(* Mutant: the count gets what is asked for, and so does the sum.          *)
NoisyAverageOfWhole(c, b, mech, measure, q) ==
  LET kind == schema[c].kind
  IN [PostProcess(Composed(
       <<NoisyDeviations(LAMBDA r : Num[r[c]], b, kind, Halves, mech, measure, q),
         NoisyCount(mech, measure, q)>>)) EXCEPT !.asked = q]

(* create_average_measurement: the sum of the deviations and the count.    *)
NoisyAverage(c, b, mech, measure, q) ==
  LET kind == schema[c].kind
      half == Part(q, 2)
  IN [PostProcess(Composed(
       <<NoisyDeviations(LAMBDA r : Num[r[c]], b, kind, Halves, mech, measure, half),
         NoisyCount(mech, measure, half)>>)) EXCEPT !.asked = q]

(* create_variance_measurement: also the sum of the squares' deviations.   *)
NoisyVariance(c, b, mech, measure, q) ==
  LET kind == schema[c].kind
      third == Part(q, 3)
  IN [PostProcess(Composed(
       <<NoisyDeviations(LAMBDA r : Num[r[c]], b, kind, Halves, mech, measure, third),
         NoisyDeviations(LAMBDA r : Num[r[c]] * Num[r[c]], SquaredBounds(b), kind,
                         Halves * Halves, mech, measure, third),
         NoisyCount(mech, measure, third)>>)) EXCEPT !.asked = q]
NoisyStandardDeviation(c, b, mech, measure, q) ==
  PostProcess(NoisyVariance(c, b, mech, measure, q))

CreateAverageMeasurement ==
  \E mech \in Mechanisms, q \in Budgets, b \in Bounds :
    \E measure \in SupportedMeasures(mech), c \in MeasureColumns(b) :
      /\ CanAddNoise(mech, schema[c].kind, measure, q)
      /\ Make(NoisyAverage(c, b, mech, measure, q))

CreateVarianceMeasurement ==
  \E mech \in Mechanisms, q \in Budgets, b \in Bounds :
    \E measure \in SupportedMeasures(mech), c \in MeasureColumns(b) :
      /\ CanAddNoise(mech, schema[c].kind, measure, q)
      /\ Make(NoisyStandardDeviation(c, b, mech, measure, q))

-----------------------------------------------------------------------------
(* NoisyQuantile (pandas_measurements/series.py): the exponential          *)
(* mechanism on the intervals between a group's numbers.                   *)
Numbers(T, c) ==              \* sorted
  LET cells == UNION {{Num[r[c]]} \X {r} \X (1 .. T[r]) : r \in BagToSet(T)}
      sorted == CHOOSE s \in SetToSeqs(cells) :
                  \A i, j \in DOMAIN s : i < j => s[i][1] <= s[j][1]
  IN [i \in DOMAIN sorted |-> sorted[i][1]]
Below(values, x) == Cardinality({i \in DOMAIN values : values[i] < x})

(* The intervals, each with its rank: how many numbers are below it.       *)
Intervals(values, b) ==
  LET first == Below(values, b[1])
      last == Below(values, b[2])
      ends == {i \in first + 1 .. last :
                 values[i] > IF i = first + 1 THEN b[1] ELSE values[i - 1]}
      start(i) == Max({b[1]} \cup {values[j] : j \in {e \in ends : e < i}})
  IN {[rank |-> i - 1, lower |-> start(i), upper |-> values[i]] : i \in ends}
       \cup {[rank |-> last, lower |-> start(last + 1), upper |-> b[2]]}

(* How far the rank at x is from the target rank, times the quantile's     *)
(* denominator.  An interval is chosen with probability proportional to    *)
(* its width and to e ^ (- epsilon * error / (2 * sensitivity)).           *)
RankError(T, c, b, q, x) ==
  LET values == Numbers(T, c)
      at == CHOOSE i \in Intervals(values, b) : i.lower <= x /\ x < i.upper
  IN Abs(at.rank * q[2] - q[1] * Len(values))

QuantileSensitivity(q) == Larger(q[1], q[2] - q[1])

(* What errors change by at one place more than at another: the loss, if   *)
(* the intervals are as wide as they may be.                               *)
QuantileChange(c, b, q, k) ==
  LET changes == {RankError(left[k], c, b, q, x) - RankError(right[k], c, b, q, x) :
                    x \in b[1] .. b[2] - 1}
  IN IF b[1] = b[2] THEN 0 ELSE Max(changes) - Min(changes)

(* AggregateByColumn and ApplyInPandas: one quantile for each group.  zCDP *)
(* of epsilon is epsilon ^ 2 / 8.                                          *)
NoisyQuantile(c, b, q, measure, asked) ==
  PostProcess(
    NoisyChanges([k \in DOMAIN left |-> QuantileChange(c, b, q, k)],
                 2 * QuantileSensitivity(q),
                 IF measure = "rho" THEN "gaussian" ELSE "laplace", measure, asked))

CreateQuantileMeasurement ==
  \E q \in Budgets, b \in Bounds, quantile \in Quantiles,
     measure \in {"pure", "approx", "rho"} :
    \E c \in DOMAIN schema \ GroupColumns :
      /\ IsGrouped
      /\ measure # "rho" => metric.over \in QuantileOver
      /\ CanSum(c)
      /\ b[1] <= b[2] /\ b[1] % Halves = 0 /\ b[2] % Halves = 0
      /\ Make(NoisyQuantile(c, b, quantile, measure, q))

-----------------------------------------------------------------------------
(* GeometricPartitionSelection: the distinct rows of a table, each with a  *)
(* noisy count, if that reaches a threshold.  Epsilon is counted in units  *)
(* of 1 / alpha, and e ^ (1 / alpha) is Growth.                            *)
GrowthTo[k \in Nat] == IF k = 0 THEN 1 ELSE Growth * GrowthTo[k - 1]

OneMinus(a) == Ratio(a.d - a.n, a.d)
Beyond(k) ==     \* the probability that the noise is at least k
  IF k >= 1 THEN Ratio(1, GrowthTo[k - 1] * (Growth + 1))
  ELSE OneMinus(Ratio(1, GrowthTo[-k] * (Growth + 1)))

BaseDelta(threshold) == Beyond(threshold - 1)   \* 1 - cmf(threshold - 2)

ClaimedDelta(threshold, d) ==
  IF d = 1 THEN BaseDelta(threshold)
  ELSE LET delta == Times(Whole(d * GrowthTo[d]), BaseDelta(threshold))
       IN IF AtMost(Whole(1), delta) THEN Whole(1) ELSE delta

(* A row that both tables have is counted with noise in both; a row that   *)
(* only one has tells the two apart if its count is selected.              *)
Selected(threshold, asked, deltaAsked) ==
  LET l == left[<<>>]
      r == right[<<>>]
      both == BagToSet(l) \cap BagToSet(r)
      one == (BagToSet(l) \cup BagToSet(r)) \ both
      apart == SumFunction([x \in both |-> Abs(l[x] - r[x])])
      copies(x) == IF x \in BagToSet(l) THEN l[x] ELSE r[x]
      unseen == [x \in one |-> OneMinus(Beyond(threshold - copies(x)))]
  IN [Measurement("approx", bound, asked, Whole(1), Whole(apart)) EXCEPT
        !.delta = ClaimedDelta(threshold, SquareRoot(Whole(bound)).n),
        !.deltaAsked = deltaAsked,
        !.leak = OneMinus(FoldFunction(Times, Whole(1), unseen))]

CanSelect ==
  /\ metric = SymmetricDifference
  /\ bound > 0
  /\ \A c \in DOMAIN schema : schema[c].kind # "float"

GeometricPartitionSelection ==
  /\ CanSelect
  /\ \E threshold \in SelectThresholds :
       LET m == Selected(threshold, Whole(1), Zero)
       IN Make([m EXCEPT !.deltaAsked = m.delta])

(* double_sided_geometric_inverse_cmf_exact(1 - delta): the least k that   *)
(* the noise exceeds with at most probability delta, a logarithm.          *)
Logarithm(n) == CHOOSE k \in 0 .. n : GrowthTo[k] >= n
InverseCMF(delta) ==
  CHOOSE k \in -Logarithm(delta.d) .. Logarithm(delta.d) :
    /\ AtMost(Beyond(k + 1), delta)
    /\ ~ AtMost(Beyond(k), delta)

CreatePartitionSelectionMeasurement ==
  /\ CanSelect
  /\ \E delta \in PartitionDeltas :
       LET d == SquareRoot(Whole(bound)).n
           base == IF d = 1 THEN delta
                   ELSE Divided(delta, Whole(d * GrowthTo[d]))
       IN Make(Selected(InverseCMF(base) + 2, Whole(1), delta))

-----------------------------------------------------------------------------
(* SparseVectorPrefixSums: rows are put into buckets by the size of a      *)
(* number; the first bucket up to which there are about enough rows is     *)
(* chosen.  The buckets are ranked by the logarithm of their numbers.      *)
Bucket(c, x) ==
  LET kind == schema[c].kind
      ranks == Ranks[kind]
      log == CHOOSE i \in 0 .. 30 : /\ Abs(x) <= Halves * 2 ^ i
                                    /\ i > 0 => Abs(x) > Halves * 2 ^ (i - 1)
  IN IF kind = "int" THEN log      \* may be beyond the ranks that are counted
     ELSE Smaller(IF x = 0 THEN Min(ranks) ELSE log, Max(ranks))

PrefixSum(T, c, i) == NumRows(Where(T, LAMBDA r : Bucket(c, Num[r[c]]) <= i))

(* What has to be made up for, in units of 1 / alpha, for bucket i to be   *)
(* chosen of either neighbour, when noise of scale alpha / 2 is added to   *)
(* the threshold and noise of scale alpha to each bucket: the threshold's  *)
(* noise is shifted so that no bucket before is chosen, then the bucket's  *)
(* noise so that it is.  The last bucket is chosen if no other is.         *)
Alignment(l, r, c, fraction, ranks, i) ==
  LET change(j) == PrefixSum(r, c, j) - PrefixSum(l, c, j)
      threshold(T) == (PrefixSum(T, c, Max(ranks)) * fraction[1]) \div fraction[2]
      moved == threshold(l) - threshold(r)
      before == {j \in ranks : j < i}
      shift == IF before = {} THEN 0 ELSE moved + Max({change(j) : j \in before})
      bucket == IF i = Max(ranks) THEN 0 ELSE shift - moved - change(i)
  IN 2 * Abs(shift) + Abs(bucket)

SparseVectorEpsilon == 4     \* epsilon * alpha for each unit of distance

(* create_bounds_measurement: bucketed, unwrapped, grouped by K and the    *)
(* bucket, counted.                                                        *)
NoisyBounds(c, K, values, fraction, measure, q) ==
  LET ranks == Ranks[schema[c].kind]
      apart == IF metric.agg = "l2" THEN Square(bound) ELSE bound
      counted(T, k) == Where(Group(T, K, k), LAMBDA r : Bucket(c, Num[r[c]]) \in ranks)
      worst(k) ==
        Max({Alignment(counted(left[<<>>], k), counted(right[<<>>], k), c,
                       fraction, ranks, i) : i \in ranks})
      m == NoisyChanges([k \in values |-> worst(k)], SparseVectorEpsilon,
                        "geometric", measure, q)
  IN PostProcess([m EXCEPT !.apart = apart])

CreateBoundsMeasurement ==
  \E q \in Budgets \ {Zero}, K \in SUBSET DOMAIN schema, fraction \in Fractions,
     measure \in {"pure", "approx", "rho"} :
    \E c \in DOMAIN schema \ K :
      /\ metric = SymmetricDifference \/ (metric.by # {} /\ metric.each = {})
      /\ metric.over = "table" /\ metric.base = "rows" /\ metric.by \subseteq K
      /\ \A g \in K : schema[g].kind # "float"
      /\ schema[c].kind \in {"int", "float"} /\ schema[c].allows = {}
      /\ \E values \in KeyChoices(K) :
           Make(NoisyBounds(c, K, values, fraction, measure, q))

-----------------------------------------------------------------------------
(* What is made of a measurement that was made.                            *)
Remake(m) ==
  /\ made # Nothing
  /\ made' = m
  /\ UNCHANGED vars

(* Mutant: measurements under any measure are converted.                   *)
AnyToRhoZCDP ==
  /\ made # Nothing
  /\ LET rho(eps) == Divided(Squared(eps), Whole(2))
     IN Remake([made EXCEPT !.measure = "rho", !.claim = rho(@),
                            !.asked = rho(@), !.loss = rho(@)])

PureDPToRhoZCDP ==
  /\ made.measure = "pure"
  /\ LET rho(eps) == Divided(Squared(eps), Whole(2))
     IN Remake([made EXCEPT !.measure = "rho", !.claim = rho(@),
                            !.asked = rho(@), !.loss = rho(@)])

PureDPToApproxDP ==
  /\ made.measure = "pure"
  /\ Remake([made EXCEPT !.measure = "approx"])

Composition ==
  /\ made # Nothing
  /\ \E n \in 2 .. MaxParts \div made.parts :
       Remake(Composed([i \in 1 .. n |-> made]))

MeasureNext ==
  \/ TransformStep
  \/ Count \/ CountDistinct \/ Sum
  \/ CreateCountMeasurement \/ CreateCountDistinctMeasurement
  \/ CreateSumMeasurement
  \/ CreateAverageMeasurement \/ CreateVarianceMeasurement
  \/ CreateQuantileMeasurement
  \/ GeometricPartitionSelection \/ CreatePartitionSelectionMeasurement
  \/ CreateBoundsMeasurement
  \/ PureDPToRhoZCDP \/ PureDPToApproxDP \/ Composition

MeasureSpec == MeasureInit /\ [][MeasureNext]_measureVars

-----------------------------------------------------------------------------
MeasureTypeOK ==
  /\ TypeOK
  /\ made # Nothing =>
       /\ made.measure \in {"pure", "approx", "rho"}
       /\ made.apart \in Nat \ {0}
       /\ made.measure # "approx" => made.delta = Zero /\ made.leak = Zero

(* The privacy guarantee: on neighbouring tables a measurement loses no    *)
(* more than its privacy function says, whatever chain of transformations, *)
(* grouping, aggregation, clipping, noise, composition and conversion it   *)
(* is made of (privacy_function of every measurement).                     *)
LossWithinClaim ==
  made # Nothing =>
    LET apart == Whole(made.apart)
    IN /\ IF made.measure = "rho"
          THEN made.claim = Infinity \/ AtMost(made.loss, Times(made.claim, apart))
          ELSE made.claim = Infinity
                 \/ AtMost(Squared(made.loss), Times(Squared(made.claim), apart))
       /\ AtMost(made.leak, made.delta)

(* A measurement that was made for a d_out spends it: all of epsilon or    *)
(* rho, split over the measurements it is composed of, and at most delta   *)
(* (assert measurement.privacy_function(d_in) == d_out).                   *)
ClaimAsAsked ==
  made # Nothing => made.claim = made.asked /\ AtMost(made.delta, made.deltaAsked)
=============================================================================
