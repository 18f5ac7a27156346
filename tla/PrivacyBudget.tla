---------------------------- MODULE PrivacyBudget ----------------------------
(***************************************************************************)
(* The values of the three output measures of tmlt.core.measures and the   *)
(* arithmetic of PureDPBudget, ApproxDPBudget and RhoZCDPBudget.           *)
(*                                                                         *)
(* A value is a record [eps, delta].  `eps' stands for the epsilon of pure *)
(* and approximate DP and for the rho of zCDP: a natural number of         *)
(* indivisible units, or Infinite.  `delta' counts units of 1/DeltaOne, so *)
(* that delta = DeltaOne is the code's delta = 1; the two measures without *)
(* a delta always have delta = 0.                                          *)
(***************************************************************************)
EXTENDS Integers

CONSTANTS
  OutputMeasure,  \* the output measure: "PureDP", "ApproxDP" or "RhoZCDP"
  Infinite,   \* the infinite ExactNumber
  DeltaOne    \* how many units of delta make 1

ASSUME MeasureAssumption == OutputMeasure \in {"PureDP", "ApproxDP", "RhoZCDP"}
ASSUME InfiniteAssumption == Infinite \notin Nat
ASSUME DeltaAssumption == DeltaOne \in Nat \ {0}

(***************************************************************************)
(* Extended naturals: the order and the sum of ExactNumbers.               *)
(***************************************************************************)
Amount == Nat \union {Infinite}

AmountAtMost(a, b) == b = Infinite \/ (a # Infinite /\ a <= b)

Added(a, b) == IF a = Infinite \/ b = Infinite THEN Infinite ELSE a + b

Larger(a, b) == IF AmountAtMost(a, b) THEN b ELSE a

-----------------------------------------------------------------------------
(* What validate() admits as a value of the measure.                       *)
Budgets ==
  [eps : Amount,
   delta : IF OutputMeasure = "ApproxDP" THEN 0 .. DeltaOne ELSE {0}]

NoLoss == [eps |-> 0, delta |-> 0]

(* is_finite: under approximate DP delta = 1 protects nothing either.      *)
IsFinite(b) ==
  /\ b.eps # Infinite
  /\ OutputMeasure = "ApproxDP" => b.delta < DeltaOne

(* Measure.compare(v, w): v <= w, where every value is at most an infinite *)
(* one.                                                                    *)
Compare(v, w) ==
  \/ OutputMeasure = "ApproxDP" /\ ~ IsFinite(w)
  \/ AmountAtMost(v.eps, w.eps) /\ v.delta <= w.delta

(* Mutant: the check is forgotten.                                         *)
CanSpendAnything(b, v) == TRUE

(* assert_can_spend_budget does not raise.  An infinite ApproxDPBudget     *)
(* skips the comparison, one of the other two makes it.                    *)
CanSpend(b, v) ==
  \/ OutputMeasure = "ApproxDP" /\ ~ IsFinite(b)
  \/ AmountAtMost(v.eps, b.eps) /\ v.delta <= b.delta

(* Mutants: delta, or the whole budget, stays what it was.                 *)
SubtractEpsilon(b, v) ==
  IF IsFinite(b) THEN [b EXCEPT !.eps = @ - v.eps] ELSE b
SubtractNothing(b, v) == b

(* subtract, for an affordable v: an infinite budget stays what it is.     *)
Subtract(b, v) ==
  IF IsFinite(b)
  THEN [eps |-> b.eps - v.eps, delta |-> b.delta - v.delta]
  ELSE b

-----------------------------------------------------------------------------
(* Basic composition of two losses, which is what subtract undoes.         *)
AddedLosses(v, w) ==
  [eps |-> Added(v.eps, w.eps), delta |-> v.delta + w.delta]

(* ParallelComposition.privacy_function takes the largest of its parts'    *)
(* values, under approximate DP the largest of each component.             *)
Largest(v, w) ==
  [eps |-> Larger(v.eps, w.eps),
   delta |-> IF v.delta <= w.delta THEN w.delta ELSE v.delta]
=============================================================================
