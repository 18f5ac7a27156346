------------------------------ MODULE Samplers ------------------------------
(***************************************************************************)
(* One call of a noise mechanism, of NoisyQuantile, or of an aggregation   *)
(* that clips to a bound: three loops that end with probability 1 only.    *)
(*                                                                         *)
(* An exact number is made a float on one side of it (ExactNumber.to_float)*)
(* by nudging a float until it is there.  A quantile selects an interval   *)
(* by noisy scores that are known up to an error, with more random bits in *)
(* each round, until one score is above the others                         *)
(* (_select_quantile_interval).  A sample is drawn by computing the        *)
(* inverse CDF with more random bits in each round, until all that it may  *)
(* be rounds to one float (construct_inverse_sampler).                     *)
(*                                                                         *)
(* Numbers of the first loop are counted in halves of the least distance   *)
(* of two floats.  Numbers of the other two are relative to the precision  *)
(* that is reached, and shift with every round.                            *)
(***************************************************************************)
EXTENDS DiscreteSamplers, Sequences, FiniteSetsExt

CONSTANTS
  Mantissa,        \* bits of a float's mantissa
  One,             \* 1, an even number
  FirstNudge,      \* 1e-15
  MaxExact,        \* bound: the exact numbers rounded
  Infinite,        \* an infinite epsilon
  Unknown,         \* a score of which nothing is known yet
  SelectStep,      \* 2 ^ (bits per round) of the selection
  MaxIntervals,    \* bound: intervals of a quantile
  Window,          \* bound: scores are multiples of it when first known
  DrawStep,        \* 2 ^ (bits per round) of a draw
  MaxEdges         \* bound: edges between floats that are told apart

Far == 1000        \* beyond every score

ASSUME StepsAssumption ==
  SelectStep \in Nat /\ SelectStep >= 4 /\ DrawStep \in Nat /\ DrawStep >= 4
ASSUME OneAssumption == One % 2 = 0 /\ One > 0
ASSUME FloatsAssumption ==
  Mantissa \in Nat \ {0} /\ FirstNudge \in Nat \ {0} /\ MaxExact \in Nat
ASSUME ScoresAssumption ==
  Unknown \notin Int /\ Window \in 1 .. Far - 1 /\ MaxIntervals \in Nat \ {0}

VARIABLES
  call,      \* what was called, and whether it rounds up
  exact,     \* the exact number
  value,     \* evaluated_val
  nudge,
  scores,    \* noisy_scores of the remaining intervals
  beaten,    \* ghost: the most that a score of the other intervals may be
  drawn,     \* whether random bits were drawn
  edges,     \* where in the drawn part of [0, 1] floats change
  largest    \* from where on samples are beyond the largest float
vars == <<call, phase, exact, value, nudge, scores, beaten, drawn, edges, largest, noise>>
rounding == <<value, nudge>>
selecting == <<scores, beaten>>
drawing == <<drawn, edges, largest, noise>>

Abs(x) == IF x < 0 THEN -x ELSE x

-----------------------------------------------------------------------------
(* ExactNumber.to_float.                                                   *)
Power[k \in Nat] == IF k = 0 THEN 1 ELSE 2 * Power[k - 1]
Ulp(x) ==          \* the distance of floats of the magnitude of x
  Power[CHOOSE k \in 1 .. Abs(x) + 1 :
          /\ Abs(x) < Power[k + Mantissa]
          /\ k = 1 \/ Power[k - 1 + Mantissa] <= Abs(x)]
Nearest(x) ==      \* the float that a sum of floats is rounded to
  LET ulp == Ulp(x)
      below == (x \div ulp) * ulp
      rest == 2 * (x - below)
  IN IF rest < ulp \/ (rest = ulp /\ (below \div ulp) % 2 = 0) THEN below
     ELSE below + ulp

(* float(self.expr.evalf()): a float next to the exact number.  Integers   *)
(* are returned as they are.                                               *)
Evaluated(x) ==
  IF x = Infinite \/ x % One = 0 THEN {x}
  ELSE LET below == (x \div Ulp(x)) * Ulp(x)
       IN IF x = below THEN {x} ELSE {below, below + Ulp(x)}

WrongSide == IF exact = Infinite THEN FALSE
             ELSE IF call.up THEN value < exact ELSE value > exact

(* Mutants: the nudge is increased before it is used, or not at all.       *)
NudgeTooFar ==
  /\ phase = "round" /\ WrongSide
  /\ nudge' = 10 * nudge
  /\ value' = Nearest(IF call.up THEN value + nudge' ELSE value - nudge')
  /\ UNCHANGED <<call, phase, exact, selecting, drawing>>
NudgeAgain ==
  /\ phase = "round" /\ WrongSide
  /\ value' = Nearest(IF call.up THEN value + nudge ELSE value - nudge)
  /\ UNCHANGED <<call, phase, exact, nudge, selecting, drawing>>

Nudge ==
  /\ phase = "round" /\ WrongSide
  /\ value' = Nearest(IF call.up THEN value + nudge ELSE value - nudge)
  /\ nudge' = 10 * nudge
  /\ UNCHANGED <<call, phase, exact, selecting, drawing>>

ReturnFloat ==
  /\ phase = "round" /\ ~ WrongSide
  /\ phase' = IF call.of = "bound" THEN "done" ELSE "rounded"
  /\ UNCHANGED <<call, exact, rounding, selecting, drawing>>

-----------------------------------------------------------------------------
(* _select_quantile_interval.  A score is its midpoint, the error is 1.    *)
(* The noise is unknown as long as its random bits are all equal.          *)
Low(s) == IF s = Unknown THEN -Far ELSE s - 1
High(s) == IF s = Unknown THEN Far ELSE s + 1

(* Mutant: scores are compared by their midpoints.                         *)
LessByMidpoint(s, t) == s # Unknown /\ t # Unknown /\ s < t

Less(s, t) == High(s) < Low(t)     \* Arb.__lt__: all of s is less than all of t

(* More random bits: the score is within the error of what it was.  One    *)
(* that was unknown may be anywhere, or still be unknown.                  *)
Bits == 1 - SelectStep .. SelectStep - 1
Refined(s, bits) ==
  IF s # Unknown THEN SelectStep * s + bits
  ELSE IF bits = Unknown THEN Unknown ELSE Window * bits

(* approx_max: the last score that is greater than all of those before     *)
(* that were.  The first that is known is greater than -inf.               *)
ApproxMax(ss) ==
  LET max[i \in 0 .. Len(ss)] ==
        IF i = 0 THEN Unknown
        ELSE IF ss[i] # Unknown /\ (max[i - 1] = Unknown \/ Less(max[i - 1], ss[i]))
        THEN ss[i] ELSE max[i - 1]
  IN max[Len(ss)]

(* Mutant: what is not greater than approx_max is eliminated.              *)
RemainsGreater(s, max) == Less(max, s)

Remains(s, max) == max = Unknown \/ ~ Less(s, max)

Remaining(ss, max) ==      \* the intervals that are left, in their order
  LET left[i \in 0 .. Len(ss)] ==
        IF i = 0 THEN <<>>
        ELSE IF Remains(ss[i], max) THEN Append(left[i - 1], ss[i])
        ELSE left[i - 1]
  IN left[Len(ss)]

SelectRound(ss) ==
  LET max == ApproxMax(ss)
      left == Remaining(ss, max)
      known == {s \in {left[i] : i \in DOMAIN left} : s # Unknown}
      base == IF known = {} THEN 0 ELSE Min(known)
      gone == {High(s) : s \in {t \in {ss[i] : i \in DOMAIN ss} : ~ Remains(t, max)}}
      most == Max(gone \cup {SelectStep * beaten})
  IN /\ scores' = [i \in DOMAIN left |->
                     IF left[i] = Unknown THEN Unknown ELSE left[i] - base]
     /\ beaten' = IF most - base < -5 THEN -Far ELSE most - base   \* far below for good

StartSelect ==
  /\ phase = "rounded" /\ call.of = "quantile" /\ exact # Infinite
  /\ \E n \in 1 .. MaxIntervals : scores' = [i \in 1 .. n |-> Unknown]
  /\ phase' = "select"
  /\ exact' = 0 /\ value' = 0 /\ nudge' = 0
  /\ UNCHANGED <<call, beaten, drawing>>

Select ==
  /\ phase = "select" /\ Len(scores) > 1
  /\ \E bits \in [DOMAIN scores -> Bits \cup {Unknown}] :
       /\ \A i \in DOMAIN scores : bits[i] = Unknown => scores[i] = Unknown
       /\ SelectRound([i \in DOMAIN scores |-> Refined(scores[i], bits[i])])
  /\ UNCHANGED <<call, phase, exact, rounding, drawing>>

-----------------------------------------------------------------------------
(* construct_inverse_sampler.  The part of [0, 1] that the random bits     *)
(* name is 0 .. Part, and what the inverse CDF returns for it is what it   *)
(* is on a part that is larger by Error at either end.                     *)
Part == 2
Error == 1
Clip(x) == IF x < -Error THEN -Error - 1 ELSE IF x > Part + Error THEN Part + Error + 1
           ELSE x

StartDraw ==
  /\ \/ phase = "rounded" /\ (call.of = "noise" \/ exact = Infinite)
     \/ phase = "select" /\ Len(scores) = 1
  /\ \E e \in SUBSET (0 .. Part), l \in (1 .. Part) \cup {Clip(Far)} :
       /\ Cardinality(e) <= MaxEdges
       /\ l # Clip(Far) => call.of = "noise"   \* a uniform sample is between floats
       /\ edges' = e /\ largest' = l
  /\ phase' = "draw" /\ drawn' = FALSE
  /\ exact' = 0 /\ value' = 0 /\ nudge' = 0 /\ scores' = <<>> /\ beaten' = -Far
  /\ UNCHANGED <<call, noise>>

(* 0 < p < 1: laplace_inverse_cdf and gaussian_inverse_cdf raise, outside  *)
(* the try, if the first bits are all equal; uniform_inverse_cdf asserts   *)
(* 0 <= p <= 1, which also depends on how the radius of p is rounded.      *)
AtAnEnd(bits) == ~ drawn /\ bits \in {0, DrawStep - 1}
Raise ==
  /\ phase = "draw"
  /\ \E bits \in 0 .. DrawStep - 1 : AtAnEnd(bits)
  /\ phase' = "raised"
  /\ edges' = {} /\ largest' = Clip(Far)
  /\ UNCHANGED <<call, exact, rounding, selecting, drawn, noise>>

Draw ==
  /\ phase = "draw"
  /\ \E bits \in 0 .. DrawStep - 1 :
       LET at(x) == Clip(DrawStep * x - Part * bits)
           inside == {at(e) : e \in edges} \cap (-Error .. Part + Error)
       IN /\ ~ (AtAnEnd(bits) /\ call.of = "noise")
          /\ edges' = inside
          /\ largest' = IF largest = Clip(-Far) THEN largest ELSE at(largest)
          /\ phase' = IF inside = {} /\ largest' = Clip(Far) THEN "done" ELSE "draw"
  /\ drawn' = TRUE
  /\ UNCHANGED <<call, exact, rounding, selecting, noise>>

-----------------------------------------------------------------------------
(* Integer noise.                                                          *)
StartDiscrete ==
  /\ phase = "rounded" /\ call.of = "integer noise"
  /\ StartInteger
  /\ exact' = 0 /\ value' = 0 /\ nudge' = 0
  /\ UNCHANGED <<call, selecting, drawn, edges, largest>>

Discrete == DiscreteStep /\ UNCHANGED <<call, exact, rounding, selecting, drawn, edges, largest>>

-----------------------------------------------------------------------------
Call(of, up) == [of |-> of, up |-> up]
Init ==
  /\ \/ call \in {Call("noise", TRUE), Call("integer noise", TRUE)} /\ exact \in 1 .. MaxExact
     \/ call = Call("quantile", FALSE) /\ exact \in (0 .. MaxExact) \cup {Infinite}
     \/ call \in {Call("bound", TRUE), Call("bound", FALSE)}
          /\ exact \in -MaxExact .. MaxExact
  /\ phase = "round"
  /\ value \in Evaluated(exact) /\ nudge = FirstNudge
  /\ scores = <<>> /\ beaten = -Far
  /\ drawn = FALSE /\ edges = {} /\ largest = Clip(Far) /\ noise = NoNoise

Next ==
  \/ Nudge \/ ReturnFloat
  \/ StartSelect \/ Select
  \/ StartDraw \/ Draw \/ Raise
  \/ StartDiscrete \/ Discrete

(* Rounds of a loop draw their bits independently, and some bits end the   *)
(* loop: in infinitely many rounds they are drawn.                         *)
Fairness ==
  /\ WF_vars(Next)
  /\ SF_vars(Select /\ Len(scores') = 1)
  /\ SF_vars(Draw /\ phase' = "done")
  /\ SF_vars(Discrete /\ phase = "sign" /\ noise'.sign = 0)
  /\ SF_vars(Discrete /\ phase = "coin" /\ phase' = "whole")
  /\ SF_vars(Discrete /\ phase = "accept" /\ phase' = "done")

SamplerSpec == Init /\ [][Next]_vars /\ Fairness

-----------------------------------------------------------------------------
(* The selection never runs out of intervals (assert len(intervals) == 1), *)
(* and scores that remain are close to each other.                         *)
SamplerTypeOK ==
  /\ phase \in {"round", "rounded", "select", "draw", "first", "second",
               "sign", "uniform", "coin", "whole", "magnitude", "accept", "done", "raised"}
  /\ phase = "select" => Len(scores) \in 1 .. MaxIntervals
  /\ \A i \in DOMAIN scores : scores[i] \in {Unknown} \cup (0 .. 4)
  /\ edges \subseteq -Error .. Part + Error

(* to_float returns a number on the side that was asked for, and not much  *)
(* beyond the exact one: within the first nudge or ten floats, and what    *)
(* the last sum was rounded by.                                            *)
RoundedClosely ==
  phase = "rounded" \/ (phase = "done" /\ call.of = "bound") =>
    \/ exact = Infinite /\ value = Infinite
    \/ /\ ~ WrongSide
       /\ Abs(value - exact) <= Max({FirstNudge, 10 * Ulp(exact)})
                                  + Max({Ulp(exact), Ulp(FirstNudge)})

(* An interval is eliminated only if its score is less than that of one    *)
(* that remains, whatever random bits follow (_select_quantile_interval).  *)
WinnerStands ==
  phase = "select" /\ beaten > -Far => \E i \in DOMAIN scores : Low(scores[i]) > beaten

(* Every call returns, or raises as its first bits are all equal, unless   *)
(* the sample is beyond the largest float: Arb.to_float overflows then, in *)
(* every round.                                                            *)
EventuallyReturns == <>(phase \in {"done", "raised"} \/ largest = Clip(-Far))
=============================================================================
