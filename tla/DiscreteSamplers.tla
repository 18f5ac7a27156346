-------------------------- MODULE DiscreteSamplers --------------------------
(***************************************************************************)
(* Integer noise (random/discrete_gaussian.py), drawn by rejection from    *)
(* coins that succeed with probability e ^ (-x).                           *)
(*                                                                         *)
(* `cost' is a ghost: the sum of the x of the coins that led to the noise. *)
(* Noise of a cost is drawn with a probability proportional to e ^ (-cost),*)
(* since what is rejected starts again.  `phase' is the loop that runs.    *)
(***************************************************************************)
EXTENDS Integers

CONSTANTS
  Scales,       \* scales of geometric noise, as pairs <<n, d>>
  Variances,    \* sigma_squared of discrete Gaussian noise, as pairs <<n, d>>
  SlowBelow,    \* scales below which geometrics are drawn one by one
  MaxCoins      \* bound: successes in a row

ASSUME ScalesAssumption ==
  /\ Scales \subseteq (Nat \ {0}) \X (Nat \ {0})
  /\ Variances \subseteq (Nat \ {0}) \X (Nat \ {0})
ASSUME BoundsAssumption == SlowBelow \in Nat /\ MaxCoins \in Nat

VARIABLES phase, noise
(* noise.x: the parameter of the geometrics, as a pair.                    *)
(* noise.variance: of a discrete Gaussian, or <<0, 1>>.                    *)
(* noise.u, noise.v: what was drawn of it, noise.sign: 1 if negative.      *)
NoNoise == [x |-> <<0, 1>>, variance |-> <<0, 1>>, u |-> 0, v |-> 0, sign |-> 0,
            cost |-> 0]

Magnitude(n) == IF n < 0 THEN -n ELSE n
Roots(x) ==
  {a \in 0 .. x[1] : a * a * x[2] <= x[1] /\ x[1] < (a + 1) * (a + 1) * x[2]}
FloorSqrt(x) == CHOOSE a \in Roots(x) : TRUE
ASSUME RootsAssumption == \A s \in Variances : Roots(s) # {}

(* AddGeometricNoise: of a small scale, the difference of two geometrics,  *)
(* else a discrete Laplace.  AddDiscreteGaussianNoise: a discrete Laplace  *)
(* of an integer scale, that is then accepted or not.                      *)
Slow(x) == x[2] < SlowBelow * x[1]
StartInteger ==
  \/ \E s \in Scales :
       /\ noise' = [NoNoise EXCEPT !.x = <<s[2], s[1]>>]
       /\ phase' = IF Slow(noise'.x) THEN "first" ELSE "sign"
  \/ \E s \in Variances :
       /\ noise' = [NoNoise EXCEPT !.x = <<1, FloorSqrt(s) + 1>>, !.variance = s]
       /\ phase' = "sign"

(* A coin (_sample_bernoulli_exp) that shows one costs x.                  *)
ShowsOne(x) == noise' = [noise EXCEPT !.cost = @ + x, !.v = @ + 1]

(* _sample_geometric_exp_slow, twice: v - u in the end.  Costs are counted *)
(* in units of 1 / noise.x[2].                                             *)
SlowGeometric ==
  \/ /\ phase \in {"first", "second"} /\ noise.v < MaxCoins
     /\ ShowsOne(noise.x[1]) /\ UNCHANGED phase
  \/ /\ phase = "first" /\ phase' = "second"
     /\ noise' = [noise EXCEPT !.u = noise.v, !.v = 0]
  \/ /\ phase = "second" /\ phase' = "done" /\ UNCHANGED noise

(* _sample_dlaplace: the sign of the next candidate.                       *)
Sign ==
  /\ phase = "sign"
  /\ \E sign \in 0 .. 1 : noise' = [noise EXCEPT !.sign = sign]
  /\ phase' = "uniform"

(* _sample_geometric_exp_fast: u of 0 .. t - 1 ...                         *)
FastUniform ==
  /\ phase = "uniform"
  /\ \E u \in 0 .. noise.x[2] - 1 : noise' = [noise EXCEPT !.u = u]
  /\ phase' = "coin"

(* Mutant: u is taken whatever the coin shows.                             *)
FastCoinUnasked ==
  /\ phase = "coin" /\ phase' = "whole" /\ UNCHANGED noise

(* ... for which the coin of u / t shows one; a zero draws u again.  That  *)
(* of 0 always shows one.                                                  *)
FastCoin ==
  /\ phase = "coin"
  /\ \/ /\ noise' = [noise EXCEPT !.cost = noise.u]
        /\ phase' = "whole"
     \/ /\ noise.u # 0
        /\ noise' = [noise EXCEPT !.u = 0]
        /\ phase' = "uniform"

(* ... and v, a geometric of coins that cost 1.                            *)
FastWhole ==
  /\ phase = "whole"
  /\ \/ noise.v < MaxCoins /\ ShowsOne(noise.x[2]) /\ UNCHANGED phase
     \/ phase' = "magnitude" /\ UNCHANGED noise

Candidate == (noise.v * noise.x[2] + noise.u) \div noise.x[1]
Again ==
  /\ phase' = "sign"
  /\ noise' = [NoNoise EXCEPT !.x = noise.x, !.variance = noise.variance]

(* ... there is one zero, not two.                                         *)
Laplace ==
  /\ phase = "magnitude"
  /\ IF noise.sign = 1 /\ Candidate = 0 THEN Again
     ELSE /\ phase' = IF noise.variance[1] = 0 THEN "done" ELSE "accept"
          /\ UNCHANGED noise

(* sample_dgauss: a candidate is accepted by a coin of                     *)
(* (|candidate| - variance / t) ^ 2 / (2 * variance).  From here on costs  *)
(* are counted in units of 1 / (2 * variance[1] * variance[2] * t ^ 2).    *)
Bias(t) ==
  LET diff == Candidate * noise.variance[2] * t - noise.variance[1] IN diff * diff
Accept ==
  /\ phase = "accept"
  /\ \/ LET t == noise.x[2]
        IN /\ noise' = [noise EXCEPT
                !.cost = @ * 2 * noise.variance[1] * noise.variance[2] * t + Bias(t)]
           /\ phase' = "done"
     \/ Again

DiscreteStep ==
  SlowGeometric \/ Sign \/ FastUniform \/ FastCoin \/ FastWhole \/ Laplace \/ Accept

DiscreteInit == phase = "rounded" /\ noise = NoNoise
DiscreteNext == (phase = "rounded" /\ StartInteger) \/ DiscreteStep
DiscreteSpec == DiscreteInit /\ [][DiscreteNext]_<<phase, noise>>

(* Integer noise is drawn as its mechanism says: k with a probability      *)
(* proportional to e ^ (-|k| / scale), or to e ^ (-k ^ 2 / (2 * variance)),*)
(* whatever was rejected before.  Of a discrete Laplace, what is left by   *)
(* the division is the same for every k.                                   *)
DrawnAsClaimed ==
  phase = "done" /\ noise # NoNoise =>
    LET k == Candidate
        x == noise.x
        var == noise.variance
    IN /\ var[1] # 0 =>
            noise.cost = k * k * var[2] * var[2] * x[2] * x[2] + var[1] * var[1]
       /\ var[1] = 0 /\ Slow(x) =>
            noise.cost = x[1] * (Magnitude(noise.v - noise.u)
                           + 2 * (IF noise.u < noise.v THEN noise.u ELSE noise.v))
       /\ var[1] = 0 /\ ~ Slow(x) =>
            noise.cost \div x[1] = k /\ ~ (k = 0 /\ noise.sign = 1)
=============================================================================
