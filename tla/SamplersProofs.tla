--------------------------- MODULE SamplersProofs ---------------------------
(***************************************************************************)
(* Integer noise has the cost its mechanism claims, for all scales and     *)
(* variances and any number of rejections.  The interval a quantile        *)
(* selects is never one that is behind another, for any number of          *)
(* intervals and of random bits per round.  A float stays on its side of   *)
(* the exact number, and close to it, for any mantissa and first nudge.    *)
(***************************************************************************)
EXTENDS Samplers, InductionTheorems

-----------------------------------------------------------------------------
(* Integer noise *)

NoiseType ==
  [x : Nat \X (Nat \ {0}), variance : Nat \X (Nat \ {0}), u : Nat, v : Nat,
   sign : {0, 1}, cost : Nat]
Phases ==
  {"rounded", "first", "second", "sign", "uniform", "coin", "whole", "magnitude",
   "accept", "done"}
Typed ==
  /\ noise \in NoiseType
  /\ phase \in Phases
  /\ phase # "rounded" => noise.x[1] # 0
  /\ noise.variance[1] # 0 => noise.x[1] = 1

(* Costs on the way to a claimed one.                                      *)
GeometricCost ==
  phase \in {"first", "second"} =>
    /\ noise.variance[1] = 0
    /\ Slow(noise.x)
    /\ noise.cost = noise.x[1] * (noise.u + noise.v)
    /\ phase = "first" => noise.u = 0
LaplaceCost ==
  /\ phase \in {"sign", "uniform", "coin", "whole", "magnitude", "accept"} =>
       noise.variance[1] # 0 \/ ~ Slow(noise.x)
  /\ phase \in {"whole", "magnitude", "accept"} =>
       noise.cost = noise.v * noise.x[2] + noise.u
  /\ phase \in {"sign", "uniform", "coin"} => noise.v = 0
  /\ phase = "accept" => noise.variance[1] # 0

DiscreteInv == Typed /\ GeometricCost /\ LaplaceCost /\ DrawnAsClaimed

LEMMA FieldsOfNoise ==
  ASSUME Typed
  PROVE  /\ noise.x \in Nat \X (Nat \ {0}) /\ noise.variance \in Nat \X (Nat \ {0})
         /\ noise.x[1] \in Nat /\ noise.x[2] \in Nat
         /\ noise.u \in Nat /\ noise.v \in Nat /\ noise.cost \in Nat
         /\ noise.sign \in {0, 1}
<1>1. noise.x \in Nat \X (Nat \ {0}) /\ noise.variance \in Nat \X (Nat \ {0})
  BY DEF Typed, NoiseType
<1>2. noise.x[1] \in Nat /\ noise.x[2] \in Nat
  BY <1>1
<1> QED
  BY <1>1, <1>2 DEF Typed, NoiseType

LEMMA RootIsNat ==
  ASSUME NEW s \in Variances
  PROVE  FloorSqrt(s) \in Nat
BY RootsAssumption, ScalesAssumption DEF FloorSqrt, Roots

(* One more coin of cost t.                                                *)
LEMMA OneMore ==
  ASSUME NEW v \in Nat, NEW t \in Nat, NEW u \in Nat
  PROVE  (v + 1) * t + u = (v * t + u) + t
<1>1. v * t \in Nat
  OBVIOUS
<1>2. (v + 1) * t = v * t + t
  OBVIOUS
<1> QED
  BY <1>1, <1>2

(* The two ways to count what two geometrics cost.                         *)
LEMMA CostOfDifference ==
  ASSUME NEW a \in Nat, NEW b \in Nat
  PROVE  Magnitude(a - b) + 2 * (IF b < a THEN b ELSE a) = b + a
BY DEF Magnitude

(* The cost of a candidate k and of the coin that accepts it, without what *)
(* is the same for every k.                                                *)
LEMMA CostOfAccepted ==
  ASSUME NEW k \in Nat, NEW n \in Nat, NEW d \in Nat, NEW t \in Nat
  PROVE  k * 2 * n * d * t + (k * d * t - n) * (k * d * t - n)
           = k * k * d * d * t * t + n * n
<1> DEFINE m == k * d * t
<1>1. m \in Nat
  OBVIOUS
<1>2. (m - n) * (m - n) = m * m - 2 * (m * n) + n * n
  BY <1>1, SMT
<1>3. k * 2 * n * d * t = 2 * (m * n)
  OBVIOUS
<1>4. k * k * d * d * t * t = m * m
  OBVIOUS
<1> QED
  <2> HIDE DEF m
  <2>1. m * m \in Nat /\ m * n \in Nat /\ n * n \in Nat
    BY <1>1
  <2> QED
    BY <1>2, <1>3, <1>4, <2>1 DEF m

-----------------------------------------------------------------------------
LEMMA DiscreteStart ==
  DiscreteInit => DiscreteInv
<1> SUFFICES ASSUME DiscreteInit PROVE DiscreteInv
  OBVIOUS
<1>1. Typed
  BY DEF DiscreteInit, Typed, NoNoise, NoiseType, Phases
<1> QED
  BY <1>1 DEF DiscreteInit, DiscreteInv, GeometricCost, LaplaceCost, DrawnAsClaimed

LEMMA StartKeeps ==
  ASSUME DiscreteInv, phase = "rounded", StartInteger
  PROVE  DiscreteInv'
<1>1. CASE \E s \in Scales :
             /\ noise' = [NoNoise EXCEPT !.x = <<s[2], s[1]>>]
             /\ phase' = IF Slow(noise'.x) THEN "first" ELSE "sign"
  <2>1. PICK s \in Scales :
             /\ noise' = [NoNoise EXCEPT !.x = <<s[2], s[1]>>]
             /\ phase' = IF Slow(noise'.x) THEN "first" ELSE "sign"
    BY <1>1
  <2>2. s[1] \in Nat \ {0} /\ s[2] \in Nat \ {0}
    BY ScalesAssumption
  <2>3. noise' = [x |-> <<s[2], s[1]>>, variance |-> <<0, 1>>, u |-> 0, v |-> 0,
                  sign |-> 0, cost |-> 0]
    BY <2>1 DEF NoNoise
  <2>4. noise' \in NoiseType /\ noise'.x[1] # 0 /\ noise'.variance[1] = 0
    BY <2>2, <2>3 DEF NoiseType
  <2>5. Typed'
    BY <2>1, <2>4 DEF Typed, Phases
  <2>6. GeometricCost' /\ LaplaceCost'
    BY <2>1, <2>2, <2>3 DEF GeometricCost, LaplaceCost, Slow
  <2> QED
    BY <2>1, <2>5, <2>6 DEF DiscreteInv, DrawnAsClaimed
<1>2. CASE \E s \in Variances :
             /\ noise' = [NoNoise EXCEPT !.x = <<1, FloorSqrt(s) + 1>>, !.variance = s]
             /\ phase' = "sign"
  <2>1. PICK s \in Variances :
             /\ noise' = [NoNoise EXCEPT !.x = <<1, FloorSqrt(s) + 1>>, !.variance = s]
             /\ phase' = "sign"
    BY <1>2
  <2>2. s \in (Nat \ {0}) \X (Nat \ {0}) /\ FloorSqrt(s) \in Nat
    BY ScalesAssumption, RootIsNat
  <2>3. noise' = [x |-> <<1, FloorSqrt(s) + 1>>, variance |-> s, u |-> 0, v |-> 0,
                  sign |-> 0, cost |-> 0]
    BY <2>1 DEF NoNoise
  <2>4. noise' \in NoiseType /\ noise'.x[1] = 1 /\ noise'.variance[1] # 0
    BY <2>2, <2>3 DEF NoiseType
  <2>5. Typed'
    BY <2>1, <2>4 DEF Typed, Phases
  <2>6. GeometricCost' /\ LaplaceCost'
    <3>1. noise'.v = 0
      BY <2>3
    <3> QED
      BY <2>1, <2>4, <3>1 DEF GeometricCost, LaplaceCost
  <2> QED
    BY <2>1, <2>5, <2>6 DEF DiscreteInv, DrawnAsClaimed
<1> QED
  BY <1>1, <1>2 DEF StartInteger

LEMMA SlowKeeps ==
  ASSUME DiscreteInv, SlowGeometric
  PROVE  DiscreteInv'
<1>1. Typed /\ GeometricCost
  BY DEF DiscreteInv
<1>2. CASE /\ phase \in {"first", "second"} /\ noise.v < MaxCoins
           /\ ShowsOne(noise.x[1]) /\ UNCHANGED phase
  <2>1. /\ noise.x[1] \in Nat /\ noise.u \in Nat /\ noise.v \in Nat /\ noise.cost \in Nat
        /\ noise.cost = noise.x[1] * (noise.u + noise.v)
    BY <1>1, <1>2, FieldsOfNoise DEF GeometricCost
  <2> DEFINE cost == noise.cost + noise.x[1]
             v == noise.v + 1
  <2>6. cost \in Nat /\ v \in Nat
    BY <2>1
  <2>7. noise' = [noise EXCEPT !.cost = cost, !.v = v]
    BY <1>2 DEF ShowsOne
  <2>2. /\ noise' \in NoiseType
        /\ noise'.x = noise.x /\ noise'.variance = noise.variance /\ noise'.u = noise.u
        /\ noise'.v = v /\ noise'.cost = cost
    <3> HIDE DEF cost, v
    <3> QED
      BY <1>1, <2>6, <2>7 DEF Typed, NoiseType
  <2>3. noise.x[1] * (noise.u + (noise.v + 1)) = noise.cost + noise.x[1]
    BY <2>1
  <2>4. Typed'
    BY <1>1, <1>2, <2>2 DEF Typed
  <2>5. GeometricCost'
    BY <1>1, <1>2, <2>2, <2>3 DEF GeometricCost, Slow
  <2> QED
    BY <1>2, <2>4, <2>5 DEF DiscreteInv, LaplaceCost, DrawnAsClaimed
<1>3. CASE /\ phase = "first" /\ phase' = "second"
           /\ noise' = [noise EXCEPT !.u = noise.v, !.v = 0]
  <2>1. /\ noise' \in NoiseType
        /\ noise'.x = noise.x /\ noise'.variance = noise.variance /\ noise'.u = noise.v
        /\ noise'.v = 0 /\ noise'.cost = noise.cost
    BY <1>1, <1>3 DEF Typed, NoiseType
  <2>2. noise.u = 0 /\ noise.v \in Nat
    BY <1>1, <1>3 DEF GeometricCost, Typed, NoiseType
  <2>3. Typed' /\ GeometricCost'
    BY <1>1, <1>3, <2>1, <2>2 DEF Typed, Phases, GeometricCost, Slow
  <2> QED
    BY <1>3, <2>3 DEF DiscreteInv, LaplaceCost, DrawnAsClaimed
<1>4. CASE phase = "second" /\ phase' = "done" /\ UNCHANGED noise
  <2>1. Typed' /\ GeometricCost' /\ LaplaceCost'
    BY <1>1, <1>4 DEF Typed, Phases, GeometricCost, LaplaceCost
  <2>2. /\ noise.variance[1] = 0 /\ Slow(noise.x)
        /\ noise.cost = noise.x[1] * (noise.u + noise.v)
        /\ noise.u \in Nat /\ noise.v \in Nat
    BY <1>1, <1>4 DEF GeometricCost, Typed, NoiseType
  <2>3. Magnitude(noise.v - noise.u)
          + 2 * (IF noise.u < noise.v THEN noise.u ELSE noise.v) = noise.u + noise.v
    BY <2>2, CostOfDifference
  <2>4. DrawnAsClaimed'
    BY <1>4, <2>2, <2>3 DEF DrawnAsClaimed, Slow, Magnitude
  <2> QED
    BY <2>1, <2>4 DEF DiscreteInv
<1> QED
  BY <1>2, <1>3, <1>4 DEF SlowGeometric

LEMMA FastKeeps ==
  ASSUME DiscreteInv, FastUniform \/ FastCoin \/ FastWhole
  PROVE  DiscreteInv'
<1>1. Typed /\ LaplaceCost
  BY DEF DiscreteInv
<1>2. CASE FastUniform
  <2>1. PICK u \in 0 .. noise.x[2] - 1 : noise' = [noise EXCEPT !.u = u]
    BY <1>2 DEF FastUniform
  <2>2. noise.x[2] \in Nat /\ u \in Nat
    BY <1>1, FieldsOfNoise
  <2>3. /\ phase = "uniform" /\ phase' = "coin" /\ noise.v = 0
        /\ noise.variance[1] # 0 \/ ~ Slow(noise.x)
    BY <1>1, <1>2 DEF FastUniform, LaplaceCost
  <2>4. /\ noise' \in NoiseType /\ noise'.v = noise.v
        /\ noise'.x = noise.x /\ noise'.variance = noise.variance
    BY <1>1, <2>1, <2>2 DEF Typed, NoiseType
  <2>5. Typed'
    BY <1>1, <2>3, <2>4 DEF Typed, Phases
  <2>6. LaplaceCost'
    BY <2>3, <2>4 DEF LaplaceCost, Slow
  <2> QED
    BY <2>3, <2>5, <2>6 DEF DiscreteInv, GeometricCost, DrawnAsClaimed
<1>3. CASE FastWhole
  <2>1. /\ phase = "whole" /\ noise.x[2] \in Nat /\ noise.v \in Nat /\ noise.u \in Nat
        /\ noise.cost \in Nat /\ noise.cost = noise.v * noise.x[2] + noise.u
    BY <1>1, <1>3, FieldsOfNoise DEF FastWhole, LaplaceCost
  <2>2. CASE ShowsOne(noise.x[2]) /\ UNCHANGED phase
    <3> DEFINE cost == noise.cost + noise.x[2]
               v == noise.v + 1
    <3>4. cost \in Nat /\ v \in Nat
      BY <2>1
    <3>5. noise' = [noise EXCEPT !.cost = cost, !.v = v]
      BY <2>2 DEF ShowsOne
    <3>1. /\ noise' \in NoiseType
          /\ noise'.x = noise.x /\ noise'.variance = noise.variance /\ noise'.u = noise.u
          /\ noise'.v = v /\ noise'.cost = cost
      <4> HIDE DEF cost, v
      <4> QED
        BY <1>1, <3>4, <3>5 DEF Typed, NoiseType
    <3>2. v * noise.x[2] + noise.u = cost
      <4>1. (noise.v + 1) * noise.x[2] + noise.u
              = (noise.v * noise.x[2] + noise.u) + noise.x[2]
        BY <2>1, OneMore
      <4> QED
        BY <2>1, <4>1
    <3>6. Typed'
      BY <1>1, <2>1, <2>2, <3>1 DEF Typed
    <3>7. noise'.v * noise'.x[2] + noise'.u = noise'.cost
      BY <3>1, <3>2
    <3>8. /\ phase' = "whole" /\ noise'.variance = noise.variance /\ noise'.x = noise.x
          /\ noise.variance[1] # 0 \/ ~ Slow(noise.x)
      BY <1>1, <2>1, <2>2, <3>1 DEF LaplaceCost
    <3>3. Typed' /\ LaplaceCost'
      <4> HIDE DEF cost, v
      <4> QED
        BY <3>6, <3>7, <3>8 DEF LaplaceCost, Slow
    <3> QED
      BY <2>1, <2>2, <3>3 DEF DiscreteInv, GeometricCost, DrawnAsClaimed
  <2>3. CASE phase' = "magnitude" /\ UNCHANGED noise
    BY <1>1, <2>1, <2>3
       DEF DiscreteInv, Typed, Phases, GeometricCost, LaplaceCost, DrawnAsClaimed
  <2> QED
    BY <1>3, <2>2, <2>3 DEF FastWhole
<1>4. CASE FastCoin
  <2>1. /\ phase = "coin" /\ noise.v = 0
        /\ noise.variance[1] # 0 \/ ~ Slow(noise.x)
        /\ noise.u \in Nat /\ noise.x[2] \in Nat
    BY <1>1, <1>4, FieldsOfNoise DEF FastCoin, LaplaceCost
  <2>2. CASE noise' = [noise EXCEPT !.cost = noise.u] /\ phase' = "whole"
    <3>1. /\ noise' \in NoiseType
          /\ noise'.x = noise.x /\ noise'.variance = noise.variance
          /\ noise'.u = noise.u /\ noise'.v = 0 /\ noise'.cost = noise.u
      BY <1>1, <2>1, <2>2 DEF Typed, NoiseType
    <3>2. Typed'
      BY <1>1, <2>1, <2>2, <3>1 DEF Typed, Phases
    <3>3. noise'.v * noise'.x[2] + noise'.u = noise'.cost
      BY <2>1, <3>1
    <3>4. LaplaceCost'
      BY <2>1, <2>2, <3>1, <3>3 DEF LaplaceCost, Slow
    <3> QED
      BY <2>2, <3>2, <3>4 DEF DiscreteInv, GeometricCost, DrawnAsClaimed
  <2>3. CASE noise' = [noise EXCEPT !.u = 0] /\ phase' = "uniform"
    <3>1. /\ noise' \in NoiseType /\ noise'.v = 0
          /\ noise'.x = noise.x /\ noise'.variance = noise.variance
      BY <1>1, <2>1, <2>3 DEF Typed, NoiseType
    <3>2. Typed'
      BY <1>1, <2>1, <2>3, <3>1 DEF Typed, Phases
    <3>3. LaplaceCost'
      BY <2>1, <2>3, <3>1 DEF LaplaceCost, Slow
    <3> QED
      BY <2>3, <3>2, <3>3 DEF DiscreteInv, GeometricCost, DrawnAsClaimed
  <2> QED
    BY <1>4, <2>2, <2>3 DEF FastCoin
<1> QED
  BY <1>2, <1>3, <1>4

(* A rejection keeps the parameters only.                                  *)
LEMMA AgainKeeps ==
  ASSUME Typed, phase # "rounded", noise.variance[1] # 0 \/ ~ Slow(noise.x), Again
  PROVE  DiscreteInv'
<1>1. /\ noise' = [x |-> noise.x, variance |-> noise.variance, u |-> 0, v |-> 0,
                   sign |-> 0, cost |-> 0]
      /\ phase' = "sign"
  BY DEF Again, NoNoise
<1>2. Typed'
  BY <1>1 DEF Typed, NoiseType, Phases
<1>3. LaplaceCost'
  BY <1>1 DEF LaplaceCost, Slow
<1> QED
  BY <1>1, <1>2, <1>3 DEF DiscreteInv, GeometricCost, DrawnAsClaimed

LEMMA SignKeeps ==
  ASSUME DiscreteInv, Sign
  PROVE  DiscreteInv'
<1>1. Typed /\ LaplaceCost /\ phase = "sign" /\ phase' = "uniform"
  BY DEF DiscreteInv, Sign
<1>2. PICK sign \in 0 .. 1 : noise' = [noise EXCEPT !.sign = sign]
  BY DEF Sign
<1>3. /\ noise' \in NoiseType
      /\ noise'.x = noise.x /\ noise'.variance = noise.variance /\ noise'.v = noise.v
  BY <1>1, <1>2 DEF Typed, NoiseType
<1>4. Typed'
  BY <1>1, <1>3 DEF Typed, Phases
<1>5. LaplaceCost'
  BY <1>1, <1>3 DEF LaplaceCost, Slow
<1> QED
  BY <1>1, <1>4, <1>5 DEF DiscreteInv, GeometricCost, DrawnAsClaimed

LEMMA LaplaceKeeps ==
  ASSUME DiscreteInv, Laplace
  PROVE  DiscreteInv'
<1>1. /\ Typed /\ LaplaceCost /\ phase = "magnitude"
  BY DEF DiscreteInv, Laplace
<1>2. /\ noise.variance[1] # 0 \/ ~ Slow(noise.x)
      /\ noise.cost = noise.v * noise.x[2] + noise.u
  BY <1>1 DEF LaplaceCost
<1>3. CASE noise.sign = 1 /\ Candidate = 0
  <2>1. Again
    BY <1>3 DEF Laplace
  <2> QED
    BY <1>1, <1>2, <2>1, AgainKeeps
<1>4. CASE ~ (noise.sign = 1 /\ Candidate = 0)
  <2>1. /\ phase' = IF noise.variance[1] = 0 THEN "done" ELSE "accept"
        /\ noise' = noise
    BY <1>4 DEF Laplace
  <2>2. Typed' /\ GeometricCost' /\ LaplaceCost'
    BY <1>1, <1>2, <2>1 DEF Typed, Phases, GeometricCost, LaplaceCost, Slow
  <2>3. Candidate' = Candidate /\ Candidate = noise.cost \div noise.x[1]
    BY <1>2, <2>1 DEF Candidate
  <2>4. DrawnAsClaimed'
    BY <1>2, <1>4, <2>1, <2>3 DEF DrawnAsClaimed, Slow
  <2> QED
    BY <2>2, <2>4 DEF DiscreteInv
<1> QED
  BY <1>3, <1>4

LEMMA AcceptKeeps ==
  ASSUME DiscreteInv, Accept
  PROVE  DiscreteInv'
<1>1. /\ Typed /\ LaplaceCost /\ phase = "accept"
  BY DEF DiscreteInv, Accept
<1>2. /\ noise.variance[1] # 0 /\ noise.x[1] = 1
      /\ noise.cost = noise.v * noise.x[2] + noise.u
  BY <1>1 DEF Typed, LaplaceCost
<1>3. /\ noise.variance[1] \in Nat /\ noise.variance[2] \in Nat
      /\ noise.x[2] \in Nat /\ noise.v \in Nat /\ noise.u \in Nat /\ noise.cost \in Nat
  BY <1>1 DEF Typed, NoiseType
<1>4. Candidate = noise.cost
  BY <1>2, <1>3 DEF Candidate
<1>5. CASE Again
  BY <1>1, <1>2, <1>5, AgainKeeps
<1>6. CASE /\ noise' = [noise EXCEPT
                !.cost = @ * 2 * noise.variance[1] * noise.variance[2] * noise.x[2]
                           + Bias(noise.x[2])]
           /\ phase' = "done"
  <2> DEFINE cost == noise.cost * 2 * noise.variance[1] * noise.variance[2] * noise.x[2]
                       + Bias(noise.x[2])
  <2>1. cost = noise.cost * noise.cost * noise.variance[2] * noise.variance[2]
                 * noise.x[2] * noise.x[2] + noise.variance[1] * noise.variance[1]
    BY <1>3, <1>4, CostOfAccepted DEF Bias
  <2>2. cost \in Nat
    BY <1>3, <2>1
  <2>3. /\ noise' \in NoiseType
        /\ noise'.x = noise.x /\ noise'.variance = noise.variance /\ noise'.u = noise.u
        /\ noise'.v = noise.v /\ noise'.cost = cost
    BY <1>1, <1>6, <2>2 DEF Typed, NoiseType
  <2>4. Typed' /\ GeometricCost' /\ LaplaceCost'
    BY <1>1, <1>6, <2>3 DEF Typed, Phases, GeometricCost, LaplaceCost
  <2>5. Candidate' = noise.cost
    BY <1>4, <2>3 DEF Candidate
  <2>7. noise'.cost = Candidate' * Candidate' * noise'.variance[2] * noise'.variance[2]
                        * noise'.x[2] * noise'.x[2] + noise'.variance[1] * noise'.variance[1]
    <3> HIDE DEF cost
    <3> QED
      BY <2>1, <2>3, <2>5
  <2>8. noise'.variance[1] # 0
    BY <1>2, <2>3
  <2>6. DrawnAsClaimed'
    BY <2>7, <2>8, Zenon DEF DrawnAsClaimed
  <2> QED
    BY <2>4, <2>6 DEF DiscreteInv
<1> QED
  BY <1>5, <1>6 DEF Accept

LEMMA DiscreteKeeps ==
  ASSUME DiscreteInv, DiscreteStep
  PROVE  DiscreteInv'
<1>1. CASE FastUniform \/ FastCoin \/ FastWhole
  BY <1>1, FastKeeps
<1> QED
  BY <1>1, SlowKeeps, SignKeeps, LaplaceKeeps, AcceptKeeps DEF DiscreteStep

-----------------------------------------------------------------------------
(* Geometric and discrete Gaussian noise is drawn as claimed, whatever the *)
(* scale or variance, and however often something is rejected.             *)
THEOREM NoiseAsClaimed == DiscreteSpec => []DrawnAsClaimed
<1>1. DiscreteInit => DiscreteInv
  BY DiscreteStart
<1>2. DiscreteInv /\ [DiscreteNext]_<<phase, noise>> => DiscreteInv'
  <2> SUFFICES ASSUME DiscreteInv, [DiscreteNext]_<<phase, noise>>
               PROVE  DiscreteInv'
    OBVIOUS
  <2>1. CASE phase = "rounded" /\ StartInteger
    BY <2>1, StartKeeps
  <2>2. CASE DiscreteStep
    BY <2>2, DiscreteKeeps
  <2>3. CASE UNCHANGED <<phase, noise>>
    BY <2>3 DEF DiscreteInv, Typed, GeometricCost, LaplaceCost, DrawnAsClaimed, Candidate
  <2> QED
    BY <2>1, <2>2, <2>3 DEF DiscreteNext
<1>3. DiscreteInv => DrawnAsClaimed
  BY DEF DiscreteInv
<1> QED
  BY <1>1, <1>2, <1>3, PTL DEF DiscreteSpec

-----------------------------------------------------------------------------
(* Selection of an interval *)

Score == Int \cup {Unknown}

LEMMA ScoreType ==
  /\ \A s \in Score : Low(s) \in Int /\ High(s) \in Int
  /\ \A s \in Int : s # Unknown /\ s \in Score /\ Low(s) = s - 1 /\ High(s) = s + 1
  /\ \A s \in Score : s # Unknown => s \in Int
  /\ Unknown \in Score
BY ScoresAssumption DEF Score, Low, High, Far

(* approx_max is a known score, if there is one, that no score is greater  *)
(* than, whatever their errors.                                            *)
Better(ss, k, m) ==
  IF ss[k] # Unknown /\ (m = Unknown \/ Less(m, ss[k])) THEN ss[k] ELSE m

IsMaxOf(ss, k, m) ==
  /\ m \in Score
  /\ m # Unknown => \E i \in 1 .. k : ss[i] = m
  /\ \A i \in 1 .. k : ss[i] # Unknown => m # Unknown /\ ss[i] <= m + 2

LEMMA BetterIsMax ==
  ASSUME NEW ss, NEW k \in Nat, \A i \in 1 .. k + 1 : ss[i] \in Score,
         NEW m, IsMaxOf(ss, k, m)
  PROVE  IsMaxOf(ss, k + 1, Better(ss, k + 1, m))
<1> DEFINE s == ss[k + 1]
           b == Better(ss, k + 1, m)
<1>1. /\ \A i \in 1 .. k + 1 : i = k + 1 \/ i \in 1 .. k
      /\ \A i \in 1 .. k : i \in 1 .. k + 1
      /\ k + 1 \in 1 .. k + 1
  OBVIOUS
<1>2. s \in Score /\ m \in Score
  BY <1>1 DEF IsMaxOf
<1>3. CASE s = Unknown
  <2>1. b = m
    BY <1>3 DEF Better
  <2> QED BY <1>1, <1>3, <2>1 DEF IsMaxOf
<1>4. CASE s # Unknown /\ m = Unknown
  <2>1. b = s
    BY <1>4 DEF Better
  <2>2. \A i \in 1 .. k : ss[i] = Unknown
    BY <1>4 DEF IsMaxOf
  <2>3. s \in Int
    BY <1>2, <1>4, ScoreType
  <2>4. s <= s + 2
    BY <2>3
  <2> QED BY <1>1, <1>2, <1>4, <2>1, <2>2, <2>4 DEF IsMaxOf
<1>5. CASE s # Unknown /\ m # Unknown
  <2>1. s \in Int /\ m \in Int /\ (Less(m, s) <=> m + 2 < s)
    <3>1. s \in Int /\ m \in Int
      BY <1>2, <1>5, ScoreType
    <3>2. High(m) = m + 1 /\ Low(s) = s - 1
      BY <3>1, ScoreType
    <3> QED BY <3>1, <3>2 DEF Less
  <2>2. \A i \in 1 .. k : ss[i] # Unknown => ss[i] \in Int /\ ss[i] <= m + 2
    BY <1>1, ScoreType DEF IsMaxOf
  <2>3. CASE Less(m, s)
    <3>1. b = s
      BY <1>5, <2>3 DEF Better
    <3>2. s <= s + 2 /\ \A i \in 1 .. k : ss[i] # Unknown => ss[i] <= s + 2
      BY <2>1, <2>2, <2>3
    <3> QED BY <1>1, <1>2, <1>5, <3>1, <3>2 DEF IsMaxOf
  <2>4. CASE ~ Less(m, s)
    <3>1. b = m
      BY <1>5, <2>4 DEF Better
    <3>2. s <= m + 2
      BY <2>1, <2>4
    <3> QED BY <1>1, <1>5, <3>1, <3>2 DEF IsMaxOf
  <2> QED BY <2>3, <2>4
<1> QED BY <1>3, <1>4, <1>5

LEMMA ApproxMaxIsMax ==
  ASSUME NEW ss \in Seq(Score)
  PROVE  IsMaxOf(ss, Len(ss), ApproxMax(ss))
<1> DEFINE L == Len(ss)
           Step(f, k) == IF k = 0 THEN Unknown ELSE Better(ss, k, f[k - 1])
           max == CHOOSE f : f = [k \in 0 .. L |-> Step(f, k)]
           op == [z \in (1 .. L) \X Score |-> Better(ss, z[1], z[2])]
<1>1. L \in Nat /\ \A k \in 1 .. L : ss[k] \in Score
  BY SMT
<1>2. ApproxMax(ss) = max[L]
  BY DEF ApproxMax, Better
<1> HIDE DEF L
<1>3. op \in [(1 .. L) \X Score -> Score]
  <2>1. \A k \in 1 .. L, m \in Score : Better(ss, k, m) \in Score
    BY <1>1 DEF Better
  <2> QED BY <2>1
<1>4. \A k \in 1 .. L, m \in Score : op[<<k, m>>] = Better(ss, k, m)
  OBVIOUS
<1> HIDE DEF op
<1>5. PICK g : IsStepped(g, L, Score, Unknown, op)
  BY <1>1, <1>3, ScoreType, SteppedExists
<1>6. g = [k \in 0 .. L |-> Step(g, k)]
  <2>1. ASSUME NEW k \in 0 .. L PROVE g[k] = Step(g, k)
    <3>1. CASE k = 0
      BY <1>5, <3>1 DEF IsStepped
    <3>2. CASE k # 0
      <4>1. k \in 1 .. L /\ k - 1 \in 0 .. L
        BY <1>1, <3>2
      <4>2. g[k - 1] \in Score
        BY <1>5, <4>1 DEF IsStepped
      <4> QED BY <1>4, <1>5, <3>2, <4>1, <4>2 DEF IsStepped
    <3> QED BY <3>1, <3>2
  <2> QED BY <1>5, <2>1 DEF IsStepped
<1>7. max = [k \in 0 .. L |-> Step(max, k)]
  <2> DEFINE Def(f) == [k \in 0 .. L |-> Step(f, k)]
  <2>1. g = Def(g)
    BY <1>6
  <2> HIDE DEF Def
  <2>2. (CHOOSE f : f = Def(f)) = Def(CHOOSE f : f = Def(f))
    BY <2>1
  <2> QED BY <2>2 DEF Def
<1> HIDE DEF max
<1>8. \A k \in 0 .. L : max[k] = Step(max, k)
  BY <1>7
<1> DEFINE N == {n \in Nat : n \in 0 .. L => IsMaxOf(ss, n, max[n])}
<1>9. 0 \in N
  <2>1. max[0] = Unknown
    BY <1>1, <1>8
  <2>2. IsMaxOf(ss, 0, Unknown)
    BY ScoreType DEF IsMaxOf
  <2> QED BY <2>1, <2>2
<1>10. ASSUME NEW n \in Nat, n \in N PROVE n + 1 \in N
  <2> SUFFICES ASSUME n + 1 \in 0 .. L PROVE IsMaxOf(ss, n + 1, max[n + 1])
    OBVIOUS
  <2>1. n \in 0 .. L /\ (n + 1) - 1 = n /\ n + 1 # 0
    BY <1>1
  <2>2. max[n + 1] = Better(ss, n + 1, max[n])
    BY <1>8, <2>1
  <2>3. \A i \in 1 .. n + 1 : ss[i] \in Score
    BY <1>1
  <2> QED BY <1>10, <2>1, <2>2, <2>3, BetterIsMax
<1>11. L \in N
  <2> HIDE DEF N
  <2> QED BY <1>1, <1>9, <1>10, Induction
<1> QED BY <1>1, <1>2, <1>11 DEF L

(* The intervals that are left are those of the scores that remain.        *)
Taken(ss, max, k, left) ==
  IF Remains(ss[k], max) THEN Append(left, ss[k]) ELSE left

AreLeft(ss, max, k, left) ==
  /\ left \in Seq(Score) /\ Len(left) <= k
  /\ \A j \in 1 .. Len(left) : \E i \in 1 .. k : left[j] = ss[i] /\ Remains(ss[i], max)
  /\ \A i \in 1 .. k : Remains(ss[i], max) => \E j \in 1 .. Len(left) : left[j] = ss[i]

LEMMA TakenAreLeft ==
  ASSUME NEW ss, NEW max, NEW k \in Nat, ss[k + 1] \in Score,
         NEW left, AreLeft(ss, max, k, left)
  PROVE  AreLeft(ss, max, k + 1, Taken(ss, max, k + 1, left))
<1> DEFINE s == ss[k + 1]
           new == Append(left, s)
<1>1. /\ \A i \in 1 .. k + 1 : i = k + 1 \/ i \in 1 .. k
      /\ \A i \in 1 .. k : i \in 1 .. k + 1
      /\ k + 1 \in 1 .. k + 1
  OBVIOUS
<1>2. left \in Seq(Score) /\ Len(left) \in Nat /\ Len(left) <= k
  BY DEF AreLeft
<1>3. CASE ~ Remains(s, max)
  <2>1. Taken(ss, max, k + 1, left) = left
    BY <1>3 DEF Taken
  <2>2. Len(left) <= k + 1
    BY <1>2
  <2>3. \A j \in 1 .. Len(left) :
          \E i \in 1 .. k + 1 : left[j] = ss[i] /\ Remains(ss[i], max)
    BY <1>1 DEF AreLeft
  <2>4. \A i \in 1 .. k + 1 :
          Remains(ss[i], max) => \E j \in 1 .. Len(left) : left[j] = ss[i]
    BY <1>1, <1>3 DEF AreLeft
  <2> QED BY <1>2, <2>1, <2>2, <2>3, <2>4 DEF AreLeft
<1>4. CASE Remains(s, max)
  <2>1. Taken(ss, max, k + 1, left) = new
    BY <1>4 DEF Taken
  <2>2. /\ new \in Seq(Score) /\ Len(new) = Len(left) + 1
        /\ new[Len(left) + 1] = s
        /\ \A j \in 1 .. Len(left) : new[j] = left[j]
    BY <1>2
  <2> HIDE DEF new
  <2>3. /\ \A j \in 1 .. Len(new) : j = Len(left) + 1 \/ j \in 1 .. Len(left)
        /\ \A j \in 1 .. Len(left) : j \in 1 .. Len(new)
        /\ Len(left) + 1 \in 1 .. Len(new)
        /\ Len(new) <= k + 1
    BY <1>2, <2>2
  <2>4. ASSUME NEW j \in 1 .. Len(new)
        PROVE  \E i \in 1 .. k + 1 : new[j] = ss[i] /\ Remains(ss[i], max)
    <3>1. CASE j = Len(left) + 1
      BY <1>1, <1>4, <2>2, <3>1
    <3>2. CASE j \in 1 .. Len(left)
      <4>1. \E i \in 1 .. k : left[j] = ss[i] /\ Remains(ss[i], max)
        BY <3>2 DEF AreLeft
      <4> QED BY <1>1, <2>2, <3>2, <4>1
    <3> QED BY <2>3, <3>1, <3>2
  <2>5. ASSUME NEW i \in 1 .. k + 1, Remains(ss[i], max)
        PROVE  \E j \in 1 .. Len(new) : new[j] = ss[i]
    <3>1. CASE i = k + 1
      BY <2>2, <2>3, <3>1
    <3>2. CASE i \in 1 .. k
      <4>1. \E j \in 1 .. Len(left) : left[j] = ss[i]
        BY <2>5, <3>2 DEF AreLeft
      <4> QED BY <2>2, <2>3, <4>1
    <3> QED BY <1>1, <3>1, <3>2
  <2> QED BY <2>1, <2>2, <2>3, <2>4, <2>5 DEF AreLeft
<1> QED BY <1>3, <1>4

LEMMA RemainingAreLeft ==
  ASSUME NEW ss \in Seq(Score), NEW max
  PROVE  AreLeft(ss, max, Len(ss), Remaining(ss, max))
<1> DEFINE L == Len(ss)
           Step(f, k) == IF k = 0 THEN <<>> ELSE Taken(ss, max, k, f[k - 1])
           left == CHOOSE f : f = [k \in 0 .. L |-> Step(f, k)]
           op == [z \in (1 .. L) \X Seq(Score) |-> Taken(ss, max, z[1], z[2])]
<1>1. L \in Nat /\ \A k \in 1 .. L : ss[k] \in Score
  BY SMT
<1>2. Remaining(ss, max) = left[L]
  BY DEF Remaining, Taken
<1> HIDE DEF L
<1>3. op \in [(1 .. L) \X Seq(Score) -> Seq(Score)]
  <2>1. \A k \in 1 .. L, m \in Seq(Score) : Taken(ss, max, k, m) \in Seq(Score)
    BY <1>1 DEF Taken
  <2> QED BY <2>1
<1>4. \A k \in 1 .. L, m \in Seq(Score) : op[<<k, m>>] = Taken(ss, max, k, m)
  OBVIOUS
<1> HIDE DEF op
<1>12. <<>> \in Seq(Score)
  OBVIOUS
<1>5. PICK g : IsStepped(g, L, Seq(Score), <<>>, op)
  BY <1>1, <1>3, <1>12, SteppedExists
<1>6. g = [k \in 0 .. L |-> Step(g, k)]
  <2>1. ASSUME NEW k \in 0 .. L PROVE g[k] = Step(g, k)
    <3>1. CASE k = 0
      BY <1>5, <3>1 DEF IsStepped
    <3>2. CASE k # 0
      <4>1. k \in 1 .. L /\ k - 1 \in 0 .. L
        BY <1>1, <3>2
      <4>2. g[k - 1] \in Seq(Score)
        BY <1>5, <4>1 DEF IsStepped
      <4> QED BY <1>4, <1>5, <3>2, <4>1, <4>2 DEF IsStepped
    <3> QED BY <3>1, <3>2
  <2> QED BY <1>5, <2>1 DEF IsStepped
<1>7. left = [k \in 0 .. L |-> Step(left, k)]
  <2> DEFINE Def(f) == [k \in 0 .. L |-> Step(f, k)]
  <2>1. g = Def(g)
    BY <1>6
  <2> HIDE DEF Def
  <2>2. (CHOOSE f : f = Def(f)) = Def(CHOOSE f : f = Def(f))
    BY <2>1
  <2> QED BY <2>2 DEF Def
<1> HIDE DEF left
<1>8. \A k \in 0 .. L : left[k] = Step(left, k)
  BY <1>7
<1> DEFINE N == {n \in Nat : n \in 0 .. L => AreLeft(ss, max, n, left[n])}
<1>9. 0 \in N
  <2>1. left[0] = <<>>
    BY <1>1, <1>8
  <2>2. AreLeft(ss, max, 0, <<>>)
    BY <1>12 DEF AreLeft
  <2> QED BY <2>1, <2>2
<1>10. ASSUME NEW n \in Nat, n \in N PROVE n + 1 \in N
  <2> SUFFICES ASSUME n + 1 \in 0 .. L PROVE AreLeft(ss, max, n + 1, left[n + 1])
    OBVIOUS
  <2>1. n \in 0 .. L /\ (n + 1) - 1 = n /\ n + 1 # 0 /\ n + 1 \in 1 .. L
    BY <1>1
  <2>2. left[n + 1] = Taken(ss, max, n + 1, left[n])
    BY <1>8, <2>1
  <2>3. ss[n + 1] \in Score
    BY <1>1, <2>1
  <2> QED BY <1>10, <2>1, <2>2, <2>3, TakenAreLeft
<1>11. L \in N
  <2> HIDE DEF N
  <2> QED BY <1>1, <1>9, <1>10, Induction
<1> QED BY <1>1, <1>2, <1>11 DEF L

LEMMA LeastIs ==
  ASSUME NEW S \in SUBSET Int, S # {}, NEW b \in Int, \A x \in S : b <= x
  PROVE  Min(S) \in S /\ \A x \in S : Min(S) <= x
BY LeastExists DEF Min

LEMMA LargestIs ==
  ASSUME NEW S \in SUBSET Int, S # {}, NEW b \in Int, \A x \in S : x <= b
  PROVE  Max(S) \in S /\ \A x \in S : x <= Max(S)
<1>1. \E m \in S : \A x \in S : m >= x
  BY LargestExists
<1> QED BY <1>1 DEF Max

(* The score of an interval that is left is above all that were ever       *)
(* eliminated; beaten is -Far as long as none was.                         *)
Ahead(ss, b) ==
  b # -Far => /\ b > -Far
              /\ \E i \in 1 .. Len(ss) : ss[i] # Unknown /\ ss[i] - 1 > b

(* That also holds with what more random bits make of the scores.          *)
Leads(ss, b) ==
  \/ b = SelectStep * (-Far) /\ \A i \in 1 .. Len(ss) : ss[i] # Unknown => ss[i] > b + 1
  \/ \E i \in 1 .. Len(ss) : ss[i] # Unknown /\ ss[i] > b + 3

LEMMA Between ==
  ASSUME NEW m \in Int, NEW x \in Int, NEW y \in Int,
         x <= m + 2, y <= x, m - 2 <= y
  PROVE  x - y \in 0 .. 4
OBVIOUS

LEMMA RoundEffect ==
  ASSUME NEW ss \in Seq(Score), Len(ss) # 0, SelectStep * beaten \in Int,
         Leads(ss, SelectStep * beaten), SelectRound(ss)
  PROVE  /\ scores' \in Seq({Unknown} \cup 0 .. 4)
         /\ Len(scores') \in 1 .. Len(ss)
         /\ beaten' \in Int /\ Ahead(scores', beaten')
<1> DEFINE max == ApproxMax(ss)
           left == Remaining(ss, max)
           known == {s \in {left[i] : i \in DOMAIN left} : s # Unknown}
           base == IF known = {} THEN 0 ELSE Min(known)
           gone == {High(s) : s \in {t \in {ss[i] : i \in DOMAIN ss} : ~ Remains(t, max)}}
           b == SelectStep * beaten
           most == Max(gone \cup {b})
<1>1. /\ Len(ss) \in Nat /\ DOMAIN ss = 1 .. Len(ss) /\ 1 \in 1 .. Len(ss)
      /\ \A i \in 1 .. Len(ss) : ss[i] \in Score
  BY SMT
<1>2. IsMaxOf(ss, Len(ss), max)
  BY ApproxMaxIsMax
<1>3. AreLeft(ss, max, Len(ss), left)
  BY RemainingAreLeft
<1>4. /\ scores' = [i \in DOMAIN left |->
                      IF left[i] = Unknown THEN Unknown ELSE left[i] - base]
      /\ beaten' = IF most - base < -5 THEN -Far ELSE most - base
  BY DEF SelectRound
<1>20. b \in Int /\ Leads(ss, b)
  OBVIOUS
<1> HIDE DEF max, b
<1>5. /\ left \in Seq(Score) /\ DOMAIN left = 1 .. Len(left) /\ Len(left) \in Nat
      /\ Len(left) <= Len(ss)
  BY <1>3 DEF AreLeft
<1>6. /\ \A j \in 1 .. Len(left) :
           \E i \in 1 .. Len(ss) : left[j] = ss[i] /\ Remains(ss[i], max)
      /\ \A i \in 1 .. Len(ss) :
           Remains(ss[i], max) => \E j \in 1 .. Len(left) : left[j] = ss[i]
  BY <1>3 DEF AreLeft
<1> HIDE DEF left
<1>7. /\ \A j \in 1 .. Len(left) : left[j] # Unknown => left[j] \in known
      /\ \A s \in known : s # Unknown /\ \E j \in 1 .. Len(left) : left[j] = s
  BY <1>5
<1>8. \A s \in gone : \E i \in 1 .. Len(ss) : s = High(ss[i]) /\ ~ Remains(ss[i], max)
  BY <1>1
<1>9. CASE max = Unknown
  <2>1. \A i \in 1 .. Len(ss) : ss[i] = Unknown /\ Remains(ss[i], max)
    BY <1>2, <1>9 DEF IsMaxOf, Remains
  <2>2. Len(left) # 0
    BY <1>1, <1>5, <1>6, <2>1
  <2>3. known = {} /\ gone = {}
    <3> HIDE DEF known, gone
    <3>1. \A j \in 1 .. Len(left) : left[j] = Unknown
      BY <1>6, <2>1
    <3>2. \A s \in known : FALSE
      BY <1>7, <3>1
    <3>3. \A s \in gone : FALSE
      BY <1>8, <2>1
    <3> QED BY <3>2, <3>3
  <2>4. b = SelectStep * (-Far)
    BY <1>20, <2>1 DEF Leads
  <2>5. gone \cup {b} = {b}
    BY <2>3
  <2>6. most = b
    <3> HIDE DEF gone
    <3>1. Max({b}) = b
      BY <1>20 DEF Max
    <3> QED BY <2>5, <3>1
  <2>7. base = 0
    BY <2>3
  <2>8. b < -5
    BY <2>4, StepsAssumption DEF Far
  <2> HIDE DEF known, base, most, gone
  <2>9. beaten' = -Far
    BY <1>4, <1>20, <2>6, <2>7, <2>8
  <2>10. \A j \in 1 .. Len(left) : left[j] = Unknown
    BY <1>6, <2>1
  <2>11. scores' = [j \in 1 .. Len(left) |-> Unknown]
    BY <1>4, <1>5, <2>10
  <2>12. scores' \in Seq({Unknown} \cup 0 .. 4) /\ Len(scores') = Len(left)
    BY <1>5, <2>11
  <2>13. Len(scores') \in 1 .. Len(ss)
    BY <1>1, <1>5, <2>2, <2>12
  <2> QED BY <2>9, <2>12, <2>13 DEF Ahead, Far
<1>10. CASE max # Unknown
  <2>1. max \in Int /\ Low(max) = max - 1 /\ High(max) = max + 1
    BY <1>2, <1>10, ScoreType DEF IsMaxOf
  <2>2. PICK w \in 1 .. Len(ss) : ss[w] = max
    BY <1>2, <1>10 DEF IsMaxOf
  <2>3. \A i \in 1 .. Len(ss) : ss[i] # Unknown =>
          ss[i] \in Int /\ ss[i] <= max + 2 /\ High(ss[i]) = ss[i] + 1
    BY <1>1, <1>2, ScoreType DEF IsMaxOf
  <2>4. b < max - 1
    <3>1. CASE b = SelectStep * (-Far)
                 /\ \A i \in 1 .. Len(ss) : ss[i] # Unknown => ss[i] > b + 1
      BY <1>10, <1>20, <2>1, <2>2, <3>1
    <3>2. CASE \E i \in 1 .. Len(ss) : ss[i] # Unknown /\ ss[i] > b + 3
      BY <1>20, <2>1, <2>3, <3>2
    <3> QED BY <1>20, <3>1, <3>2 DEF Leads
  <2>5. Remains(max, max)
    BY <2>1 DEF Remains, Less
  <2>6. PICK v \in 1 .. Len(left) : left[v] = max
    BY <1>6, <2>2, <2>5
  <2>7. \A s \in known : s \in Int /\ max - 2 <= s /\ s <= max + 2
    <3> SUFFICES ASSUME NEW s \in known
                 PROVE  s \in Int /\ max - 2 <= s /\ s <= max + 2
      OBVIOUS
    <3>4. PICK j \in 1 .. Len(left) : left[j] = s
      BY <1>7
    <3>1. PICK i \in 1 .. Len(ss) : s = ss[i] /\ Remains(ss[i], max)
      BY <1>6, <3>4
    <3>2. s \in Int /\ s <= max + 2 /\ High(s) = s + 1
      BY <1>7, <2>3, <3>1
    <3>3. ~ (s + 1 < max - 1)
      BY <1>10, <2>1, <3>1, <3>2 DEF Remains, Less
    <3> QED BY <2>1, <3>2, <3>3
  <2>8. max \in known
    BY <1>7, <1>10, <2>6
  <2> HIDE DEF known
  <2>9. known \in SUBSET Int /\ known # {} /\ max - 2 \in Int
    BY <2>1, <2>7, <2>8
  <2>10. base = Min(known) /\ base \in known /\ \A s \in known : base <= s
    BY <2>7, <2>9, LeastIs
  <2> HIDE DEF base
  <2>11. \A s \in gone : s \in Int /\ s < max - 1
    <3> SUFFICES ASSUME NEW s \in gone PROVE s \in Int /\ s < max - 1
      OBVIOUS
    <3>1. PICK i \in 1 .. Len(ss) : s = High(ss[i]) /\ ~ Remains(ss[i], max)
      BY <1>8
    <3>2. High(ss[i]) \in Int
      BY <1>1, ScoreType
    <3> QED BY <2>1, <3>1, <3>2 DEF Remains, Less
  <2> DEFINE G == gone \cup {b}
  <2>12. most = Max(G)
    OBVIOUS
  <2> HIDE DEF gone
  <2>13. G \in SUBSET Int /\ G # {} /\ \A s \in G : s < max - 1
    BY <1>20, <2>4, <2>11
  <2>14. \A s \in G : s <= max - 1
    BY <2>1, <2>13
  <2> HIDE DEF G
  <2>15. most \in Int /\ most < max - 1
    <3>1. max - 1 \in Int
      BY <2>1
    <3>2. Max(G) \in G
      BY <2>13, <2>14, <3>1, LargestIs
    <3> QED BY <2>12, <2>13, <3>2
  <2> HIDE DEF most
  <2>16. base \in Int /\ beaten' \in Int
    BY <1>4, <2>7, <2>10, <2>15 DEF Far
  <2>17. \A j \in 1 .. Len(left) : left[j] # Unknown => left[j] - base \in 0 .. 4
    <3> SUFFICES ASSUME NEW j \in 1 .. Len(left), left[j] # Unknown
                 PROVE  left[j] - base \in 0 .. 4
      OBVIOUS
    <3>1. left[j] \in known
      BY <1>7
    <3>2. left[j] \in Int /\ left[j] <= max + 2 /\ base <= left[j] /\ max - 2 <= base
      BY <2>7, <2>10, <3>1
    <3> QED BY <2>1, <2>16, <3>2, Between
  <2>18. /\ scores' \in [1 .. Len(left) -> {Unknown} \cup 0 .. 4]
         /\ \A j \in 1 .. Len(left) : left[j] # Unknown => scores'[j] = left[j] - base
    BY <1>4, <1>5, <2>17
  <2>19. scores' \in Seq({Unknown} \cup 0 .. 4) /\ Len(scores') = Len(left)
    BY <1>5, <2>18
  <2>20. Len(scores') \in 1 .. Len(ss)
    BY <1>1, <1>5, <2>6, <2>19
  <2>21. scores'[v] # Unknown /\ scores'[v] \in Int /\ scores'[v] - 1 > most - base
    <3>1. scores'[v] = max - base
      BY <1>10, <2>6, <2>18
    <3>2. max - base \in Int
      BY <2>1, <2>16
    <3> QED BY <2>1, <2>15, <2>16, <3>1, <3>2, ScoreType
  <2>22. Ahead(scores', beaten')
    <3>1. CASE most - base < -5
      BY <1>4, <3>1 DEF Ahead
    <3>2. CASE ~ (most - base < -5)
      <4>1. beaten' = most - base /\ beaten' > -Far
        BY <1>4, <2>15, <2>16, <3>2 DEF Far
      <4> QED BY <2>19, <2>21, <4>1 DEF Ahead
    <3> QED BY <3>1, <3>2
  <2> QED BY <2>16, <2>19, <2>20, <2>22
<1> QED BY <1>9, <1>10

LEMMA MoreBits ==
  ASSUME NEW x \in Int, NEW y \in Int, x - 1 > y, NEW bits \in Bits
  PROVE  SelectStep * x + bits > SelectStep * y + 3
<1>1. SelectStep \in Int /\ SelectStep >= 4 /\ bits \in Int /\ bits >= 1 - SelectStep
  BY StepsAssumption DEF Bits
<1> DEFINE d == x - y - 2
<1>2. d \in Int /\ d >= 0 /\ x = y + 2 + d
  OBVIOUS
<1> HIDE DEF d
<1>3. SelectStep * d \in Int /\ SelectStep * d >= 0
  BY <1>1, <1>2
<1>4. SelectStep * (y + 2 + d) = SelectStep * y + 2 * SelectStep + SelectStep * d
  BY <1>1, <1>2
<1>5. SelectStep * y \in Int
  BY <1>1
<1> QED BY <1>1, <1>2, <1>3, <1>4, <1>5

LEMMA FirstBits ==
  ASSUME NEW bits \in Bits
  PROVE  Window * bits \in Int /\ Window * bits > SelectStep * (-Far) + 1
<1>1. /\ SelectStep \in Int /\ SelectStep >= 4 /\ bits \in Int /\ bits >= 1 - SelectStep
      /\ Window \in Int /\ Window >= 1 /\ Window <= 999
  BY StepsAssumption, ScoresAssumption DEF Bits, Far
<1> DEFINE e == bits + SelectStep - 1
           r == 999 - Window
<1>2. e \in Int /\ e >= 0 /\ bits = e - SelectStep + 1 /\ r \in Int /\ r >= 0
      /\ Window = 999 - r
  BY <1>1
<1> HIDE DEF e, r
<1>3. Window * e \in Int /\ Window * e >= 0
  BY <1>1, <1>2
<1>4. r * SelectStep \in Int /\ r * SelectStep >= 0
  BY <1>1, <1>2
<1>5. Window * (e - SelectStep + 1) = Window * e - Window * SelectStep + Window
  BY <1>1, <1>2
<1>6. Window * SelectStep = 999 * SelectStep - r * SelectStep
  BY <1>1, <1>2
<1>7. SelectStep * (-Far) = 0 - 1000 * SelectStep
  BY <1>1 DEF Far
<1>8. Window * bits = Window * e - 999 * SelectStep + r * SelectStep + Window
  BY <1>1, <1>2, <1>3, <1>4, <1>5, <1>6
<1> QED BY <1>1, <1>3, <1>4, <1>7, <1>8

LEMMA RefinedLeads ==
  ASSUME NEW old \in Seq({Unknown} \cup 0 .. 4), NEW b \in Int, Ahead(old, b),
         NEW bits \in [DOMAIN old -> Bits \cup {Unknown}],
         \A i \in DOMAIN old : bits[i] = Unknown => old[i] = Unknown
  PROVE  LET ss == [i \in DOMAIN old |-> Refined(old[i], bits[i])]
         IN  /\ ss \in Seq(Score) /\ Len(ss) = Len(old)
             /\ SelectStep * b \in Int /\ Leads(ss, SelectStep * b)
<1> DEFINE ss == [i \in DOMAIN old |-> Refined(old[i], bits[i])]
<1>1. /\ DOMAIN old = 1 .. Len(old) /\ Len(old) \in Nat
      /\ \A i \in 1 .. Len(old) : old[i] # Unknown => old[i] \in 0 .. 4
  BY SMT
<1>2. /\ SelectStep \in Nat /\ SelectStep >= 4
      /\ \A x \in Bits : x \in Int /\ x # Unknown /\ x >= 1 - SelectStep
      /\ \A i \in 1 .. Len(old) : bits[i] # Unknown => bits[i] \in Bits
  BY <1>1, StepsAssumption, ScoresAssumption DEF Bits
<1>3. SelectStep * b \in Int
  BY <1>2
<1>4. ASSUME NEW i \in 1 .. Len(old), old[i] # Unknown
      PROVE  /\ ss[i] = SelectStep * old[i] + bits[i] /\ ss[i] \in Int
             /\ ss[i] # Unknown /\ bits[i] \in Bits
  <2>1. ss[i] = SelectStep * old[i] + bits[i]
    BY <1>1, <1>4 DEF Refined
  <2>2. bits[i] \in Bits /\ bits[i] \in Int /\ old[i] \in Int
    BY <1>1, <1>2, <1>4
  <2>3. SelectStep * old[i] \in Int
    BY <1>2, <2>2
  <2>4. SelectStep * old[i] + bits[i] \in Int
    BY <2>2, <2>3
  <2> HIDE DEF ss
  <2> QED BY <2>1, <2>2, <2>4, ScoresAssumption
<1>5. ASSUME NEW i \in 1 .. Len(old), old[i] = Unknown
      PROVE  \/ ss[i] = Unknown
             \/ /\ bits[i] \in Bits /\ ss[i] = Window * bits[i]
                /\ ss[i] \in Int /\ ss[i] > SelectStep * (-Far) + 1
  <2>1. CASE bits[i] = Unknown
    BY <1>1, <1>5, <2>1 DEF Refined
  <2>2. CASE bits[i] # Unknown
    <3>1. bits[i] \in Bits
      BY <1>2, <2>2
    <3>2. ss[i] = Window * bits[i]
      BY <1>1, <1>5, <2>2 DEF Refined
    <3> HIDE DEF ss
    <3> QED BY <3>1, <3>2, FirstBits
  <2> QED BY <2>1, <2>2
<1>6. ss \in Seq(Score) /\ Len(ss) = Len(old) /\ DOMAIN ss = 1 .. Len(old)
  <2>1. \A i \in 1 .. Len(old) : ss[i] \in Score
    <3> HIDE DEF ss
    <3> QED BY <1>4, <1>5 DEF Score
  <2>2. ss \in [1 .. Len(old) -> Score]
    BY <1>1, <2>1
  <2> HIDE DEF ss
  <2> QED BY <1>1, <2>2
<1> HIDE DEF ss
<1>7. ASSUME b = -Far PROVE Leads(ss, SelectStep * b)
  <2>1. ASSUME NEW i \in 1 .. Len(ss), ss[i] # Unknown
        PROVE  ss[i] > SelectStep * (-Far) + 1
    <3>1. CASE old[i] = Unknown
      BY <1>5, <1>6, <2>1, <3>1
    <3>2. CASE old[i] # Unknown
      <4>1. /\ ss[i] = SelectStep * old[i] + bits[i]
            /\ bits[i] \in Int /\ bits[i] >= 1 - SelectStep
            /\ old[i] \in Int /\ old[i] >= 0
        BY <1>1, <1>2, <1>4, <1>6, <3>2
      <4>2. SelectStep * old[i] \in Int /\ SelectStep * old[i] >= 0
        BY <1>2, <4>1
      <4>3. SelectStep * (-Far) = 0 - 1000 * SelectStep
        BY <1>2 DEF Far
      <4> QED BY <1>2, <4>1, <4>2, <4>3
    <3> QED BY <3>1, <3>2
  <2> QED BY <1>6, <1>7, <2>1 DEF Leads
<1>8. ASSUME b # -Far PROVE Leads(ss, SelectStep * b)
  <2>1. PICK i \in 1 .. Len(old) : old[i] # Unknown /\ old[i] - 1 > b
    BY <1>8 DEF Ahead
  <2>2. /\ ss[i] = SelectStep * old[i] + bits[i] /\ ss[i] # Unknown
        /\ bits[i] \in Bits
    BY <1>4, <2>1
  <2>3. old[i] \in Int
    BY <1>1, <2>1
  <2>4. ss[i] > SelectStep * b + 3
    BY <2>1, <2>2, <2>3, MoreBits
  <2> QED BY <1>6, <2>2, <2>4 DEF Leads
<1> QED BY <1>3, <1>6, <1>7, <1>8 DEF ss

-----------------------------------------------------------------------------
(* Floats *)

LEMMA PowersOfTwo == PowersOf(Power, 2)
<1> DEFINE G(h) == [k \in Nat |-> IF k = 0 THEN 1 ELSE 2 * h[k - 1]]
<1>1. PICK g : g = G(g)
  BY PowersExist
<1>2. Power = CHOOSE h : h = G(h)
  BY DEF Power
<1>3. Power = G(Power)
  BY <1>1, <1>2
<1>4. \A k \in Nat : G(Power)[k] = IF k = 0 THEN 1 ELSE 2 * Power[k - 1]
  OBVIOUS
<1> HIDE DEF G
<1>5. \A k \in Nat : Power[k] = IF k = 0 THEN 1 ELSE 2 * Power[k - 1]
  BY <1>3, <1>4
<1>6. \A k \in Nat : k + 1 \in Nat /\ k + 1 # 0 /\ (k + 1) - 1 = k
  OBVIOUS
<1> QED BY <1>5, <1>6 DEF PowersOf

LEMMA PowerType ==
  /\ \A k \in Nat : Power[k] \in Nat \ {0} /\ k < Power[k] /\ Power[k + 1] = 2 * Power[k]
  /\ \A i, j \in Nat : i <= j => Power[i] <= Power[j]
<1>1. 2 \in Nat \ {0, 1}
  OBVIOUS
<1> QED BY <1>1, PowersOfTwo, PowersGrow DEF PowersOf

(* A power divides the later ones.                                         *)
LEMMA PowerDivides ==
  ASSUME NEW i \in Nat, NEW j \in Nat, i <= j
  PROVE  \E q \in Nat \ {0} : Power[j] = q * Power[i]
<1> DEFINE D == {d \in Nat : \E q \in Nat \ {0} : Power[i + d] = q * Power[i]}
<1>1. 0 \in D
  <2>1. Power[i + 0] = 1 * Power[i]
    BY PowerType
  <2> QED BY <2>1
<1>2. ASSUME NEW d \in D PROVE d + 1 \in D
  <2>1. PICK q \in Nat \ {0} : Power[i + d] = q * Power[i]
    OBVIOUS
  <2>2. i + d \in Nat /\ Power[i] \in Nat /\ i + (d + 1) = (i + d) + 1
    BY PowerType
  <2>3. Power[i + (d + 1)] = 2 * Power[i + d]
    BY <2>2, PowerType
  <2>4. 2 * q \in Nat \ {0} /\ 2 * (q * Power[i]) = (2 * q) * Power[i]
    BY <2>2
  <2> QED BY <2>1, <2>3, <2>4
<1>3. j - i \in D
  <2>1. j - i \in Nat
    OBVIOUS
  <2> HIDE DEF D
  <2> QED BY <1>1, <1>2, <2>1, Induction
<1>4. i + (j - i) = j
  OBVIOUS
<1> QED BY <1>3, <1>4

(* Multiples of u are ordered as their factors are.                        *)
LEMMA MultiplesCompare ==
  ASSUME NEW p \in Int, NEW q \in Int, NEW u \in Nat \ {0}
  PROVE  /\ p * u \in Int /\ q * u \in Int
         /\ p <= q => p * u <= q * u
         /\ p < q => p * u + u <= q * u
         /\ p * u <= q * u => p <= q
         /\ p * u < q * u + u => p <= q
OBVIOUS

LEMMA NegatedMultiple ==
  ASSUME NEW q \in Int, NEW u \in Int
  PROVE  -q \in Int /\ -(q * u) = (-q) * u
OBVIOUS

(* x is between two neighbouring multiples of u, as is every multiple of u *)
(* on one side of it.                                                      *)
LEMMA MultiplesAround ==
  ASSUME NEW x \in Int, NEW u \in Nat \ {0}
  PROVE  /\ x \div u \in Int /\ (x \div u) * u \in Int
         /\ (x \div u) * u <= x /\ x < (x \div u) * u + u
         /\ \A p \in Int : /\ p * u \in Int
                           /\ p * u <= x => p * u <= (x \div u) * u
                           /\ x < p * u => (x \div u) * u + u <= p * u
<1> DEFINE q == x \div u
<1>1. q \in Int /\ q * u <= x /\ x < q * u + u
  OBVIOUS
<1> HIDE DEF q
<1>2. \A p \in Int : /\ p * u \in Int /\ q * u \in Int
                     /\ p * u <= x => p * u <= q * u
                     /\ x < p * u => q * u + u <= p * u
  <2> TAKE p \in Int
  <2>1. p * u \in Int /\ q * u \in Int
    BY <1>1, MultiplesCompare
  <2>2. ASSUME p * u <= x PROVE p * u <= q * u
    <3>1. p * u < q * u + u
      BY <1>1, <2>1, <2>2
    <3> QED BY <1>1, <3>1, MultiplesCompare
  <2>3. ASSUME x < p * u PROVE q * u + u <= p * u
    <3>1. q * u < p * u
      BY <1>1, <2>1, <2>3
    <3>2. ~ p <= q
      BY <1>1, <2>1, <3>1, MultiplesCompare
    <3> QED BY <1>1, <3>2, MultiplesCompare
  <2> QED BY <2>1, <2>2, <2>3
<1> QED BY <1>1, <1>2 DEF q

(* Floats are 2 ^ k apart where k is the least power that leaves a number  *)
(* no more bits than the mantissa has, and at least the least distance.    *)
HasUlp(x, k) ==
  Abs(x) < Power[k + Mantissa] /\ (k = 1 \/ Power[k - 1 + Mantissa] <= Abs(x))

LEMMA AbsType ==
  ASSUME NEW x \in Int
  PROVE  Abs(x) \in Nat /\ (Abs(x) = x \/ Abs(x) = -x) /\ x <= Abs(x) /\ -x <= Abs(x)
BY DEF Abs

LEMMA UlpIs ==
  ASSUME NEW x \in Int
  PROVE  \E k \in Nat \ {0} : Ulp(x) = Power[k] /\ HasUlp(x, k)
<1> DEFINE a == Abs(x)
           S == {k \in 1 .. a + 1 : a < Power[k + Mantissa]}
<1>1. a \in Nat /\ Mantissa \in Nat
  BY FloatsAssumption, AbsType
<1>2. a + 1 \in S
  <2>1. (a + 1) + Mantissa \in Nat
    BY <1>1
  <2>2. (a + 1) + Mantissa < Power[(a + 1) + Mantissa] /\ Power[(a + 1) + Mantissa] \in Nat
    BY <2>1, PowerType
  <2>3. a < Power[(a + 1) + Mantissa]
    BY <1>1, <2>2
  <2> QED BY <1>1, <2>3
<1>3. PICK k \in S : \A j \in S : k <= j
  <2>1. S \in SUBSET Int /\ S # {} /\ \A j \in S : 0 <= j
    BY <1>1, <1>2
  <2> HIDE DEF S
  <2> QED BY <2>1, LeastExists
<1>4. k \in 1 .. a + 1 /\ HasUlp(x, k)
  <2>1. k \in 1 .. a + 1 /\ a < Power[k + Mantissa]
    OBVIOUS
  <2>2. ASSUME k # 1 PROVE Power[k - 1 + Mantissa] <= a
    <3>1. k - 1 \in 1 .. a + 1 /\ k - 1 + Mantissa \in Nat
      BY <1>1, <2>1, <2>2
    <3>2. k - 1 \notin S
      BY <1>1, <1>3, <2>1
    <3>3. ~ a < Power[k - 1 + Mantissa]
      BY <3>1, <3>2
    <3>4. Power[k - 1 + Mantissa] \in Nat
      BY <3>1, PowerType
    <3> QED BY <1>1, <3>3, <3>4
  <2> QED BY <2>1, <2>2 DEF HasUlp
<1>5. Ulp(x) = Power[CHOOSE j \in 1 .. a + 1 : HasUlp(x, j)]
  BY DEF Ulp, HasUlp
<1> HIDE DEF a, S
<1>6. PICK j \in 1 .. a + 1 : HasUlp(x, j) /\ Ulp(x) = Power[j]
  BY <1>4, <1>5
<1>7. j \in Nat \ {0}
  BY <1>1, <1>6
<1> QED BY <1>6, <1>7

LEMMA UlpType ==
  ASSUME NEW x \in Int
  PROVE  Ulp(x) \in Nat \ {0}
BY UlpIs, PowerType

LEMMA UlpAtMost ==
  ASSUME NEW x \in Int, NEW m \in Nat \ {0}, Abs(x) < Power[m + Mantissa]
  PROVE  Ulp(x) <= Power[m]
<1>1. PICK k \in Nat \ {0} : Ulp(x) = Power[k] /\ HasUlp(x, k)
  BY UlpIs
<1>2. Mantissa \in Nat /\ Abs(x) \in Nat
  BY FloatsAssumption, AbsType
<1>3. k <= m
  <2> SUFFICES ASSUME k > m PROVE FALSE
    BY <1>1
  <2>1. m + Mantissa \in Nat /\ k - 1 + Mantissa \in Nat /\ k # 1
        /\ m + Mantissa <= k - 1 + Mantissa
    BY <1>2
  <2>2. /\ Power[m + Mantissa] \in Nat /\ Power[k - 1 + Mantissa] \in Nat
        /\ Power[m + Mantissa] <= Power[k - 1 + Mantissa]
    BY <2>1, PowerType
  <2>3. Power[k - 1 + Mantissa] <= Abs(x)
    BY <1>1, <2>1 DEF HasUlp
  <2> QED BY <1>2, <2>2, <2>3
<1> QED BY <1>1, <1>3, PowerType

LEMMA UlpOnly ==
  ASSUME NEW x \in Int, NEW k \in Nat \ {0}, HasUlp(x, k)
  PROVE  Ulp(x) = Power[k]
<1>1. PICK j \in Nat \ {0} : Ulp(x) = Power[j] /\ HasUlp(x, j)
  BY UlpIs
<1>2. Mantissa \in Nat /\ Abs(x) \in Nat
  BY FloatsAssumption, AbsType
<1>3. ASSUME NEW m \in Nat \ {0}, NEW n \in Nat \ {0}, m < n, HasUlp(x, m), HasUlp(x, n)
      PROVE  FALSE
  <2>1. m + Mantissa \in Nat /\ n - 1 + Mantissa \in Nat /\ n # 1
        /\ m + Mantissa <= n - 1 + Mantissa
    BY <1>2, <1>3
  <2>2. /\ Power[m + Mantissa] \in Nat /\ Power[n - 1 + Mantissa] \in Nat
        /\ Power[m + Mantissa] <= Power[n - 1 + Mantissa]
    BY <2>1, PowerType
  <2>3. Power[n - 1 + Mantissa] <= Abs(x) /\ Abs(x) < Power[m + Mantissa]
    BY <1>3, <2>1 DEF HasUlp
  <2> QED BY <1>2, <2>2, <2>3
<1>4. j = k
  <2>1. ~ j < k /\ ~ k < j
    BY <1>1, <1>3
  <2> QED BY <2>1
<1> QED BY <1>1, <1>4

(* A sum is rounded by at most half the distance of floats, and not past   *)
(* a multiple of that distance.                                            *)
LEMMA NearestIs ==
  ASSUME NEW x \in Int
  PROVE  /\ Nearest(x) \in {(x \div Ulp(x)) * Ulp(x), (x \div Ulp(x)) * Ulp(x) + Ulp(x)}
         /\ Nearest(x) \in Int
         /\ 2 * (Nearest(x) - x) <= Ulp(x) /\ 2 * (x - Nearest(x)) <= Ulp(x)
         /\ \A p \in Int : /\ p * Ulp(x) <= x => p * Ulp(x) <= Nearest(x)
                           /\ x <= p * Ulp(x) => Nearest(x) <= p * Ulp(x)
<1> DEFINE u == Ulp(x)
           below == (x \div u) * u
           rest == 2 * (x - below)
<1>1. u \in Nat \ {0}
  BY UlpType
<1>2. Nearest(x) = IF rest < u \/ (rest = u /\ (below \div u) % 2 = 0) THEN below
                   ELSE below + u
  BY DEF Nearest
<1> HIDE DEF u
<1>3. /\ below \in Int /\ below <= x /\ x < below + u
      /\ \A p \in Int : /\ p * u \in Int
                        /\ p * u <= x => p * u <= below
                        /\ x < p * u => below + u <= p * u
  BY <1>1, MultiplesAround
<1> HIDE DEF below
<1>4. /\ Nearest(x) \in {below, below + u}
      /\ rest < u => Nearest(x) = below
      /\ Nearest(x) = below => rest <= u
  BY <1>1, <1>2, <1>3
<1>5. /\ Nearest(x) \in Int
      /\ 2 * (Nearest(x) - x) <= u /\ 2 * (x - Nearest(x)) <= u
  <2>1. CASE Nearest(x) = below
    BY <1>1, <1>3, <1>4, <2>1
  <2>2. CASE Nearest(x) = below + u
    <3>1. ~ rest < u
      BY <1>1, <1>3, <1>4, <2>2
    <3> QED BY <1>1, <1>3, <2>2, <3>1
  <2> QED BY <1>4, <2>1, <2>2
<1>6. ASSUME NEW p \in Int
      PROVE  /\ p * u <= x => p * u <= Nearest(x)
             /\ x <= p * u => Nearest(x) <= p * u
  <2>1. p * u \in Int
    BY <1>3
  <2>2. ASSUME p * u <= x PROVE p * u <= Nearest(x)
    BY <1>1, <1>3, <1>4, <2>1, <2>2
  <2>3. ASSUME x < p * u PROVE Nearest(x) <= p * u
    BY <1>1, <1>3, <1>4, <2>1, <2>3
  <2>4. ASSUME x = p * u PROVE Nearest(x) <= p * u
    <3>1. x = below
      BY <1>3, <2>1, <2>4
    <3> QED BY <1>1, <1>3, <1>4, <2>1, <2>4, <3>1
  <2> QED BY <2>1, <2>2, <2>3, <2>4
<1> QED BY <1>4, <1>5, <1>6 DEF below, u

(* No sum is rounded past a float c, a multiple of a distance of floats    *)
(* that has no more bits than the mantissa.                                *)
LEMMA NearestBeside ==
  ASSUME NEW k \in Nat \ {0}, NEW p \in Int, NEW c \in Int, c = p * Power[k],
         Abs(c) <= Power[k + Mantissa], NEW x \in Int
  PROVE  /\ c <= x => c <= Nearest(x)
         /\ x <= c => Nearest(x) <= c
<1>1. PICK j \in Nat \ {0} : Ulp(x) = Power[j] /\ HasUlp(x, j)
  BY UlpIs
<1>2. Mantissa \in Nat \ {0} /\ Power[k] \in Nat /\ Power[j] \in Nat
  BY FloatsAssumption, PowerType
<1>3. CASE j <= k
  <2>1. PICK q \in Nat \ {0} : Power[k] = q * Power[j]
    BY <1>3, PowerDivides
  <2>2. p * q \in Int /\ c = (p * q) * Power[j]
    BY <1>2, <2>1
  <2> QED BY <1>1, <2>2, NearestIs
<1>4. CASE k < j
  <2> DEFINE L == Power[j - 1 + Mantissa]
  <2>1. /\ j - 1 + Mantissa \in Nat /\ k + Mantissa \in Nat /\ j # 1
        /\ j <= j - 1 + Mantissa /\ k + Mantissa <= j - 1 + Mantissa
    BY <1>2, <1>4
  <2>2. L \in Nat /\ Power[k + Mantissa] \in Nat /\ Power[k + Mantissa] <= L
    BY <2>1, PowerType
  <2>3. L <= Abs(x)
    BY <1>1, <2>1 DEF HasUlp
  <2>4. PICK q \in Nat \ {0} : L = q * Power[j]
    BY <2>1, PowerDivides
  <2> HIDE DEF L
  <2>5. q \in Int /\ -q \in Int /\ -L = (-q) * Power[j]
    <3>1. q \in Int /\ Power[j] \in Int
      BY <1>2
    <3>2. -q \in Int /\ -(q * Power[j]) = (-q) * Power[j]
      BY <3>1, NegatedMultiple
    <3> QED BY <2>4, <3>1, <3>2
  <2>6. /\ L <= x => L <= Nearest(x)
        /\ x <= L => Nearest(x) <= L
    <3>1. L = q * Ulp(x)
      BY <1>1, <2>4
    <3> QED BY <2>5, <3>1, NearestIs
  <2>7. /\ -L <= x => -L <= Nearest(x)
        /\ x <= -L => Nearest(x) <= -L
    <3>1. -L = (-q) * Ulp(x)
      BY <1>1, <2>5
    <3> QED BY <2>5, <3>1, NearestIs
  <2>8. -L <= c /\ c <= L
    BY <2>2, AbsType
  <2>9. L <= x \/ x <= -L
    BY <2>2, <2>3, AbsType
  <2>10. Nearest(x) \in Int
    BY NearestIs
  <2>11. ASSUME c <= x PROVE c <= Nearest(x)
    <3>1. CASE L <= x
      BY <2>2, <2>6, <2>8, <2>10, <3>1
    <3>2. CASE x <= -L
      <4>1. x = c /\ x = -L
        BY <2>2, <2>8, <2>11, <3>2
      <4> QED BY <2>2, <2>7, <4>1
    <3> QED BY <2>9, <3>1, <3>2
  <2>12. ASSUME x <= c PROVE Nearest(x) <= c
    <3>1. CASE x <= -L
      BY <2>2, <2>7, <2>8, <2>10, <3>1
    <3>2. CASE L <= x
      <4>1. x = c /\ x = L
        BY <2>2, <2>8, <2>12, <3>2
      <4> QED BY <2>2, <2>6, <4>1
    <3> QED BY <2>9, <3>1, <3>2
  <2> QED BY <2>11, <2>12
<1> QED BY <1>3, <1>4

(* The floats next to an exact number that is none.                        *)
Beneath(e) == (e \div Ulp(e)) * Ulp(e)
Above(e) == Beneath(e) + Ulp(e)

LEMMA FloatsAround ==
  ASSUME NEW e \in Int
  PROVE  \E k \in Nat \ {0} :
           /\ Ulp(e) = Power[k]
           /\ Beneath(e) \in Int /\ Above(e) \in Int
           /\ Beneath(e) <= e /\ e < Above(e)
           /\ Abs(Beneath(e)) <= Power[k + Mantissa]
           /\ Abs(Above(e)) <= Power[k + Mantissa]
           /\ \E p \in Int : Beneath(e) = p * Power[k]
           /\ \E p \in Int : Above(e) = p * Power[k]
           /\ e # Beneath(e) =>
                \A y \in Int : Beneath(e) < y /\ y < Above(e) => HasUlp(y, k)
<1>1. PICK k \in Nat \ {0} : Ulp(e) = Power[k] /\ HasUlp(e, k)
  BY UlpIs
<1> DEFINE u == Power[k]
           b == (e \div u) * u
           P == Power[k + Mantissa]
<1>2. u \in Nat \ {0} /\ Mantissa \in Nat \ {0} /\ k + Mantissa \in Nat /\ k <= k + Mantissa
  BY PowerType, FloatsAssumption
<1>3. P \in Nat
  BY <1>2, PowerType
<1>4. Beneath(e) = b /\ Above(e) = b + u
  BY <1>1 DEF Beneath, Above
<1>5. PICK q \in Nat \ {0} : P = q * u
  BY <1>2, PowerDivides
<1>6. e \div u \in Int /\ b = (e \div u) * u /\ b + u = (e \div u + 1) * u /\ e \div u + 1 \in Int
  BY <1>2, MultiplesAround
<1> HIDE DEF u
<1>7. /\ b \in Int /\ b <= e /\ e < b + u
      /\ \A p \in Int : /\ p * u \in Int
                        /\ p * u <= e => p * u <= b
                        /\ e < p * u => b + u <= p * u
  BY <1>2, MultiplesAround
<1> HIDE DEF b, P
<1>8. -q \in Int /\ -P = (-q) * u
  BY <1>2, <1>5
<1>9. e < P /\ -P < e
  BY <1>1, <1>3, AbsType DEF HasUlp, P
<1>10. b + u <= P /\ -P <= b
  BY <1>3, <1>5, <1>7, <1>8, <1>9
<1>11. Abs(b) <= P /\ Abs(b + u) <= P
  BY <1>2, <1>3, <1>7, <1>10 DEF Abs
<1>12. ASSUME e # b, NEW y \in Int, b < y, y < b + u
       PROVE  HasUlp(y, k)
  <2>1. Abs(y) < P
    BY <1>2, <1>3, <1>7, <1>10, <1>12 DEF Abs
  <2>2. ASSUME k # 1 PROVE Power[k - 1 + Mantissa] <= Abs(y)
    <3> DEFINE L == Power[k - 1 + Mantissa]
    <3>1. k - 1 + Mantissa \in Nat /\ k <= k - 1 + Mantissa
      BY <1>2, <2>2
    <3>2. PICK r \in Nat \ {0} : L = r * u
      BY <3>1, PowerDivides DEF u
    <3>3. L \in Nat /\ -r \in Int /\ -L = (-r) * u
      BY <1>2, <3>1, <3>2, PowerType
    <3>4. L <= Abs(e)
      BY <1>1, <2>2 DEF HasUlp
    <3> HIDE DEF L
    <3>5. CASE L <= e
      <4>1. L <= b
        BY <1>7, <3>2, <3>5
      <4> QED BY <1>7, <1>12, <3>3, <4>1, AbsType DEF L
    <3>6. CASE e <= -L
      <4>1. e # -L
        <5> SUFFICES ASSUME e = -L PROVE FALSE
          OBVIOUS
        <5>1. -L <= b
          BY <1>7, <3>3
        <5> QED BY <1>7, <1>12, <3>3, <5>1
      <4>2. b + u <= -L
        BY <1>7, <3>3, <3>6, <4>1
      <4>3. y < -L
        BY <1>2, <1>7, <1>12, <3>3, <4>2
      <4>4. L <= Abs(y)
        BY <3>3, <4>3, AbsType
      <4> QED BY <4>4 DEF L
    <3>7. L <= e \/ e <= -L
      BY <3>3, <3>4, AbsType
    <3> QED BY <3>5, <3>6, <3>7
  <2> QED BY <2>1, <2>2 DEF HasUlp, P
<1>13. b + u \in Int
  BY <1>2, <1>7
<1> QED BY <1>1, <1>4, <1>6, <1>7, <1>11, <1>12, <1>13 DEF u, P

(* A nudge leads to the other float next to the exact number, beyond it,   *)
(* or back to where it was, if it is at most half as large as the distance *)
(* of these floats.                                                        *)
LEMMA NudgedUp ==
  ASSUME NEW e \in Int, e # Beneath(e), NEW n \in Nat \ {0},
         Nearest(Beneath(e) + n) < e
  PROVE  Nearest(Beneath(e) + n) = Beneath(e) /\ 2 * n <= Ulp(e)
<1> DEFINE y == Beneath(e) + n
<1>1. PICK k \in Nat \ {0} :
           /\ Ulp(e) = Power[k]
           /\ Beneath(e) \in Int /\ Above(e) \in Int
           /\ Beneath(e) <= e /\ e < Above(e)
           /\ Abs(Above(e)) <= Power[k + Mantissa]
           /\ \E p \in Int : Above(e) = p * Power[k]
           /\ \A z \in Int : Beneath(e) < z /\ z < Above(e) => HasUlp(z, k)
  BY FloatsAround
<1>2. y \in Int /\ Beneath(e) < y
  BY <1>1
<1> HIDE DEF y
<1>7. Nearest(y) \in Int
  BY <1>2, NearestIs
<1>3. y < Above(e)
  <2> SUFFICES ASSUME Above(e) <= y PROVE FALSE
    BY <1>1, <1>2
  <2>1. Above(e) <= Nearest(y)
    BY <1>1, <1>2, NearestBeside
  <2> QED BY <1>1, <1>2, <1>7, <2>1 DEF y
<1>4. Ulp(y) = Ulp(e)
  BY <1>1, <1>2, <1>3, UlpOnly
<1>5. Nearest(y) = Beneath(e)
  <2> DEFINE b == (y \div Ulp(e)) * Ulp(e)
  <2>1. Ulp(e) \in Nat \ {0} /\ e \div Ulp(e) \in Int
    BY UlpType, MultiplesAround
  <2>2. b = Beneath(e)
    <3>1. /\ b \in Int /\ b <= y /\ y < b + Ulp(e) /\ y \div Ulp(e) \in Int
          /\ Beneath(e) <= y => Beneath(e) <= b
      BY <1>2, <2>1, MultiplesAround DEF Beneath
    <3>2. b <= Beneath(e)
      <4>1. b < Beneath(e) + Ulp(e)
        BY <1>1, <1>2, <1>3, <2>1, <3>1 DEF Above
      <4> QED BY <2>1, <3>1, <4>1, MultiplesCompare DEF Beneath
    <3> HIDE DEF b
    <3> QED BY <1>1, <1>2, <3>1, <3>2
  <2>3. Nearest(y) \in {b, b + Ulp(e)}
    BY <1>2, <1>4, NearestIs
  <2>4. Nearest(y) # Above(e)
    BY <1>1, <1>2, <1>7 DEF y
  <2> QED BY <2>2, <2>3, <2>4 DEF Above
<1>6. 2 * (y - Nearest(y)) <= Ulp(y)
  BY <1>2, NearestIs
<1> QED BY <1>1, <1>4, <1>5, <1>6, UlpType DEF y

LEMMA NudgedDown ==
  ASSUME NEW e \in Int, e # Beneath(e), NEW n \in Nat \ {0},
         Nearest(Above(e) - n) > e
  PROVE  Nearest(Above(e) - n) = Above(e) /\ 2 * n <= Ulp(e)
<1> DEFINE y == Above(e) - n
<1>1. PICK k \in Nat \ {0} :
           /\ Ulp(e) = Power[k]
           /\ Beneath(e) \in Int /\ Above(e) \in Int
           /\ Beneath(e) <= e /\ e < Above(e)
           /\ Abs(Beneath(e)) <= Power[k + Mantissa]
           /\ \E p \in Int : Beneath(e) = p * Power[k]
           /\ \A z \in Int : Beneath(e) < z /\ z < Above(e) => HasUlp(z, k)
  BY FloatsAround
<1>2. y \in Int /\ y < Above(e)
  BY <1>1
<1> HIDE DEF y
<1>7. Nearest(y) \in Int
  BY <1>2, NearestIs
<1>3. Beneath(e) < y
  <2> SUFFICES ASSUME y <= Beneath(e) PROVE FALSE
    BY <1>1, <1>2
  <2>1. Nearest(y) <= Beneath(e)
    BY <1>1, <1>2, NearestBeside
  <2> QED BY <1>1, <1>2, <1>7, <2>1 DEF y
<1>4. Ulp(y) = Ulp(e)
  BY <1>1, <1>2, <1>3, UlpOnly
<1>5. Nearest(y) = Above(e)
  <2> DEFINE b == (y \div Ulp(e)) * Ulp(e)
  <2>1. Ulp(e) \in Nat \ {0} /\ e \div Ulp(e) \in Int
    BY UlpType, MultiplesAround
  <2>2. b = Beneath(e)
    <3>1. /\ b \in Int /\ b <= y /\ y < b + Ulp(e) /\ y \div Ulp(e) \in Int
          /\ Beneath(e) <= y => Beneath(e) <= b
      BY <1>2, <2>1, MultiplesAround DEF Beneath
    <3>2. b <= Beneath(e)
      <4>1. b < Beneath(e) + Ulp(e)
        BY <1>1, <1>2, <2>1, <3>1 DEF Above
      <4> QED BY <2>1, <3>1, <4>1, MultiplesCompare DEF Beneath
    <3> HIDE DEF b
    <3> QED BY <1>1, <1>2, <1>3, <3>1, <3>2
  <2>3. Nearest(y) \in {b, b + Ulp(e)}
    BY <1>2, <1>4, NearestIs
  <2>4. Nearest(y) # Beneath(e)
    BY <1>1, <1>2, <1>7 DEF y
  <2> QED BY <2>2, <2>3, <2>4 DEF Above
<1>6. 2 * (Nearest(y) - y) <= Ulp(y)
  BY <1>2, NearestIs
<1> QED BY <1>1, <1>4, <1>5, <1>6, UlpType DEF y

(* How far the result may be from the exact number.                        *)
Slack(e) == Max({FirstNudge, 10 * Ulp(e)}) + Max({Ulp(e), Ulp(FirstNudge)})

LEMMA LargerOf ==
  ASSUME NEW a \in Nat, NEW b \in Nat
  PROVE  Max({a, b}) \in Nat /\ a <= Max({a, b}) /\ b <= Max({a, b})
<1>1. \A x \in {a, b} : x <= a + b
  OBVIOUS
<1>2. {a, b} \in SUBSET Int /\ {a, b} # {} /\ a + b \in Int
  OBVIOUS
<1>3. Max({a, b}) \in {a, b} /\ \A x \in {a, b} : x <= Max({a, b})
  BY <1>1, <1>2, LargestIs
<1> QED BY <1>3

LEMMA SlackIs ==
  ASSUME NEW e \in Int
  PROVE  /\ Slack(e) \in Nat
         /\ 11 * Ulp(e) <= Slack(e)
         /\ FirstNudge + Ulp(e) <= Slack(e)
         /\ FirstNudge + Ulp(FirstNudge) <= Slack(e)
<1> DEFINE u == Ulp(e)
           f == Ulp(FirstNudge)
<1>1. FirstNudge \in Nat /\ FirstNudge \in Int
  BY FloatsAssumption
<1>2. u \in Nat /\ f \in Nat /\ 10 * u \in Nat
  BY <1>1, UlpType
<1> HIDE DEF u, f
<1>3. /\ Max({FirstNudge, 10 * u}) \in Nat
      /\ FirstNudge <= Max({FirstNudge, 10 * u}) /\ 10 * u <= Max({FirstNudge, 10 * u})
  BY <1>1, <1>2, LargerOf
<1>4. Max({u, f}) \in Nat /\ u <= Max({u, f}) /\ f <= Max({u, f})
  BY <1>2, LargerOf
<1>5. Slack(e) = Max({FirstNudge, 10 * u}) + Max({u, f})
  BY DEF Slack, u, f
<1> QED BY <1>1, <1>2, <1>3, <1>4, <1>5 DEF u, f

(* The last nudge n, and what its sum y is rounded by.                     *)
LEMMA LastNudge ==
  ASSUME NEW e \in Int, NEW c \in {Beneath(e), Above(e)},
         NEW n \in Nat, n = FirstNudge \/ n <= 5 * Ulp(e),
         NEW y \in {c + n, c - n}
  PROVE  Ulp(y) + 2 * n <= 2 * Slack(e)
<1>1. PICK k \in Nat \ {0} :
           /\ Ulp(e) = Power[k]
           /\ Beneath(e) \in Int /\ Above(e) \in Int
           /\ Abs(Beneath(e)) <= Power[k + Mantissa]
           /\ Abs(Above(e)) <= Power[k + Mantissa]
  BY FloatsAround
<1>2. /\ Mantissa \in Nat \ {0} /\ FirstNudge \in Int /\ FirstNudge \in Nat
      /\ Slack(e) \in Nat
  BY FloatsAssumption, SlackIs
<1>3. /\ c \in Int /\ y \in Int /\ Abs(c) <= Power[k + Mantissa]
  BY <1>1
<1>4. Abs(y) <= Power[k + Mantissa] + n
  <2>1. k + Mantissa \in Nat
    BY <1>2
  <2>2. Power[k + Mantissa] \in Nat
    BY <2>1, PowerType
  <2> QED BY <1>3, <2>2 DEF Abs
<1>5. Ulp(y) \in Nat
  BY <1>3, UlpType
<1>6. CASE n <= 5 * Ulp(e)
  <2>1. /\ k + Mantissa \in Nat /\ k + 1 \in Nat /\ k + 1 <= k + Mantissa
        /\ k + 1 + Mantissa \in Nat /\ k + 1 + Mantissa = (k + Mantissa) + 1
        /\ k + 2 + Mantissa = (k + 1 + Mantissa) + 1
        /\ k + 2 = (k + 1) + 1 /\ k + 2 \in Nat \ {0}
    BY <1>2
  <2>2. /\ Power[k] \in Nat \ {0} /\ Power[k + Mantissa] \in Nat
        /\ Power[k + 1] = 2 * Power[k] /\ Power[k + 2] = 2 * Power[k + 1]
        /\ Power[k + 1] <= Power[k + Mantissa]
        /\ Power[k + 1 + Mantissa] = 2 * Power[k + Mantissa]
        /\ Power[k + 2 + Mantissa] = 2 * Power[k + 1 + Mantissa]
    BY <2>1, PowerType
  <2>3. Abs(y) < Power[k + 2 + Mantissa]
    BY <1>1, <1>3, <1>4, <1>6, <2>2, AbsType
  <2>4. Ulp(y) <= Power[k + 2]
    BY <1>3, <2>1, <2>3, UlpAtMost
  <2>5. 11 * Ulp(e) <= Slack(e)
    BY SlackIs
  <2> QED BY <1>1, <1>2, <1>5, <1>6, <2>2, <2>4, <2>5
<1>7. CASE n = FirstNudge
  <2>1. PICK f \in Nat \ {0} : Ulp(n) = Power[f] /\ HasUlp(n, f)
    BY <1>2, <1>7, UlpIs
  <2>2. n < Power[f + Mantissa]
    BY <2>1, AbsType DEF HasUlp, Abs
  <2>3. PICK m \in {k, f} : k <= m /\ f <= m
    OBVIOUS
  <2>4. /\ k + Mantissa \in Nat /\ f + Mantissa \in Nat /\ m + Mantissa \in Nat
        /\ k + Mantissa <= m + Mantissa /\ f + Mantissa <= m + Mantissa
        /\ m + 1 + Mantissa = (m + Mantissa) + 1
        /\ m \in Nat /\ m + 1 \in Nat \ {0}
    BY <1>2, <2>3
  <2>5. /\ Power[k + Mantissa] \in Nat /\ Power[f + Mantissa] \in Nat
        /\ Power[m + Mantissa] \in Nat
        /\ Power[k + Mantissa] <= Power[m + Mantissa]
        /\ Power[f + Mantissa] <= Power[m + Mantissa]
        /\ Power[m + 1 + Mantissa] = 2 * Power[m + Mantissa]
        /\ Power[m + 1] = 2 * Power[m] /\ Power[m] \in Nat
    BY <2>4, PowerType
  <2>6. Abs(y) < Power[m + 1 + Mantissa]
    BY <1>3, <1>4, <2>2, <2>5, AbsType
  <2>7. Ulp(y) <= Power[m + 1]
    BY <1>3, <2>4, <2>6, UlpAtMost
  <2>8. n + Power[m] <= Slack(e)
    <3>1. n + Ulp(e) <= Slack(e) /\ n + Ulp(n) <= Slack(e)
      BY <1>7, SlackIs
    <3> QED BY <1>1, <2>1, <2>3, <3>1
  <2> QED BY <1>2, <1>5, <2>5, <2>7, <2>8
<1> QED BY <1>6, <1>7

-----------------------------------------------------------------------------
(* Rounding on one side of an exact number *)

(* Where the loop of to_float stands: beside the exact number, with a      *)
(* nudge that is the first or less than five floats, or done.              *)
Rounded ==
  \/ exact = Infinite /\ value = Infinite
  \/ ~ WrongSide /\ Abs(value - exact) <= Slack(exact)
Rounding ==
  /\ exact \in Int /\ exact # Infinite /\ exact # Beneath(exact)
  /\ value = IF call.up THEN Beneath(exact) ELSE Above(exact)
  /\ nudge \in Nat \ {0}
  /\ nudge = FirstNudge \/ nudge <= 5 * Ulp(exact)

RoundInv ==
  /\ phase = "round" => Rounded \/ Rounding
  /\ call.of = "bound" => phase \in {"round", "done"}
  /\ phase = "rounded" \/ (phase = "done" /\ call.of = "bound") => Rounded

LEMMA InitRounding == Init => RoundInv
<1> SUFFICES ASSUME Init PROVE RoundInv
  OBVIOUS
<1>1. phase = "round" /\ value \in Evaluated(exact) /\ nudge = FirstNudge
  BY DEF Init
<1>2. exact = Infinite \/ exact \in Int
  <2>1. \/ exact \in 1 .. MaxExact \/ exact \in (0 .. MaxExact) \cup {Infinite}
        \/ exact \in -MaxExact .. MaxExact
    BY DEF Init
  <2>2. MaxExact \in Int /\ -MaxExact \in Int
    BY FloatsAssumption
  <2> QED BY <2>1, <2>2
<1>3. CASE exact = Infinite
  BY <1>1, <1>3 DEF Evaluated, RoundInv, Rounded
<1>4. CASE exact \in Int /\ exact # Infinite
  <2>1. /\ Beneath(exact) \in Int /\ Above(exact) \in Int
        /\ Beneath(exact) <= exact /\ exact < Above(exact)
        /\ Ulp(exact) \in Nat \ {0} /\ Slack(exact) \in Nat
        /\ Ulp(exact) <= Slack(exact)
    <3>1. /\ Beneath(exact) \in Int /\ Above(exact) \in Int
          /\ Beneath(exact) <= exact /\ exact < Above(exact)
      BY <1>4, FloatsAround
    <3>2. Ulp(exact) \in Nat \ {0}
      BY <1>4, UlpType
    <3>3. Slack(exact) \in Nat /\ 11 * Ulp(exact) <= Slack(exact)
      BY <1>4, SlackIs
    <3> QED BY <3>1, <3>2, <3>3
  <2>2. CASE value = exact
    <3>1. ~ WrongSide
      BY <1>4, <2>2 DEF WrongSide
    <3>2. Abs(value - exact) <= Slack(exact)
      BY <1>4, <2>1, <2>2 DEF Abs
    <3> QED BY <1>1, <3>1, <3>2 DEF RoundInv, Rounded
  <2>3. CASE value # exact
    <3>1. value \in {Beneath(exact), Above(exact)} /\ exact # Beneath(exact)
      BY <1>1, <1>4, <2>3 DEF Evaluated, Beneath, Above
    <3>2. Abs(value - exact) <= Slack(exact)
      <4>1. value - exact <= Ulp(exact) /\ exact - value <= Ulp(exact)
        BY <1>4, <2>1, <3>1 DEF Above
      <4> QED BY <1>4, <2>1, <3>1, <4>1 DEF Abs
    <3>3. CASE ~ WrongSide
      BY <1>1, <3>2, <3>3 DEF RoundInv, Rounded
    <3>4. CASE WrongSide
      <4>1. value = IF call.up THEN Beneath(exact) ELSE Above(exact)
        BY <1>4, <2>1, <3>1, <3>4 DEF WrongSide
      <4>2. Rounding
        BY <1>1, <1>4, <3>1, <4>1, FloatsAssumption DEF Rounding
      <4> QED BY <1>1, <4>2 DEF RoundInv
    <3> QED BY <3>3, <3>4
  <2> QED BY <2>2, <2>3
<1> QED BY <1>2, <1>3, <1>4

LEMMA NudgeKeepsRounding ==
  ASSUME RoundInv, Nudge
  PROVE  RoundInv'
<1>1. /\ phase = "round" /\ WrongSide /\ phase' = phase /\ call' = call /\ exact' = exact
      /\ value' = Nearest(IF call.up THEN value + nudge ELSE value - nudge)
      /\ nudge' = 10 * nudge
  BY DEF Nudge
<1>2. Rounding
  BY <1>1 DEF RoundInv, Rounded, WrongSide
<1> DEFINE e == exact
           n == nudge
           c == IF call.up THEN Beneath(e) ELSE Above(e)
           y == IF call.up THEN c + n ELSE c - n
           N == Nearest(y)
<1>3. /\ e \in Int /\ e # Infinite /\ e # Beneath(e) /\ n \in Nat \ {0} /\ n \in Nat
      /\ n = FirstNudge \/ n <= 5 * Ulp(e)
  BY <1>2 DEF Rounding
<1>4. value' = N
  BY <1>1, <1>2 DEF Rounding
<1>5. /\ Beneath(e) \in Int /\ Above(e) \in Int
      /\ Beneath(e) <= e /\ e < Above(e)
  BY <1>3, FloatsAround
<1>6. c \in {Beneath(e), Above(e)} /\ c \in Int /\ y \in Int /\ y \in {c + n, c - n}
  BY <1>3, <1>5
<1>7. Ulp(y) + 2 * n <= 2 * Slack(e)
  BY <1>3, <1>6, LastNudge
<1>8. /\ N \in Int /\ 2 * (N - y) <= Ulp(y) /\ 2 * (y - N) <= Ulp(y)
      /\ Ulp(y) \in Nat /\ Slack(e) \in Nat
  BY <1>3, <1>6, NearestIs, UlpType, SlackIs
<1>9. CASE WrongSide'
  <2>1. CASE call.up
    <3>1. Nearest(Beneath(e) + n) < e
      BY <1>1, <1>3, <1>4, <1>9, <2>1 DEF WrongSide
    <3>2. N = Beneath(e) /\ 2 * n <= Ulp(e)
      BY <1>3, <2>1, <3>1, NudgedUp
    <3> QED BY <1>1, <1>2, <1>3, <1>4, <2>1, <3>2, UlpType DEF RoundInv, Rounding
  <2>2. CASE ~ call.up
    <3>1. Nearest(Above(e) - n) > e
      BY <1>1, <1>3, <1>4, <1>9, <2>2 DEF WrongSide
    <3>2. N = Above(e) /\ 2 * n <= Ulp(e)
      BY <1>3, <2>2, <3>1, NudgedDown
    <3> QED BY <1>1, <1>2, <1>3, <1>4, <2>2, <3>2, UlpType DEF RoundInv, Rounding
  <2> QED BY <2>1, <2>2
<1>10. CASE ~ WrongSide'
  <2>1. Abs(N - e) <= Slack(e)
    <3>1. CASE call.up
      <4>1. ~ N < e
        BY <1>1, <1>3, <1>4, <1>10, <3>1 DEF WrongSide
      <4>2. y = Beneath(e) + n
        BY <3>1
      <4> HIDE DEF N, y, c
      <4>3. 2 * (N - e) <= Ulp(y) + 2 * n
        BY <1>3, <1>5, <1>6, <1>8, <4>2
      <4> QED BY <1>3, <1>7, <1>8, <4>1, <4>3 DEF Abs
    <3>2. CASE ~ call.up
      <4>1. ~ N > e
        BY <1>1, <1>3, <1>4, <1>10, <3>2 DEF WrongSide
      <4>2. y = Above(e) - n
        BY <3>2
      <4> HIDE DEF N, y, c
      <4>3. 2 * (e - N) <= Ulp(y) + 2 * n
        BY <1>3, <1>5, <1>6, <1>8, <4>2
      <4> QED BY <1>3, <1>7, <1>8, <4>1, <4>3 DEF Abs
    <3> QED BY <3>1, <3>2
  <2>2. Rounded'
    BY <1>1, <1>4, <1>10, <2>1 DEF Rounded, Slack
  <2> QED BY <1>1, <2>2 DEF RoundInv
<1> QED BY <1>9, <1>10

LEMMA RoundingKeeps ==
  ASSUME RoundInv, [Next]_vars
  PROVE  RoundInv'
<1>1. CASE Nudge
  BY <1>1, NudgeKeepsRounding
<1>2. CASE ReturnFloat
  <2>1. /\ phase = "round" /\ ~ WrongSide /\ call' = call
        /\ phase' = (IF call.of = "bound" THEN "done" ELSE "rounded")
        /\ exact' = exact /\ value' = value
    BY <1>2 DEF ReturnFloat, rounding
  <2>2. Rounded
    <3> SUFFICES ASSUME Rounding PROVE Rounded
      BY <2>1 DEF RoundInv
    <3>1. /\ Beneath(exact) <= exact /\ exact < Above(exact) /\ exact # Beneath(exact)
          /\ exact \in Int /\ exact # Infinite /\ Beneath(exact) \in Int /\ Above(exact) \in Int
          /\ value = IF call.up THEN Beneath(exact) ELSE Above(exact)
      BY FloatsAround DEF Rounding
    <3>2. WrongSide
      BY <3>1 DEF WrongSide
    <3> QED BY <2>1, <3>2
  <2>3. Rounded'
    BY <2>1, <2>2 DEF Rounded, WrongSide, Slack
  <2> QED BY <2>1, <2>3 DEF RoundInv
<1>3. CASE UNCHANGED vars
  <2>1. phase' = phase /\ call' = call /\ exact' = exact /\ value' = value /\ nudge' = nudge
    BY <1>3 DEF vars
  <2>2. (Rounded => Rounded') /\ (Rounding => Rounding')
    BY <2>1 DEF Rounded, Rounding, WrongSide, Slack
  <2> QED BY <2>1, <2>2 DEF RoundInv
<1>4. CASE StartSelect \/ Select \/ StartDraw \/ Draw \/ Raise \/ StartDiscrete \/ Discrete
  <2>1. call' = call /\ phase \notin {"round", "done"}
    BY <1>4 DEF StartSelect, Select, StartDraw, Draw, Raise, StartDiscrete, Discrete,
                DiscreteStep, SlowGeometric, Sign, FastUniform, FastCoin, FastWhole, Laplace,
                Accept
  <2>2. phase' \notin {"round", "rounded"}
    BY <1>4 DEF StartSelect, Select, StartDraw, Draw, Raise, StartDiscrete, Discrete,
                StartInteger, DiscreteStep, SlowGeometric, Sign, FastUniform, FastCoin,
                FastWhole, Laplace, Accept, Again
  <2>3. call.of # "bound"
    BY <2>1 DEF RoundInv
  <2> QED BY <2>1, <2>2, <2>3 DEF RoundInv
<1> QED BY <1>1, <1>2, <1>3, <1>4 DEF Next

(* Whatever is rounded to a float ends on the side of the exact number     *)
(* that was asked for, within the first nudge or ten floats and what one   *)
(* sum is rounded by, for every mantissa and every first nudge: the loop   *)
(* of to_float increases its nudge tenfold, and only as long as adding it  *)
(* changes nothing.                                                        *)
THEOREM RoundsClosely == SamplerSpec => []RoundedClosely
<1>1. RoundInv /\ [Next]_vars => RoundInv'
  BY RoundingKeeps
<1>2. RoundInv => RoundedClosely
  BY DEF RoundInv, Rounded, RoundedClosely, Slack
<1> QED BY <1>1, <1>2, InitRounding, PTL DEF SamplerSpec

-----------------------------------------------------------------------------
(* All of a call *)

Outer == {"round", "rounded", "select", "draw", "done", "raised"}

NoiseInv ==
  \/ noise = NoNoise /\ phase \in Outer
  \/ DiscreteInv /\ phase # "rounded"

SelectInv ==
  /\ scores \in Seq({Unknown} \cup 0 .. 4)
  /\ beaten \in Int /\ Ahead(scores, beaten)
  /\ phase = "select" => Len(scores) \in 1 .. MaxIntervals
  /\ phase # "select" => beaten = -Far

EdgesInv == edges \subseteq -Error .. Part + Error

SamplerInv == NoiseInv /\ SelectInv /\ EdgesInv

LEMMA InitKeeps == Init => SamplerInv
<1> SUFFICES ASSUME Init PROVE SamplerInv
  OBVIOUS
<1>1. phase = "round" /\ noise = NoNoise /\ scores = <<>> /\ beaten = -Far /\ edges = {}
  BY DEF Init
<1>2. NoiseInv
  BY <1>1 DEF NoiseInv, Outer
<1>3. SelectInv
  BY <1>1 DEF SelectInv, Ahead, Far
<1> QED BY <1>1, <1>2, <1>3 DEF SamplerInv, EdgesInv

LEMMA SameNoise ==
  ASSUME NoiseInv, noise' = noise, phase' = phase
  PROVE  NoiseInv'
<1>1. DiscreteInv => DiscreteInv'
  BY DEF DiscreteInv, Typed, GeometricCost, LaplaceCost, DrawnAsClaimed, Candidate
<1> QED BY <1>1 DEF NoiseInv

(* The noise of a call that has not begun to draw integers.                *)
LEMMA OuterNoise ==
  ASSUME NoiseInv, noise' = noise, phase \in {"round", "rounded", "select", "draw"},
         phase' \in Outer
  PROVE  NoiseInv'
BY DEF NoiseInv, DiscreteInv, Typed, Phases

LEMMA SameScores ==
  ASSUME SelectInv, scores' = scores, beaten' = beaten,
         phase' = "select" <=> phase = "select"
  PROVE  SelectInv'
BY DEF SelectInv

LEMMA SamplerKeeps ==
  ASSUME SamplerInv, [Next]_vars
  PROVE  SamplerInv'
<1>1. NoiseInv /\ SelectInv /\ EdgesInv
  BY DEF SamplerInv
<1>2. CASE Nudge \/ UNCHANGED vars
  <2>1. /\ noise' = noise /\ phase' = phase /\ scores' = scores /\ beaten' = beaten
        /\ edges' = edges
    BY <1>2 DEF Nudge, vars, selecting, drawing
  <2> QED BY <1>1, <2>1, SameNoise, SameScores DEF SamplerInv, EdgesInv
<1>3. CASE ReturnFloat
  <2>1. /\ phase = "round" /\ phase' \in {"done", "rounded"} /\ noise' = noise
        /\ scores' = scores /\ beaten' = beaten /\ edges' = edges
    BY <1>3 DEF ReturnFloat, selecting, drawing
  <2>2. NoiseInv' /\ SelectInv'
    BY <1>1, <2>1, OuterNoise, SameScores DEF Outer
  <2> QED BY <1>1, <2>1, <2>2 DEF SamplerInv, EdgesInv
<1>4. CASE StartSelect
  <2>1. /\ phase = "rounded" /\ phase' = "select" /\ noise' = noise
        /\ beaten' = beaten /\ edges' = edges
    BY <1>4 DEF StartSelect, drawing
  <2>2. PICK n \in 1 .. MaxIntervals : scores' = [i \in 1 .. n |-> Unknown]
    BY <1>4 DEF StartSelect
  <2>3. scores' \in Seq({Unknown} \cup 0 .. 4) /\ Len(scores') = n
    BY <2>2, ScoresAssumption
  <2>4. SelectInv'
    BY <1>1, <2>1, <2>3 DEF SelectInv, Ahead
  <2>5. NoiseInv'
    BY <1>1, <2>1, OuterNoise DEF Outer
  <2> QED BY <1>1, <2>1, <2>4, <2>5 DEF SamplerInv, EdgesInv
<1>5. CASE Select
  <2>1. /\ phase = "select" /\ phase' = phase /\ noise' = noise /\ edges' = edges
        /\ Len(scores) > 1
    BY <1>5 DEF Select, drawing
  <2>2. PICK bits \in [DOMAIN scores -> Bits \cup {Unknown}] :
          /\ \A i \in DOMAIN scores : bits[i] = Unknown => scores[i] = Unknown
          /\ SelectRound([i \in DOMAIN scores |-> Refined(scores[i], bits[i])])
    BY <1>5 DEF Select
  <2> DEFINE ss == [i \in DOMAIN scores |-> Refined(scores[i], bits[i])]
  <2>3. /\ scores \in Seq({Unknown} \cup 0 .. 4) /\ beaten \in Int /\ Ahead(scores, beaten)
        /\ Len(scores) \in 1 .. MaxIntervals
    BY <1>1, <2>1 DEF SelectInv
  <2>4. /\ ss \in Seq(Score) /\ Len(ss) = Len(scores)
        /\ SelectStep * beaten \in Int /\ Leads(ss, SelectStep * beaten)
    BY <2>2, <2>3, RefinedLeads
  <2>5. SelectRound(ss)
    BY <2>2
  <2> HIDE DEF ss
  <2>6. /\ scores' \in Seq({Unknown} \cup 0 .. 4)
        /\ Len(scores') \in 1 .. Len(ss)
        /\ beaten' \in Int /\ Ahead(scores', beaten')
    <3>1. Len(ss) # 0
      BY <2>3, <2>4
    <3> QED BY <2>4, <2>5, <3>1, RoundEffect
  <2>7. Len(scores') \in 1 .. MaxIntervals
    BY <2>3, <2>4, <2>6, ScoresAssumption
  <2>8. SelectInv'
    BY <2>1, <2>6, <2>7 DEF SelectInv
  <2>9. NoiseInv'
    BY <1>1, <2>1, SameNoise
  <2> QED BY <1>1, <2>1, <2>8, <2>9 DEF SamplerInv, EdgesInv
<1>6. CASE StartDraw
  <2>1. /\ phase \in {"rounded", "select"} /\ phase' = "draw" /\ noise' = noise
        /\ scores' = <<>> /\ beaten' = -Far
    BY <1>6 DEF StartDraw
  <2>2. edges' \in SUBSET (0 .. Part)
    BY <1>6 DEF StartDraw
  <2>3. EdgesInv'
    BY <2>2 DEF EdgesInv, Part, Error
  <2>4. SelectInv'
    BY <2>1 DEF SelectInv, Ahead, Far
  <2>5. NoiseInv'
    BY <1>1, <2>1, OuterNoise DEF Outer
  <2> QED BY <2>3, <2>4, <2>5 DEF SamplerInv
<1>7. CASE Draw \/ Raise
  <2>1. /\ phase = "draw" /\ phase' \in {"done", "draw", "raised"} /\ noise' = noise
        /\ scores' = scores /\ beaten' = beaten
    BY <1>7 DEF Draw, Raise, selecting
  <2>2. EdgesInv'
    <3>1. CASE Raise
      BY <3>1 DEF Raise, EdgesInv
    <3>2. CASE Draw
      BY <3>2 DEF Draw, EdgesInv
    <3> QED BY <1>7, <3>1, <3>2
  <2>3. NoiseInv' /\ SelectInv'
    BY <1>1, <2>1, OuterNoise, SameScores DEF Outer
  <2> QED BY <2>2, <2>3 DEF SamplerInv
<1>8. CASE StartDiscrete
  <2>1. /\ phase = "rounded" /\ StartInteger /\ scores' = scores /\ beaten' = beaten
        /\ edges' = edges
    BY <1>8 DEF StartDiscrete, selecting
  <2>2. phase' \in {"first", "sign"}
    BY <2>1 DEF StartInteger
  <2>3. DiscreteInit
    BY <1>1, <2>1 DEF NoiseInv, DiscreteInit
  <2>4. DiscreteInv'
    BY <2>1, <2>3, DiscreteStart, StartKeeps
  <2>5. NoiseInv' /\ SelectInv'
    BY <1>1, <2>1, <2>2, <2>4, SameScores DEF NoiseInv
  <2> QED BY <1>1, <2>1, <2>5 DEF SamplerInv, EdgesInv
<1>9. CASE Discrete
  <2>1. DiscreteStep /\ scores' = scores /\ beaten' = beaten /\ edges' = edges
    BY <1>9 DEF Discrete, selecting
  <2>2. /\ phase \in Phases \ {"rounded", "done"}
        /\ phase' \in Phases \ {"rounded"}
    BY <2>1 DEF DiscreteStep, SlowGeometric, Sign, FastUniform, FastCoin, FastWhole, Laplace,
                Accept, Again, Phases
  <2>3. DiscreteInv
    BY <1>1, <2>2 DEF NoiseInv, Outer, Phases
  <2>4. DiscreteInv'
    BY <2>1, <2>3, DiscreteKeeps
  <2>5. NoiseInv'
    BY <2>2, <2>4 DEF NoiseInv
  <2>6. SelectInv'
    BY <1>1, <2>1, <2>2, SameScores DEF Phases
  <2> QED BY <1>1, <2>1, <2>5, <2>6 DEF SamplerInv, EdgesInv
<1> QED
  BY <1>2, <1>3, <1>4, <1>5, <1>6, <1>7, <1>8, <1>9 DEF Next

LEMMA SamplerSafety == SamplerSpec => []SamplerInv
<1>1. SamplerInv /\ [Next]_vars => SamplerInv'
  BY SamplerKeeps
<1> QED BY <1>1, InitKeeps, PTL DEF SamplerSpec

(* The selection of an interval never runs out of intervals: at least one  *)
(* is left in each round (assert len(intervals) == 1 in the end), and the  *)
(* scores that are left are within four errors of each other, for any      *)
(* number of intervals and of random bits per round.                       *)
THEOREM SamplerType == SamplerSpec => []SamplerTypeOK
<1>1. SamplerInv => SamplerTypeOK
  <2> SUFFICES ASSUME SamplerInv PROVE SamplerTypeOK
    OBVIOUS
  <2>1. NoiseInv /\ SelectInv /\ EdgesInv
    BY DEF SamplerInv
  <2>2. phase \in Outer \cup Phases
    BY <2>1 DEF NoiseInv, DiscreteInv, Typed
  <2>3. \A i \in DOMAIN scores : scores[i] \in {Unknown} \cup 0 .. 4
    BY <2>1 DEF SelectInv
  <2>4. phase = "select" => Len(scores) \in 1 .. MaxIntervals
    BY <2>1 DEF SelectInv
  <2> QED BY <2>1, <2>2, <2>3, <2>4 DEF SamplerTypeOK, EdgesInv, Outer, Phases
<1> QED BY <1>1, SamplerSafety, PTL

(* An interval is eliminated only if one that remains is ahead of it,      *)
(* whatever random bits follow: what one round decides no later round      *)
(* takes back.                                                             *)
THEOREM WinnerSafety == SamplerSpec => []WinnerStands
<1>1. SamplerInv => WinnerStands
  <2> SUFFICES ASSUME SamplerInv, phase = "select", beaten > -Far
               PROVE  \E i \in DOMAIN scores : Low(scores[i]) > beaten
    BY DEF WinnerStands
  <2>1. /\ scores \in Seq({Unknown} \cup 0 .. 4) /\ beaten \in Int
        /\ Ahead(scores, beaten)
    BY DEF SamplerInv, SelectInv
  <2>2. beaten # -Far
    BY <2>1 DEF Far
  <2>3. PICK i \in 1 .. Len(scores) : scores[i] # Unknown /\ scores[i] - 1 > beaten
    BY <2>1, <2>2 DEF Ahead
  <2>4. i \in DOMAIN scores /\ Low(scores[i]) = scores[i] - 1
    BY <2>1, <2>3 DEF Low
  <2> QED BY <2>3, <2>4
<1> QED BY <1>1, SamplerSafety, PTL

(* Integer noise has the cost its mechanism claims also as part of a call. *)
THEOREM CallsDrawAsClaimed == SamplerSpec => []DrawnAsClaimed
<1>1. SamplerInv => DrawnAsClaimed
  BY DEF SamplerInv, NoiseInv, DiscreteInv, DrawnAsClaimed
<1> QED BY <1>1, SamplerSafety, PTL
=============================================================================
