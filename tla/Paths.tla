-------------------------------- MODULE Paths --------------------------------
(***************************************************************************)
(* The names of queryables.  The queryable a SequentialComposition returns *)
(* is <<>>, and the n-th answer of the queryable p is Append(p, n).  The   *)
(* tree is bounded by MaxDepth and by MaxFan answers of one queryable.     *)
(***************************************************************************)
EXTENDS Integers, Sequences

CONSTANTS MaxDepth, MaxFan

ASSUME DepthAssumption == MaxDepth \in Nat
ASSUME FanAssumption == MaxFan \in Nat

Path == UNION {[1 .. n -> 1 .. MaxFan] : n \in 0 .. MaxDepth}

Root == <<>>

(* x is p or was obtained, directly or not, from p.                        *)
Below(x, p) == Len(p) <= Len(x) /\ \A i \in 1 .. Len(p) : x[i] = p[i]

StrictlyBelow(x, p) == Below(x, p) /\ x # p
=============================================================================
