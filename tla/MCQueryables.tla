---------------------------- MODULE MCQueryables ----------------------------
(* Small instances of Queryables.                                          *)
EXTENDS Queryables

Eps(e) == [eps |-> e, delta |-> 0]
EpsDelta(e, d) == [eps |-> e, delta |-> d]

(* Distances 0 .. 2.  `filter' keeps them, `double' doubles them,          *)
(* `opaque' doubles them too but has only a stability relation.            *)
Keep == [d \in Dist |-> d]
Double == [d \in Dist |-> IF 2 * d <= MaxDist THEN 2 * d ELSE MaxDist]

Filter == [in |-> "table", out |-> "table", stab |-> Keep, fn |-> TRUE]
FlatMap == [in |-> "table", out |-> "table", stab |-> Double, fn |-> TRUE]
Opaque == [in |-> "table", out |-> "table", stab |-> Double, fn |-> FALSE]
Cast == [in |-> "table", out |-> "rows", stab |-> Double, fn |-> TRUE]

Partition == [in |-> "table", out |-> "rows", stab |-> Keep, fn |-> TRUE]

Count(type) ==
  [kind |-> "answer", in |-> type, loss |-> [d \in Dist |-> Eps(d)], fn |-> TRUE]
OpaqueCount(type) ==
  [kind |-> "answer", in |-> type, loss |-> [d \in Dist |-> Eps(d)], fn |-> FALSE]
Gaussian(type) ==
  [kind |-> "answer", in |-> type,
   loss |-> [d \in Dist |-> EpsDelta(d, IF d = 0 THEN 0 ELSE 1)], fn |-> TRUE]

Compose(type, d, b) ==
  [kind |-> "sequential", in |-> type, dIn |-> d, budget |-> b]

Split(t, parts) == [kind |-> "parallel", in |-> t.in, t |-> t, parts |-> parts]

-----------------------------------------------------------------------------
MCTypes == {"table", "rows"}

OnlyNone == {None}

(* Accounting: approximate DP with finite and infinite budgets, explicit   *)
(* d_outs, and transformations without a stability function.               *)
AccountingTransformations == {FlatMap, Opaque}
AccountingMeasurements ==
  {Gaussian("table"), OpaqueCount("table"), Gaussian("rows"),
   Compose("rows", 1, EpsDelta(1, 1)), Compose("table", 2, EpsDelta(2, 1)),
   Split(Partition, <<Compose("rows", 1, EpsDelta(1, 1)), Gaussian("rows")>>)}
AccountingRoots ==
  {Compose("table", 1, EpsDelta(3, 2)), Compose("rows", 1, EpsDelta(0, DeltaOne))}
AccountingDistHints == {None, 0, 1, 2}
AccountingLossHints == {None, EpsDelta(1, 0), EpsDelta(2, 1)}

(* The smallest instance with a transformation whose stability cannot be   *)
(* told.                                                                   *)
TornTransformations == {Opaque}
TornMeasurements == {Count("table")}
TornRoots == {Compose("table", 1, Eps(1))}
=============================================================================
