------------------------ MODULE MCPrivacyAccountant ------------------------
(* Small instances of PrivacyAccountant, over pure DP.                     *)
EXTENDS PrivacyAccountant

Eps(e) == [eps |-> e, delta |-> 0]

Keep == [d \in Dist |-> d]
Double == [d \in Dist |-> IF 2 * d <= MaxDist THEN 2 * d ELSE MaxDist]

Transform(from, to, stab, fn) ==
  [in |-> from, out |-> to, stab |-> stab, fn |-> fn]

Count(type) ==
  [kind |-> "answer", in |-> type, loss |-> [d \in Dist |-> Eps(d)], fn |-> TRUE]

MCTypes == {"table", "rows"}
Composition(b) ==
  [kind |-> "sequential", in |-> "table", dIn |-> 1, budget |-> Eps(b)]
NestedRoots == {Composition(2)}
QueuedRoots == {Composition(1)}
NestedMeasurements == {Count("table")}
QueuedMeasurements == {Count("table")}
MCSplitBudgets == {Eps(1)}
NoLossHints == {None}
OnlyNone == {None}

PartitionInTwo == [t |-> Transform("table", "rows", Keep, TRUE), size |-> 2]

(* Nested: splits of splits.  Every transformation has a stability         *)
(* function and no d_out is given.                                         *)
NestedTransformations == {Transform("rows", "table", Double, TRUE)}
NestedSplits == {PartitionInTwo}

(* Queued: one generation of children, with transformations that have only *)
(* a stability relation, d_outs that are enough and d_outs that are not.   *)
QueuedTransformations ==
  {Transform("rows", "table", Keep, TRUE), Transform("table", "table", Double, FALSE),
   Transform("table", "table", Double, TRUE)}
QueuedSplits ==
  {[t |-> Transform("table", "rows", Keep, FALSE), size |-> 1], PartitionInTwo}
QueuedDistHints == {None, 1, 2}
QueuedLossHints == {None}
=============================================================================
