----------------------------- MODULE Truncation -----------------------------
(***************************************************************************)
(* Truncation (utils/truncation.py) on sets.  The members of a set are the *)
(* rows of a table, numbered to tell equal ones apart, or the keys in it;  *)
(* group[x] is the group of x and rank[x] its place in the order of the    *)
(* hashes.  Both depend on x alone, whatever else is in the set.           *)
(***************************************************************************)
EXTENDS Integers, FiniteSets

(* The members of S that come up to x in its partition: x is their last.   *)
UpTo(S, group, rank, x) ==
  {y \in S : group[y] = group[x] /\ rank[y] <= rank[x]}

(* row_number() of x in its partition; dense_rank(), if S is a set of keys.*)
Place(S, group, rank, x) == Cardinality(UpTo(S, group, rank, x))

Kept(S, group, threshold, rank) ==
  {x \in S : Place(S, group, rank, x) <= threshold}
=============================================================================
