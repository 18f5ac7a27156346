----------------------- MODULE MCTableTransformations -----------------------
(* Small instances of TableTransformations.                                *)
EXTENDS TableTransformations

Ints(allows) == Column("int", allows)

(* A tag for each row, by its value of g; two or no rows for some; a row   *)
(* that replaces the old one.                                              *)
Tag == [name |-> "tag", augment |-> TRUE, single |-> TRUE,
        columns |-> [t |-> Ints({})]]
Tags == [name |-> "tags", augment |-> TRUE, single |-> FALSE,
         columns |-> [t |-> Ints({Null})]]
Forget == [name |-> "forget", augment |-> FALSE, single |-> TRUE,
           columns |-> [t |-> Ints({})]]
Cell(r) == IF \E c \in DOMAIN r : r[c] = "1" THEN "1" ELSE "0"
MCRowsOf(t, r) ==
  CASE t.name = "tags" ->
         IF Cell(r) = "0" THEN << >>
         ELSE <<[t |-> "0"], [t |-> "0"], [t |-> Null]>>
    [] OTHER -> <<[t |-> Cell(r)]>>

(* Whether a group has one row or more; all rows without their columns.    *)
Size == [name |-> "size", columns |-> [t |-> Ints({})]]
Each == [name |-> "each", columns |-> [t |-> Ints({})]]
MCRowsOfGroup(t, T) ==
  IF t.name = "size"
  THEN SetToBag({[t |-> IF BagCardinality(T) = 1 THEN "1" ELSE "0"]})
  ELSE Mapped(T, LAMBDA r : [t |-> "0"])

MCRowTransformers == {Tag, Tags, Forget}
MCGroupTransformers == {Size, Each}

Input(s, m, d) == [schema |-> s, metric |-> m, apart |-> d]
Keyed == [g |-> Ints({}), k |-> Ints({Null})]
Measured == [g |-> Ints({}), v |-> Column("float", {NaN, "inf"})]

MCInputs ==
  {Input(Keyed, SymmetricDifference, 1),
   Input(Keyed, IfGroupedBy({"g"}), 1),
   Input(Keyed, IfGroupedByAgg({"k"}, "sum", {"g"}), 4),
   Input(Keyed, IfGroupedByAgg({"k"}, "l2", {"g"}), 2),
   Input(Keyed, IfGroupedByAgg({"k"}, "l2", {}), 2),
   Input(Keyed, HammingDistance, 1),
   Input(Measured, SymmetricDifference, 1),
   Input(Measured, IfGroupedByAgg({"g"}, "sum", {}), 1)}

Public(s, rows) == [schema |-> s, rows |-> rows]
MCPublicTables ==
  {Public([k |-> Ints({Null}), p |-> Ints({Null})],
          [r \in {[k |-> "0", p |-> "0"], [k |-> "0", p |-> "1"],
                  [k |-> Null, p |-> Null]} |->
             IF r.k = Null THEN 3 ELSE 1]),
   Public([g |-> Ints({}), k |-> Ints({Null})],
          SetToBag({[g |-> "1", k |-> Null], [g |-> "1", k |-> "0"]}))}

(* Instances for single transformations: a public table without rows, and  *)
(* groups within groups, with a further column to partition by.            *)
NoRows == {Public([k |-> Ints({Null}), p |-> Ints({Null})], EmptyBag)}
OneInput == {Input(Keyed, SymmetricDifference, 1)}
NestedInput ==
  {Input(Extended(Keyed, [h |-> Ints({})]), IfGroupedByAgg({"k"}, "sum", {"g"}), 1)}
Bits == {"0", "1"}

(* The functions above return rows that pass the check.                    *)
ASSUME UserFunctionsAssumption ==
  \A in \in Inputs : \A T \in TablesIn(in.schema) :
    /\ \A t \in RowTransformers : \A r \in BagToSet(T) : RowsAsAnnounced(t, r)
    /\ \A t \in GroupTransformers : GroupAsAnnounced(t, T)
    /\ \A x \in Copies(T) : ToString(x) \notin Special
=============================================================================
