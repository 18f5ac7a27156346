------------------------ MODULE MCTableDictionaries ------------------------
(* A small instance of TableDictionaries.                                  *)
EXTENDS TableDictionaries

Ints(allows) == Column("int", allows)
Bits == {"0", "1"}

(* A tag by the value of x, or none; the number of rows of a key.          *)
Tag == [name |-> "tag", augment |-> TRUE, single |-> TRUE,
        columns |-> [t |-> Ints({})]]
Tags == [name |-> "tags", augment |-> TRUE, single |-> FALSE,
         columns |-> [t |-> Ints({})]]
Cell(r) == IF \E c \in DOMAIN r : r[c] = "1" THEN "1" ELSE "0"
MCRowsOf(t, r) ==
  IF t.name = "tag" THEN <<[t |-> Cell(r)]>>
  ELSE IF Cell(r) = "0" THEN << >> ELSE <<[t |-> "0"], [t |-> "1"]>>
Size == [name |-> "size", columns |-> [t |-> Ints({})]]
MCRowsOfGroup(t, T) ==
  SetToBag({[t |-> IF BagCardinality(T) = 1 THEN "1" ELSE "0"]})
MCRowTransformers == {Tag, Tags}
MCGroupTransformers == {Size}

Input(s, m, d) == [schema |-> s, metric |-> m, apart |-> d]
ById == IfGroupedBy({"id"})
Valued == [id |-> Ints({}), x |-> Column("float", {Null, NaN, "inf"})]
Keyed == [id |-> Ints({}), x |-> Ints({})]
MCInputs == {Input([id |-> Ints({})], ById, 1),
             Input([id |-> Ints({})], SymmetricDifference, 1)}

Of(s, m, n) == [schema |-> s, metric |-> m, rows |-> n]
DictInput(tables, o, d, n) ==
  [tables |-> tables, over |-> o, apart |-> d, room |-> n]
Nullable == [id |-> Ints({Null}), x |-> Ints({})]
Ids(rows) == Of([id |-> Ints({Null})], SymmetricDifference, rows)
MCDictInputs ==
  {DictInput([a |-> Of(Nullable, ById, 1), b |-> Of(Nullable, ById, 1)], "keys", 4, 3),
   DictInput([a |-> Of(Keyed, ById, 1), b |-> Of(Keyed, IfGroupedBy({"x"}), 1)], "keys", 4, 1),
   DictInput([a |-> Of(Valued, ById, 2)], "keys", 1, 3),
   DictInput([a |-> Of(Keyed, SymmetricDifference, 2),
              b |-> Of([id |-> Ints({})], SymmetricDifference, 2)], "values", 1, 1),
   DictInput([a |-> Ids(1), b |-> Ids(1)], "values", 1, 3)}

MCStrategies ==
  {[name |-> "truncate", threshold |-> n] : n \in 0 .. 2}
    \cup {[name |-> "drop", threshold |-> n] : n \in 0 .. 2}
    \cup {[name |-> "none", threshold |-> Infinite]}

MCPublicTables ==
  {[schema |-> [id |-> Ints({}), p |-> Ints({})],
    rows |-> [r \in {[id |-> "0", p |-> "0"], [id |-> "0", p |-> "1"]} |-> 1]]}

(* The functions above return rows that pass the check.                    *)
ASSUME UserFunctionsAssumption ==
  \A in \in Inputs : \A T \in TablesIn(in.schema) :
    /\ \A t \in RowTransformers : \A r \in BagToSet(T) : RowsAsAnnounced(t, r)
    /\ \A t \in GroupTransformers : GroupAsAnnounced(t, T)
    /\ \A x \in Copies(T) : ToString(x) \notin Special
=============================================================================
