------------------------- MODULE TableDictionaries -------------------------
(***************************************************************************)
(* Chains through dictionaries of tables (transformations/dictionary.py,   *)
(* spark_transformations/add_remove_keys.py, PrivateJoin and               *)
(* PrivateJoinOnKey), followed on two neighbouring dictionaries.           *)
(*                                                                         *)
(* A chain ends at a table, the one in hand, or at a dictionary; `dict'    *)
(* gives each key its table on both sides with schema, metric and bound.   *)
(* Under DictMetric (`over' = "values") every table has a metric and a     *)
(* distance of its own; under AddRemoveKeys ("keys") the metric of each is *)
(* that of its key column, and all have the one bound of the dictionary.   *)
(*                                                                         *)
(* A transformation of one value is made first, as a chain that GetValue   *)
(* begins (`from' is the key), and then given to the constructor of the    *)
(* transformation of the dictionary.                                       *)
(***************************************************************************)
EXTENDS TableTransformations

CONSTANTS
  DictInputs,            \* what chains begin with: schemas and metrics of the
                         \* tables, and their numbers of rows
  DictKeys, NoKey,       \* keys, and what is none
  Strategies,            \* truncation strategies PrivateJoin is given
  MaxChain               \* bound: transformations in a chain that begins with a
                         \* table; those with a dictionary have bounds of their own

VARIABLES dict, over, from, room
chainVars == <<schema, metric, left, right, bound, steps>>
allVars == <<chainVars, dict, over, from, room>>

AtDict == dict # <<>> /\ from = NoKey
Entry(s, m, l, r, d) ==
  [schema |-> s, metric |-> m, left |-> l, right |-> r, bound |-> d]
InHand == Entry(schema, metric, left, right, bound)
NothingInHand == Entry(<<>>, SymmetricDifference, One(EmptyBag), One(EmptyBag), 0)
Hold(e) ==
  /\ schema' = e.schema
  /\ metric' = e.metric
  /\ left' = e.left
  /\ right' = e.right
  /\ bound' = e.bound
  /\ steps' = 0

IsKeyMetric(m) == m.by = {} /\ Cardinality(m.each) = 1 /\ m.base = "rows"
KeyColumn(e) == CHOOSE c \in e.metric.each : TRUE

(* AddRemoveKeys.supports_domain.                                          *)
SupportsKeys(d) ==
  \A k \in DOMAIN d :
    /\ IsKeyMetric(d[k].metric)
    /\ KeyColumn(d[k]) \in DOMAIN d[k].schema
    /\ d[k].schema[KeyColumn(d[k])].kind # "float"
    /\ \A j \in DOMAIN d :
         d[j].schema[KeyColumn(d[j])] = d[k].schema[KeyColumn(d[k])]

(* The rows of a key in a table; the keys of all tables.                   *)
RowsOfKey(T, c, v) == Where(T, LAMBDA r : r[c] = v)
LeftKeys(d) ==
  UNION {{r[KeyColumn(d[k])] : r \in BagToSet(d[k].left[<<>>])} : k \in DOMAIN d}
RightKeys(d) ==
  UNION {{r[KeyColumn(d[k])] : r \in BagToSet(d[k].right[<<>>])} : k \in DOMAIN d}
KeyDiffers(d, v) ==
  \E k \in DOMAIN d :
    RowsOfKey(d[k].left[<<>>], KeyColumn(d[k]), v)
      # RowsOfKey(d[k].right[<<>>], KeyColumn(d[k]), v)

(* AddRemoveKeys.distance: a key that one side does not have in any table  *)
(* counts once, one that both have, but not with the same rows, twice.     *)
KeysApart(d) ==
  LET both == LeftKeys(d) \cap RightKeys(d)
  IN Cardinality((LeftKeys(d) \cup RightKeys(d)) \ both)
       + 2 * Cardinality({v \in both : KeyDiffers(d, v)})

ASSUME DictInputsAssumption ==
  \A in \in DictInputs :
    /\ in.over \in {"values", "keys"}
    /\ DOMAIN in.tables \subseteq DictKeys /\ DOMAIN in.tables # {}
    /\ IsFiniteSet(DOMAIN in.tables)
    /\ \A k \in DOMAIN in.tables :
         /\ IsSchema(in.tables[k].schema)
         /\ IsMetric(in.tables[k].metric) /\ in.tables[k].metric.over = "table"
         /\ SupportsDomain(in.tables[k].metric, in.tables[k].schema)
    /\ in.over = "keys" => SupportsKeys(in.tables)
ASSUME NoKeyAssumption == NoKey \notin DictKeys
ASSUME StrategiesAssumption ==
  \A s \in Strategies : s.threshold \in Nat \cup {Infinite}

-----------------------------------------------------------------------------
TablesOf(in) ==
  LET tables(k) == {T \in TablesIn(in.tables[k].schema) :
                      NumRows(T) <= in.tables[k].rows}
  IN {T \in [DOMAIN in.tables -> UNION {tables(k) : k \in DOMAIN in.tables}] :
        \A k \in DOMAIN T : T[k] \in tables(k)}
Neighbours(in, L, R) ==
  [k \in DOMAIN in.tables |->
     LET m == in.tables[k].metric
     IN Entry(in.tables[k].schema, m, One(L[k]), One(R[k]),
              Distance(m, One(L[k]), One(R[k])))]

DictInit ==
  /\ from = NoKey
  /\ \/ /\ Init
        /\ dict = <<>>
        /\ over = "values"
        /\ room = MaxChain
     \/ \E in \in DictInputs : \E L, R \in TablesOf(in) :
          LET d == Neighbours(in, L, R)
              all == Square(KeysApart(d))
          IN /\ over = in.over
             /\ room = in.room
             /\ dict = IF over = "values" THEN d
                       ELSE [k \in DOMAIN d |-> [d[k] EXCEPT !.bound = all]]
             /\ \A k \in DOMAIN d : dict[k].bound \in 0 .. in.apart
             /\ schema = <<>>
             /\ metric = SymmetricDifference
             /\ left = One(EmptyBag)
             /\ right = One(EmptyBag)
             /\ bound = 0
             /\ steps = 0

DictTypeOK ==
  /\ TypeOK
  /\ over \in {"values", "keys"}
  /\ DOMAIN dict \subseteq DictKeys
  /\ from \in DOMAIN dict \cup {NoKey}
  /\ \A k \in DOMAIN dict : SupportsDomain(dict[k].metric, dict[k].schema)
  /\ over = "keys" =>
       /\ SupportsKeys(dict)
       /\ Cardinality({dict[k].bound : k \in DOMAIN dict}) = 1

Longer ==
  /\ room > 0
  /\ room' = room - 1

(* Mutant: whether the metric supports the domain is not asked.            *)
EndAtAny(d, o) ==
  /\ Longer
  /\ dict' = d
  /\ over' = o
  /\ from' = NoKey
  /\ Hold(NothingInHand)

(* The chain now ends at the dictionary d.                                 *)
EndAt(d, o) ==
  /\ Longer
  /\ o = "keys" => SupportsKeys(d)
  /\ dict' = d
  /\ over' = o
  /\ from' = NoKey
  /\ Hold(NothingInHand)

(* The chain goes on at the table e, and no longer needs the dictionary.   *)
LeaveFor(e) ==
  /\ Longer
  /\ dict' = <<>>
  /\ over' = "values"
  /\ from' = NoKey
  /\ Hold(e)

-----------------------------------------------------------------------------
(* Dictionaries (transformations/dictionary.py).                           *)
CreateDictFromValue ==
  /\ dict = <<>>
  /\ metric.over = "table"
  /\ \E key \in DictKeys, useAddRemoveKeys \in BOOLEAN :
       /\ useAddRemoveKeys => IsKeyMetric(metric)
       /\ EndAt(Only(key, InHand), IF useAddRemoveKeys THEN "keys" ELSE "values")

GetValue ==
  /\ AtDict
  /\ Longer
  /\ \E key \in DOMAIN dict :
       /\ from' = key
       /\ Hold(dict[key])
  /\ UNCHANGED <<dict, over>>

Subset ==
  /\ AtDict
  /\ \E keys \in (SUBSET DOMAIN dict) \ {{}} : EndAt(Restrict(dict, keys), over)

(* AugmentDictTransformation: of a transformation that makes the tables d. *)
Augmented(d) == Extended(dict, d)

(* create_copy_and_transform_value augments by GetValue, the chain in hand *)
(* and CreateDictFromValue.                                                *)
CopyAndTransformValue ==
  /\ from # NoKey
  /\ over = "values"
  /\ \E new \in DictKeys \ DOMAIN dict : EndAt(Augmented(Only(new, InHand)), over)

(* Mutant: the domain of the key stays what it was.                        *)
TransformInPlaceOnly ==
  /\ from # NoKey
  /\ over = "values"
  /\ EndAt([dict EXCEPT ![from] = [InHand EXCEPT !.schema = dict[from].schema]], over)

(* create_transform_value.                                                 *)
TransformInPlace ==
  /\ from # NoKey
  /\ over = "values"
  /\ EndAt([dict EXCEPT ![from] = InHand], over)

RenameKey ==                  \* create_rename
  /\ AtDict
  /\ over = "values"
  /\ \E key \in DOMAIN dict, new \in DictKeys \ DOMAIN dict :
       EndAt(Extended(Restrict(dict, DOMAIN dict \ {key}), Only(new, dict[key])), over)

(* TransformValue adds a table that a transformation makes of the table at *)
(* `from'; the distance of the dictionaries stays what it is.              *)
TransformValue ==
  /\ from # NoKey
  /\ over = "keys"
  /\ steps = 1
  /\ IsKeyMetric(metric)
  /\ \E new \in DictKeys \ DOMAIN dict :
       EndAt(Augmented(Only(new, [InHand EXCEPT !.bound = dict[from].bound])), over)

-----------------------------------------------------------------------------
(* The transformations that may be given to TransformValue                 *)
(* (add_remove_keys.py): of the table of one key, grouped by its key       *)
(* column before and after.                                                *)
OfOneValue ==
  /\ from # NoKey
  /\ over = "keys"
  /\ IsKeyMetric(metric)
  /\ Longer
  /\ UNCHANGED <<dict, over, from>>
SameMetric == metric' = metric

FilterValue == OfOneValue /\ Filter
SelectValue == OfOneValue /\ Select
RenameValue == OfOneValue /\ Rename
MapValue == OfOneValue /\ Map
FlatMapValue == OfOneValue /\ FlatMap
FlatMapByKeyValue == OfOneValue /\ FlatMapByKey
DropInfsValue == OfOneValue /\ DropInfs
DropNaNsValue == OfOneValue /\ DropNaNs
DropNullsValue == OfOneValue /\ DropNulls
ReplaceInfsValue == OfOneValue /\ ReplaceInfs
ReplaceNaNsValue == OfOneValue /\ ReplaceNaNs
ReplaceNullsValue == OfOneValue /\ ReplaceNulls
LimitRowsPerGroupValue == OfOneValue /\ LimitRowsPerGroup /\ SameMetric
LimitKeysPerGroupValue == OfOneValue /\ LimitKeys /\ SameMetric
LimitRowsPerKeyPerGroupValue == OfOneValue /\ LimitRowsPerKeyPerGroup
PublicJoinValue == OfOneValue /\ PublicJoinAs("inner")
PersistValue == OfOneValue /\ Identity

ValueStep ==
  \/ FilterValue \/ SelectValue \/ RenameValue
  \/ MapValue \/ FlatMapValue \/ FlatMapByKeyValue
  \/ DropInfsValue \/ DropNaNsValue \/ DropNullsValue
  \/ ReplaceInfsValue \/ ReplaceNaNsValue \/ ReplaceNullsValue
  \/ LimitRowsPerGroupValue \/ LimitKeysPerGroupValue
  \/ LimitRowsPerKeyPerGroupValue \/ PublicJoinValue \/ PersistValue

(* Any transformation of a table, in a chain that is at one.               *)
TableStep ==
  /\ over = "values" /\ ~ AtDict
  /\ Longer
  /\ Next
  /\ UNCHANGED <<dict, over, from>>

-----------------------------------------------------------------------------
(* Joins of two tables of a dictionary (spark_transformations/join.py).    *)
Truncated(T, on, s, rank) ==
  CASE s.name = "truncate" -> TruncateLargeGroups(T, on, s.threshold, rank)
    [] s.name = "drop" -> DropLargeGroups(T, on, s.threshold)
    [] OTHER -> T

(* Mutant: truncation only takes rows away.                                *)
TruncationStabilityOfOne(s) ==
  CASE s.name = "truncate" -> 1
    [] s.name = "drop" -> s.threshold
    [] OTHER -> Infinite
TruncationStrategyStability(s) ==
  CASE s.name = "truncate" -> 2
    [] s.name = "drop" -> s.threshold
    [] OTHER -> Infinite

(* A product of extended naturals; infinity times 0 raises.                *)
IsDefined(a, b, c) == ~ {0, Infinite} \subseteq {a, b, c}
Product(a, b, c) == IF Infinite \in {a, b, c} THEN Infinite ELSE a * b * c
Root(square) ==
  IF square = Infinite THEN Infinite
  ELSE Max({n \in 0 .. square : n * n <= square})

(* How far the joined rows are apart if the table truncated by t has       *)
(* changed by d: each of its rows meets at most as many as s lets through. *)
ChangesThrough(s, t, d) == Product(s.threshold, TruncationStrategyStability(t), d)
CanChangeThrough(s, t, d) == IsDefined(s.threshold, TruncationStrategyStability(t), d)
JoinBound(s, t, d, e) ==
  LET changes == {ChangesThrough(s, t, e), ChangesThrough(t, s, d)}
  IN IF Infinite \in changes THEN Infinite
     ELSE Square(ChangesThrough(s, t, e) + ChangesThrough(t, s, d))

BothTables(k) == Copies(dict[k].left[<<>>]) \cup Copies(dict[k].right[<<>>])
JoinedTable(T, U, k, l, on, nulls) ==
  One(Join(T, U, DOMAIN dict[k].schema, DOMAIN dict[l].schema, on, "inner", nulls))
JoinedSchema(k, l, on, nulls) ==
  DomainAfterJoin(dict[k].schema, dict[l].schema, on, "inner", nulls)
CanJoinKeys(k, l, on) ==
  /\ ValidateJoin(dict[k].schema, dict[l].schema, on)
  /\ CanJoin(DOMAIN dict[k].schema, DOMAIN dict[l].schema, on)

PrivateJoin ==
  /\ AtDict /\ over = "values"
  /\ Cardinality(DOMAIN dict) = 2
  /\ \A k \in DOMAIN dict : dict[k].metric = SymmetricDifference
  /\ \E k \in DOMAIN dict : \E l \in DOMAIN dict \ {k} :
     \E on \in SUBSET (DOMAIN dict[k].schema \cap DOMAIN dict[l].schema),
        s, t \in Strategies, nulls \in BOOLEAN :
       /\ CanJoinKeys(k, l, on)
       /\ CanChangeThrough(s, t, Root(dict[l].bound))
       /\ CanChangeThrough(t, s, Root(dict[k].bound))
       /\ \E f \in Orders(BothTables(k)), g \in Orders(BothTables(l)) :
            LET joined(T, U) == JoinedTable(Truncated(T[<<>>], on, s, f),
                                            Truncated(U[<<>>], on, t, g), k, l, on, nulls)
            IN LeaveFor(Entry(JoinedSchema(k, l, on, nulls), SymmetricDifference,
                              joined(dict[k].left, dict[l].left),
                              joined(dict[k].right, dict[l].right),
                              JoinBound(s, t, Root(dict[k].bound), Root(dict[l].bound))))

(* Mutant: the tables may have different key columns.                      *)
JoinsOneKey(k, l, on) == KeyColumn(dict[k]) \in on
JoinsKeys(k, l, on) ==
  /\ KeyColumn(dict[k]) = KeyColumn(dict[l])
  /\ KeyColumn(dict[k]) \in on

PrivateJoinOnKey ==
  /\ AtDict /\ over = "keys"
  /\ \E k \in DOMAIN dict : \E l \in DOMAIN dict \ {k} :
     \E on \in SUBSET (DOMAIN dict[k].schema \cap DOMAIN dict[l].schema),
        new \in DictKeys, nulls \in BOOLEAN :
       /\ CanJoinKeys(k, l, on)
       /\ JoinsKeys(k, l, on)
       /\ LET joined(T, U) == JoinedTable(T[<<>>], U[<<>>], k, l, on, nulls)
              e == Entry(JoinedSchema(k, l, on, nulls), dict[k].metric,
                         joined(dict[k].left, dict[l].left),
                         joined(dict[k].right, dict[l].right), dict[k].bound)
          IN EndAt(Extended(Only(new, e), dict), over)

DictNext ==
  \/ CreateDictFromValue \/ GetValue \/ Subset
  \/ CopyAndTransformValue \/ TransformInPlace \/ RenameKey \/ TransformValue
  \/ ValueStep \/ TableStep
  \/ PrivateJoin \/ PrivateJoinOnKey

DictSpec == DictInit /\ [][DictNext]_allVars

-----------------------------------------------------------------------------
(* The stability guarantee of chains through dictionaries: at a dictionary *)
(* every value is within its bound (DictMetric), or the keys of all tables *)
(* together are (AddRemoveKeys); a table in hand is within its own.        *)
DictStable ==
  /\ Stable
  /\ over = "values" =>
       \A k \in DOMAIN dict :
         Within(Distance(dict[k].metric, dict[k].left, dict[k].right), dict[k].bound)
  /\ over = "keys" =>
       \A k \in DOMAIN dict : Within(Square(KeysApart(dict)), dict[k].bound)

(* Every table of a dictionary, and the one in hand, is in its domain.     *)
DictDomainClosed ==
  /\ DomainClosed
  /\ \A k \in DOMAIN dict : \A part \in DOMAIN dict[k].left :
       /\ InDomain(dict[k].left[part], dict[k].schema)
       /\ InDomain(dict[k].right[part], dict[k].schema)

(* Under AddRemoveKeys, a key with the same rows on both sides keeps the   *)
(* same rows, in every table that is added: what a transformation makes    *)
(* for one key does not depend on the rows of others.                      *)
KeysStayApart ==
  [][over = "keys" /\ dict # <<>> /\ over' = "keys" /\ dict' # <<>> =>
       \A v \in LeftKeys(dict') \cup RightKeys(dict') :
         KeyDiffers(dict', v) => KeyDiffers(dict, v)]_allVars
=============================================================================
