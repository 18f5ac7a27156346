------------------------ MODULE TableTransformations ------------------------
(***************************************************************************)
(* Chains (ChainTT) of the transformations of one Spark table, followed on *)
(* two neighbouring tables at once.  A step chains one more transformation *)
(* onto the chain: its constructor's checks are the guard, the tables are  *)
(* what __call__ returns on either neighbour, and `bound' is the square of *)
(* what the chain's stability function returns for the distance of the     *)
(* tables the chain began with.                                            *)
(*                                                                         *)
(* The tables are functions from the keys of the parts of a list or of a   *)
(* grouped table; a plain table is the one part with the empty key.        *)
(***************************************************************************)
EXTENDS Tables, SequencesExt

CONSTANTS
  Inputs,                \* what chains begin with: schemas, metrics on them
  Cells,                 \* cells that are not special
  NewColumns,            \* names for columns that are added or renamed
  RowTransformers,       \* user functions on rows: the columns they add, and
                         \* whether they return a single row
  RowsOf(_, _),          \* what a row transformer adds to a row: a sequence
  GroupTransformers,     \* user functions on all the rows of a key
  RowsOfGroup(_, _),     \* what a group transformer makes of a group: a bag
  PublicTables,          \* the tables PublicJoin joins with, without the rows
                         \* that it drops as public_df_domain has no such values
  Thresholds,            \* thresholds and max_num_rows
  PartitionColumns,      \* columns that PartitionByKeys is given
  UnwrapEach,            \* UnwrapIfGroupedBy is given metrics with these
                         \* groupings within groups
  MaxRows, MaxSteps, MaxOrdered   \* bounds: rows in an input table, length
                                  \* of a chain, copies ordered in every way

(* The metrics that are modelled: of rows or of groups by `each', perhaps  *)
(* aggregated over groups by `by'.                                         *)
IsMetric(m) ==
  /\ DOMAIN m = DOMAIN SymmetricDifference
  /\ m.base \in {"rows", "hamming"} /\ m.over \in {"table", "sum", "l2"}
  /\ IF m.by = {} THEN m.agg = "none" ELSE m.agg \in {"sum", "l2"}
  /\ m.base = "hamming" => ~ IsIfGroupedBy(m)

ASSUME CellsAssumption == Cells \cap Special = {}
ASSUME InputsAssumption ==
  \A in \in Inputs :
    /\ IsSchema(in.schema)
    /\ IsMetric(in.metric) /\ in.metric.over = "table"
    /\ SupportsDomain(in.metric, in.schema)
ASSUME TransformersAssumption ==
  \A t \in RowTransformers \cup GroupTransformers : IsSchema(t.columns)
ASSUME PublicTablesAssumption ==
  \A p \in PublicTables :
    IsSchema(p.schema) /\ IsTable(p.rows) /\ InDomain(p.rows, p.schema)
ASSUME BoundsAssumption == Thresholds \subseteq Nat /\ MaxSteps \in Nat

(* The rows that user functions return are checked at every call           *)
(* (_assert_row_matches_domain): those of a function that fails make no    *)
(* table.  A function for single rows returns one.                         *)
RowsAsAnnounced(t, r) ==
  /\ Len(RowsOf(t, r)) \in Nat
  /\ t.single => Len(RowsOf(t, r)) > 0
  /\ \A i \in 1 .. Len(RowsOf(t, r)) : ValidRow(RowsOf(t, r)[i], t.columns)
GroupAsAnnounced(t, T) ==
  IsTable(RowsOfGroup(t, T)) /\ InDomain(RowsOfGroup(t, T), t.columns)

VARIABLES schema, metric, left, right, bound, steps
vars == <<schema, metric, left, right, bound, steps>>

One(T) == [k \in {<<>>} |-> T]
Listed(S) == FoldSet(LAMBDA x, s : Append(s, x), <<>>, S)

(* The orders hashing may put S in: all of them if S is small, else two.   *)
Orders(S) ==
  LET n == Cardinality(S)
      s == Listed(S)
  IN IF n <= MaxOrdered THEN Bijection(S, 1 .. n)
     ELSE {[x \in S |-> CHOOSE i \in 1 .. n : s[i] = x],
           [x \in S |-> CHOOSE i \in 1 .. n : s[n + 1 - i] = x]}

RowsIn(s) ==
  {r \in [DOMAIN s -> Cells \cup UNION {s[c].allows : c \in DOMAIN s}] :
     \A c \in DOMAIN s : r[c] \in Cells \cup s[c].allows}
TablesIn(s) ==
  UNION {{T \in [R -> 1 .. MaxRows] : NumRows(T) <= MaxRows} :
           R \in {X \in SUBSET RowsIn(s) : IsFiniteSet(X) /\ Cardinality(X) <= MaxRows}}

TypeOK ==
  /\ bound \in Nat \cup {Infinite}
  /\ steps \in 0 .. MaxSteps
  /\ DOMAIN left = DOMAIN right
  /\ \A k \in DOMAIN left : IsTable(left[k]) /\ IsTable(right[k])
  /\ metric.over = "table" => DOMAIN left = {<<>>}
  /\ SupportsDomain(metric, schema)

Init ==
  \E in \in Inputs : \E l, r \in TablesIn(in.schema) :
    /\ schema = in.schema
    /\ metric = in.metric
    /\ left = One(l)
    /\ right = One(r)
    /\ bound = Distance(in.metric, One(l), One(r))
    /\ bound \in 0 .. in.apart
    /\ steps = 0

(* ChainTT: the new transformation takes up where the chain ends, and      *)
(* announces an output domain, a metric and a stability.                   *)
Announce(s, m, d) ==
  /\ metric.over = "table"
  /\ steps < MaxSteps
  /\ SupportsDomain(m, s)
  /\ schema' = s
  /\ metric' = m
  /\ bound' = d
  /\ steps' = steps + 1

(* The transformation makes the tables F of a table, keyed by part.        *)
ChainParts(F(_), s, m, d) ==
  /\ Announce(s, m, d)
  /\ left' = F(left[<<>>])
  /\ right' = F(right[<<>>])

Chain(F(_), s, m, d) == ChainParts(LAMBDA T : One(F(T)), s, m, d)

(* Infinity times 0 is not a number; the stability function raises.        *)
CanScale(k) == k # 0 \/ bound # Infinite

-----------------------------------------------------------------------------
(* Row by row.                                                             *)
Filter ==                     \* column = value; unknown for null
  /\ metric = SymmetricDifference \/ GroupsRows(metric)
  /\ \E c \in DOMAIN schema, v \in Cells :
       Chain(LAMBDA T : Where(T, LAMBDA r : r[c] = v), schema, metric, bound)

Select ==
  /\ IsIfGroupedBy(metric) => GroupsRows(metric)
  /\ \E C \in SUBSET DOMAIN schema :
       /\ IsIfGroupedBy(metric) => Columns(metric) \subseteq C
       /\ Chain(LAMBDA T : Mapped(T, LAMBDA r : Restrict(r, C)),
                Restrict(schema, C), metric, bound)

Renaming(r, name) ==
  [c \in {name[x] : x \in DOMAIN r} |-> r[CHOOSE x \in DOMAIN r : name[x] = c]]
Rename ==
  /\ IsIfGroupedBy(metric) => GroupsRows(metric)
  /\ \E old \in DOMAIN schema, new \in NewColumns \ DOMAIN schema :
       LET name == [c \in DOMAIN schema |-> IF c = old THEN new ELSE c]
       IN Chain(LAMBDA T : Mapped(T, LAMBDA r : Renaming(r, name)),
                Renaming(schema, name), RenamedMetric(metric, name), bound)

(* RowToRow(s)Transformation: the schema and the rows of a transformer.    *)
Augments(t) == t.augment /\ DOMAIN t.columns \cap DOMAIN schema = {}
OutputSchema(t) == IF t.augment THEN Extended(schema, t.columns) ELSE t.columns
OutputRow(t, r, new) == IF t.augment THEN Extended(r, new) ELSE new
OutputRows(t, r, max) ==      \* a sequence of at most max rows
  LET new == RowsOf(t, r)
      n == IF max = Infinite \/ Len(new) < max THEN Len(new) ELSE max
  IN [i \in 1 .. n |-> OutputRow(t, r, new[i])]

Map ==
  \E t \in {x \in RowTransformers : x.single /\ (Augments(x) \/ ~ x.augment)} :
    /\ IsIfGroupedBy(metric) => GroupsRows(metric) /\ t.augment
    /\ Chain(LAMBDA T : Mapped(T, LAMBDA r : OutputRows(t, r, 1)[1]),
             OutputSchema(t), metric, bound)

FlatMapBound(max) ==
  IF metric.by = {} /\ metric.each # {} THEN bound
  ELSE IF max = Infinite THEN Infinite
  ELSE Scaled(bound, max * max)
FlatMap ==
  \E t \in {x \in RowTransformers : Augments(x) \/ ~ x.augment},
     max \in Thresholds \cup {Infinite} :
    /\ metric = SymmetricDifference \/ (GroupsRows(metric) /\ t.augment)
    /\ (metric.by = {} /\ metric.each # {}) \/ CanScale(max)
    /\ Chain(LAMBDA T : FlatMapped(T, LAMBDA r : Tally(OutputRows(t, r, max))),
             OutputSchema(t), metric, FlatMapBound(max))

(* Of the first max rows, one for each value of the grouping column.       *)
FirstOfEach(rows, g) ==
  {rows[i] : i \in {j \in DOMAIN rows :
                      \A h \in 1 .. j - 1 : rows[h][g] # rows[j][g]}}
GroupingFlatMap ==
  /\ metric = SymmetricDifference
  /\ \E t \in {x \in RowTransformers : Augments(x)}, max \in Thresholds,
        agg \in {"sum", "l2"} :
       \E g \in DOMAIN t.columns :
         /\ DOMAIN t.columns = {g}
         /\ CanScale(max)
         /\ Chain(LAMBDA T : FlatMapped(T, LAMBDA r :
                    SetToBag(FirstOfEach(OutputRows(t, r, max), g))),
                  OutputSchema(t), IfGroupedByAgg({g}, agg, {}),
                  Scaled(bound, IF agg = "sum" THEN max * max ELSE max))

FlatMapByKey ==
  \E key \in DOMAIN schema, t \in GroupTransformers :
    /\ metric = IfGroupedBy({key})
    /\ key \notin DOMAIN t.columns
    /\ Chain(LAMBDA T : FlatMapped(SetToBag(Keys(T, {key})), LAMBDA k :
               Mapped(RowsOfGroup(t, Group(T, {key}, k)), LAMBDA r : Extended(k, r))),
             Extended(Restrict(schema, {key}), t.columns), metric, bound)

-----------------------------------------------------------------------------
(* Special values (nan.py).  The specials an operation is about are given  *)
(* by `what'; all but nulls are found in float columns only.               *)
HasSpecial(what, c) == what = {Null} \/ schema[c].kind = "float"
Without(what, C) ==
  [c \in DOMAIN schema |->
     IF c \in C THEN [schema[c] EXCEPT !.allows = @ \ what] ELSE schema[c]]

DropRows(what) ==
  /\ metric = SymmetricDifference \/ GroupsRows(metric)
  /\ \E C \in (SUBSET DOMAIN schema) \ {{}} :
       /\ \A c \in C : HasSpecial(what, c)
       /\ Chain(LAMBDA T : Where(T, LAMBDA r : \A c \in C : r[c] \notin what),
                Without(what, C), metric, bound)
DropInfs == DropRows(Infs)
DropNaNs == DropRows({NaN})
DropNulls == DropRows({Null})

(* `with' maps the replaced specials of column c to their replacements.    *)
ReplaceCells(what, c, with) ==
  /\ IsIfGroupedBy(metric) => GroupsRows(metric)
  /\ HasSpecial(what, c)
  /\ \A v \in Range(with) : ValidCell(v, Without(what, {c})[c])
  /\ Chain(LAMBDA T : Mapped(T, LAMBDA r :
             IF r[c] \in what THEN [r EXCEPT ![c] = with[@]] ELSE r),
           Without(what, {c}), metric, bound)
Replacements(what, c) == [what -> Cells \cup schema[c].allows]
ReplaceInfs ==
  \E c \in DOMAIN schema : \E with \in Replacements(Infs, c) :
    ReplaceCells(Infs, c, with)
ReplaceNaNs ==
  \E c \in DOMAIN schema : \E with \in Replacements({NaN}, c) :
    ReplaceCells({NaN}, c, with)
(* Mutant: grouping columns may be replaced.                               *)
ReplaceAnyNulls ==
  \E c \in DOMAIN schema : \E with \in Replacements({Null}, c) :
    ReplaceCells({Null}, c, with)
ReplaceNulls ==
  \E c \in DOMAIN schema : \E with \in Replacements({Null}, c) :
    /\ IsIfGroupedBy(metric) => c \notin Columns(metric)
    /\ ReplaceCells({Null}, c, with)

-----------------------------------------------------------------------------
(* Truncation.  The two neighbours are hashed alike.                       *)
AllCopies == Copies(left[<<>>]) \cup Copies(right[<<>>])
AllKeys(C) == Keys(left[<<>>], C) \cup Keys(right[<<>>], C)

LimitRowsPerGroup ==
  \E C \in (SUBSET DOMAIN schema) \ {{}}, n \in Thresholds :
    /\ metric = IfGroupedBy(C)
    /\ \E rank \in Orders(AllCopies), m \in {SymmetricDifference, metric} :
         /\ m = metric \/ CanScale(n)
         /\ Chain(LAMBDA T : TruncateLargeGroups(T, C, n, rank), schema, m,
                  IF m = metric THEN bound ELSE Scaled(bound, n * n))

(* Mutant: a group's keys count as one difference under SumOf too.         *)
LimitKeysBoundL2(m, n) == IF m = metric THEN bound ELSE Scaled(bound, n)
LimitKeysPerGroupBound(m, n) ==
  CASE m = metric -> bound
    [] m.agg = "l2" -> Scaled(bound, n)
    [] OTHER -> Scaled(bound, n * n)
LimitKeys ==
  \E C \in (SUBSET DOMAIN schema) \ {{}}, n \in Thresholds :
    \E key \in DOMAIN schema \ C :
      /\ metric = IfGroupedBy(C)
      /\ \E rank \in Orders(AllKeys(C \cup {key})),
            m \in {metric, IfGroupedByAgg({key}, "sum", C),
                   IfGroupedByAgg({key}, "l2", C)} :
           /\ m = metric \/ CanScale(n)
           /\ Chain(LAMBDA T : LimitKeysPerGroup(T, C, {key}, n, rank),
                    schema, m, LimitKeysPerGroupBound(m, n))

RowsPerKeyMetric(C, key) ==   \* the output metric
  CASE metric = IfGroupedBy(C) -> metric
    [] metric.agg = "sum" -> SymmetricDifference
    [] OTHER -> IfGroupedByAgg({key}, "l2", {})
LimitRowsPerKeyPerGroup ==
  \E C \in (SUBSET DOMAIN schema) \ {{}}, n \in Thresholds :
    \E key \in DOMAIN schema \ C :
      /\ metric \in {IfGroupedBy(C), IfGroupedByAgg({key}, "sum", C),
                     IfGroupedByAgg({key}, "l2", C)}
      /\ metric = IfGroupedBy(C) \/ CanScale(n)
      /\ \E rank \in Orders(AllCopies) :
           Chain(LAMBDA T : TruncateLargeGroups(T, C \cup {key}, n, rank),
                 schema, RowsPerKeyMetric(C, key),
                 IF metric = IfGroupedBy(C) THEN bound
                 ELSE Scaled(bound, n * n))

-----------------------------------------------------------------------------
(* Each copy of a row gets a value that no other copy of any row has: the  *)
(* row and its number among its equals.                                    *)
AddUniqueColumn ==
  /\ metric = SymmetricDifference
  /\ \E col \in NewColumns \ DOMAIN schema :
       Chain(LAMBDA T : SetToBag({Extended(x[1], Only(col, ToString(x))) :
                                    x \in Copies(T)}),
             Extended(schema, Only(col, Column("string", {}))),
             IfGroupedBy({col}), bound)

(* The largest number of public rows that one row can be joined with.      *)
JoinStability(p, on, nullsAreEqual) ==
  IF metric.by = {} /\ metric.each # {} THEN 1
  ELSE LET keys == {k \in Keys(p.rows, on) :
                      nullsAreEqual \/ Null \notin Range(k)}
       IN Max({0} \cup {NumRows(Group(p.rows, on, k)) : k \in keys})
(* The constructor does not see that a suffixed name is a joined column's; *)
(* Spark then refuses to run the join.                                     *)
CanJoin(ls, rs, on) == on \cap Suffixed(ls, rs, on) = {}
PublicJoinAs(how) ==
  /\ metric = SymmetricDifference \/ GroupsRows(metric)
  /\ \E p \in PublicTables, nulls \in BOOLEAN :
       \E on \in SUBSET (DOMAIN schema \cap DOMAIN p.schema) :
         /\ ValidateJoin(schema, p.schema, on)
         /\ CanJoin(DOMAIN schema, DOMAIN p.schema, on)
         /\ IsIfGroupedBy(metric) =>
              Columns(metric) \cap (DOMAIN p.schema \ on) = {}
         /\ CanScale(JoinStability(p, on, nulls))
         /\ Chain(LAMBDA T : Join(T, p.rows, DOMAIN schema, DOMAIN p.schema,
                                  on, how, nulls),
                  DomainAfterJoin(schema, p.schema, on, how, nulls), metric,
                  Scaled(bound, JoinStability(p, on, nulls)
                                  * JoinStability(p, on, nulls)))
PublicJoin == \E how \in {"inner", "left"} : PublicJoinAs(how)

-----------------------------------------------------------------------------
(* Metrics (converters.py); Identity is also Persist, Unpersist and        *)
(* SparkAction, which only tell Spark when to compute a table.             *)
Same(T) == T
Identity == Chain(Same, schema, metric, bound)

UnwrapIfGroupedBy ==
  /\ metric.by # {} /\ metric.each \in UnwrapEach
  /\ Chain(Same, schema, Metric(metric.base, {}, "none", metric.each),
           IF metric.agg = "l2" THEN Square(bound) ELSE bound)

HammingDistanceToSymmetricDifference ==
  /\ metric = HammingDistance
  /\ Chain(Same, schema, SymmetricDifference, Scaled(bound, 4))

-----------------------------------------------------------------------------
(* Lists and groups end a chain.  `values' are the keys that are asked     *)
(* for; rows with other keys are in no part.                               *)
KeyChoices(K) ==
  LET all == {k \in [K -> Cells \cup {Null}] :
                \A c \in K : k[c] \in Cells \cup schema[c].allows}
  IN {values \in {all} \cup {{k} : k \in all} : IsFiniteSet(values)}
Parts(T, K, values) == [k \in values |-> Group(T, K, k)]

(* Mutant: the list is not aggregated over.                                *)
PartMetricOfTable(agg, K) == [metric EXCEPT !.by = @ \ K]

(* Grouping by a column that has one value in each part is left out.       *)
PartMetric(agg, K) ==
  LET rest == metric.by \ K
  IN Over(agg, [metric EXCEPT !.by = rest,
                              !.agg = IF rest = {} THEN "none" ELSE @])
PartitionByKeys ==
  \E K \in (SUBSET (PartitionColumns \cap DOMAIN schema)) \ {{}},
     agg \in {"sum", "l2"} :
    /\ metric = SymmetricDifference \/ metric.agg = agg
    /\ \E values \in KeyChoices(K) :
         ChainParts(LAMBDA T : Parts(T, K, values), schema,
                    PartMetric(agg, K), bound)

GroupBy ==
  \E K \in SUBSET DOMAIN schema, agg \in {"sum", "l2"} :
    /\ IsIfGroupedBy(metric) =>
         metric.by \subseteq K /\ metric = IfGroupedByAgg(metric.by, agg, {})
    /\ \A c \in K : schema[c].kind # "float"
    /\ \E values \in KeyChoices(K) :
         ChainParts(LAMBDA T : Parts(T, K, values), schema,
                    Over(agg, SymmetricDifference),
                    IF metric.base = "hamming" THEN Scaled(bound, 4) ELSE bound)

Next ==
  \/ Filter \/ Select \/ Rename \/ Map \/ FlatMap \/ GroupingFlatMap
  \/ FlatMapByKey
  \/ DropInfs \/ DropNaNs \/ DropNulls
  \/ ReplaceInfs \/ ReplaceNaNs \/ ReplaceNulls
  \/ LimitRowsPerGroup \/ LimitKeys \/ LimitRowsPerKeyPerGroup
  \/ AddUniqueColumn \/ PublicJoin
  \/ Identity \/ UnwrapIfGroupedBy \/ HammingDistanceToSymmetricDifference
  \/ PartitionByKeys \/ GroupBy

Spec == Init /\ [][Next]_vars

-----------------------------------------------------------------------------
(* The stability guarantee: neighbouring inputs end up no further apart    *)
(* than the chain's stability function says, in the chain's output metric, *)
(* whatever was chained with whatever (ChainTT.stability_function).        *)
Stable == Within(Distance(metric, left, right), bound)

(* The output of a chain is in its output domain: the columns and the      *)
(* special values that the last transformation announces are those that    *)
(* can occur, so that what is chained next may rely on them.               *)
DomainClosed ==
  \A k \in DOMAIN left : InDomain(left[k], schema) /\ InDomain(right[k], schema)

(* As long as tables are compared group by group with the same grouping, a *)
(* transformation does not move a difference from one group to another:    *)
(* groups that agreed on the neighbours still agree.                       *)
Agree(C, l, r) == {k \in Keys(l, C) \cup Keys(r, C) : Group(l, C, k) = Group(r, C, k)}
Differ(C, l, r) == (Keys(l, C) \cup Keys(r, C)) \ Agree(C, l, r)
GroupsStayApart ==
  [][IsIfGroupedBy(metric) /\ metric' = metric =>
       Differ(Columns(metric), left'[<<>>], right'[<<>>])
         \subseteq Differ(Columns(metric), left[<<>>], right[<<>>])]_vars
=============================================================================
